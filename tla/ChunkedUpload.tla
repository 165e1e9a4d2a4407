---------------------------- MODULE ChunkedUpload ----------------------------
(***************************************************************************)
(* Chunked uploads: HandleUploadStart, HandleUploadChunk and               *)
(* HandleUploadComplete, over the directories storage/chunks/<upload id>   *)
(* (meta.json and one file per chunk) and storage/uploads.                 *)
(*                                                                         *)
(* Nothing locks a session: every handler reads and writes its directory   *)
(* on its own.  A client may send the chunks of a file in any order and at *)
(* the same time, and may ask for completion at any time; MaxResends says  *)
(* how often it sends something again without knowing what became of the   *)
(* first request (0: never, as the upload page's script).                  *)
(*                                                                         *)
(* A chunk's content is two halves, written in order, so that a file may   *)
(* be seen half written.  os.Create truncates a file that exists and two   *)
(* handlers that write the same file keep their own offsets, so a part can *)
(* have its second half and not its first.                                 *)
(*                                                                         *)
(* As in ShareStore, a definition named after the one right below it is a  *)
(* plausible bug in that definition.                                       *)
(***************************************************************************)
EXTENDS Integers, FiniteSets, FiniteSetsExt

CONSTANTS
  Workers,     \* handler goroutines
  Sessions,    \* upload ids generateUploadID can return
  Blobs,       \* names under storage/uploads generateDownloadHashLocal gives
  NoSession,   \* a handler without a request
  NoRow,       \* a file without a row
  NoBlob,      \* a handler that has not created its file yet
  Sizes,       \* sizes of the files users upload, in chunks
  MaxResends,  \* bound: requests sent again
  MaxCrashes   \* bound: restarts

ASSUME SentinelAssumption ==
  /\ NoSession \notin Sessions /\ NoBlob \notin Blobs
  /\ NoRow \notin [session : Sessions, size : Sizes, sniffed : BOOLEAN]
  /\ \A none \in {NoSession, NoRow} : none \notin [session : Sessions, size : Sizes]
ASSUME SizesAssumption == Sizes \subseteq Nat \ {0} /\ IsFiniteSet(Sizes) /\ Sizes # {}
ASSUME BoundsAssumption == MaxResends \in Nat /\ MaxCrashes \in Nat

Index == UNION {0..(size - 1) : size \in Sizes}
Halves == {1, 2}
Absent == {0}                       \* no such file
Content == (SUBSET Halves) \cup {Absent}
Whole == Halves

VARIABLES
  meta,     \* meta.json of a session: the announced size, 0 if there is none
  parts,    \* NNNNN.part files of a session
  stored,   \* files under storage/uploads
  pieces,   \* what each of them holds, by index of the chunk
  rows,     \* shared_files: the session a file came from, and file_size
  pc,       \* where each handler stands
  req,      \* its request and its locals
  sent,     \* chunks a client has sent, by session
  asked,    \* sessions whose completion was asked for
  early,    \* those of them with a chunk not sent or not answered yet
  resends,  \* requests sent again so far
  crashes,  \* restarts so far
  debris,   \* history: files a restart left without a row
  orphans,  \* history: files a failed completion left without a row
  kept,     \* history: files whose removal failed
  cut       \* history: sessions whose removal failed or was cut short

disk == <<meta, parts, stored, pieces, rows>>
client == <<sent, asked, early, resends>>
history == <<debris, orphans, kept, cut>>
vars == <<disk, pc, req, client, crashes, history>>

Nothing == [i \in Index |-> Absent]
Row == [session : Sessions, size : Sizes, sniffed : BOOLEAN]

(* What a handler works on: its chunk, and whether the file it has open    *)
(* still has a name; or the parts to merge, whether the type was detected  *)
(* from the beginning of the file, and the file it merges into.            *)
ChunkRequest == [session : Sessions, index : Index, live : BOOLEAN]
CompleteRequest == [session : Sessions, todo : SUBSET Index, size : Sizes,
                    sniffed : BOOLEAN, blob : Blobs \cup {NoBlob}]
Idle == [session |-> NoSession]

Chunking == {"admitted", "opened", "half"}
Completing == {"listed", "sniffed", "merging", "merged", "recorded"}

TypeOK ==
  /\ meta \in [Sessions -> Sizes \cup {0}]
  /\ parts \in [Sessions -> [Index -> Content]]
  /\ stored \subseteq Blobs
  /\ pieces \in [Blobs -> [Index -> Content]]
  /\ rows \in [Blobs -> Row \cup {NoRow}]
  /\ pc \in [Workers -> {"idle"} \cup Chunking \cup Completing]
  /\ req \in [Workers -> {Idle} \cup ChunkRequest \cup CompleteRequest]
  /\ \A w \in Workers :
       \/ pc[w] = "idle" /\ req[w] = Idle
       \/ pc[w] \in Chunking /\ req[w] \in ChunkRequest
       \/ pc[w] \in Completing /\ req[w] \in CompleteRequest
  /\ sent \in [Sessions -> SUBSET Index]
  /\ asked \subseteq Sessions /\ early \subseteq asked
  /\ resends \in 0..MaxResends /\ crashes \in 0..MaxCrashes
  /\ debris \subseteq Blobs /\ orphans \subseteq Blobs /\ kept \subseteq Blobs
  /\ cut \subseteq Sessions

-----------------------------------------------------------------------------
(* What a file takes up on disk, a hole before its last half included.     *)
Bytes(file) == {p \in Index \X Halves : \E half \in file[p[1]] : p[2] <= half}

SizeIs(file, size) == Cardinality(Bytes(file)) = 2 * size

(* All that is compared before a file is shared: the bytes written and the *)
(* announced size.                                                         *)
SizeMatchesUnchecked(file, size) == TRUE
SizeMatches(file, size) == SizeIs(file, size)

Goto(w, label) == pc' = [pc EXCEPT ![w] = label]

Finish(w) ==
  /\ pc' = [pc EXCEPT ![w] = "idle"]
  /\ req' = [req EXCEPT ![w] = Idle]

(* A request sent for the first time, or again at the cost of one resend.  *)
Send(new) == /\ new \/ resends < MaxResends
             /\ resends' = IF new THEN resends ELSE resends + 1

-----------------------------------------------------------------------------
(* Start: one request that creates the session directory with meta.json.   *)
Start(w, u) ==
  /\ pc[w] = "idle"
  /\ meta[u] = 0 /\ sent[u] = {}   \* 16 random bytes: never used before
  /\ \E size \in Sizes : meta' = [meta EXCEPT ![u] = size]
  /\ UNCHANGED <<parts, stored, pieces, rows, pc, req, client, crashes, history>>

-----------------------------------------------------------------------------
(* Chunk                                                                   *)

(* loadChunkedMeta succeeded.                                              *)
ChunkArrives(w, u, i) ==
  /\ pc[w] = "idle"
  /\ meta[u] # 0
  /\ i < meta[u]
  /\ Send(i \notin sent[u])
  /\ sent' = [sent EXCEPT ![u] = @ \cup {i}]
  /\ req' = [req EXCEPT ![w] = [session |-> u, index |-> i, live |-> TRUE]]
  /\ Goto(w, "admitted")
  /\ UNCHANGED <<disk, asked, early, crashes, history>>

(* MkdirAll and Create: the directory comes back if it was removed, an     *)
(* existing part is truncated.                                             *)
CreatePart(w) ==
  /\ pc[w] = "admitted"
  /\ parts' = [parts EXCEPT ![req[w].session][req[w].index] = {}]
  /\ Goto(w, "opened")
  /\ UNCHANGED <<meta, stored, pieces, rows, req, client, crashes, history>>

WriteHalfUnlinked(w, half) ==
  parts' = [parts EXCEPT ![req[w].session][req[w].index] = @ \cup {half}]

(* A write through an open file; nothing is seen of it once the directory  *)
(* was removed.                                                            *)
WriteHalf(w, half) ==
  parts' = IF req[w].live
           THEN [parts EXCEPT ![req[w].session][req[w].index] = @ \cup {half}]
           ELSE parts

CopyFirstHalf(w) ==
  /\ pc[w] = "opened"
  /\ WriteHalf(w, 1)
  /\ Goto(w, "half")
  /\ UNCHANGED <<meta, stored, pieces, rows, req, client, crashes, history>>

CopySecondHalf(w) ==
  /\ pc[w] = "half"
  /\ WriteHalf(w, 2)
  /\ Finish(w)
  /\ UNCHANGED <<meta, stored, pieces, rows, client, crashes, history>>

(* The directory or the file cannot be created, or the connection breaks   *)
(* in the middle: what was written stays.                                  *)
ChunkFails(w) ==
  /\ pc[w] \in Chunking
  /\ Finish(w)
  /\ UNCHANGED <<disk, client, crashes, history>>

-----------------------------------------------------------------------------
(* Complete                                                                *)

(* A client that asks before every chunk of the session was answered.      *)
Waiting(u) ==
  \/ sent[u] # 0..(meta[u] - 1)
  \/ \E v \in Workers : pc[v] \in Chunking /\ req[v].session = u

(* ReadDir: the parts to merge are settled before any of them is read.     *)
CompleteArrives(w, u) ==
  /\ pc[w] = "idle"
  /\ meta[u] # 0
  /\ Send(u \notin asked)
  /\ asked' = asked \cup {u}
  /\ early' = IF Waiting(u) THEN early \cup {u} ELSE early
  /\ LET present == {i \in Index : parts[u][i] # Absent}
     IN  /\ present # {}
         /\ req' = [req EXCEPT ![w] = [session |-> u, todo |-> present, size |-> meta[u],
                                       sniffed |-> FALSE, blob |-> NoBlob]]
  /\ Goto(w, "listed")
  /\ UNCHANGED <<disk, sent, crashes, history>>

FirstPartUnsorted(todo) == Max(todo)
FirstPart(todo) == Min(todo)

(* The type is detected from the first part listed, as it is now: what is  *)
(* read is the beginning of the file only if chunk 0 is there by then.     *)
Sniff(w) ==
  /\ pc[w] = "listed"
  /\ LET i == FirstPart(req[w].todo)
     IN  req' = [req EXCEPT ![w].sniffed = (i = 0 /\ 1 \in parts[req[w].session][i])]
  /\ Goto(w, "sniffed")
  /\ UNCHANGED <<disk, client, crashes, history>>

(* No privilege, quota or type for it, or the hash or the directory fails. *)
RefuseComplete(w) ==
  /\ pc[w] \in {"listed", "sniffed"}
  /\ Finish(w)
  /\ UNCHANGED <<disk, client, crashes, history>>

CreateFinal(w) ==
  /\ pc[w] = "sniffed"
  /\ \E b \in Blobs \ stored :
       /\ rows[b] = NoRow   \* 9 random bytes: never used before
       /\ stored' = stored \cup {b}
       /\ req' = [req EXCEPT ![w].blob = b]
  /\ Goto(w, "merging")
  /\ UNCHANGED <<meta, parts, pieces, rows, client, crashes, history>>

(* Open and copy the next part in the order of the names, which is the     *)
(* order of the indices below 100000.                                      *)
AppendPart(w) ==
  /\ pc[w] = "merging"
  /\ req[w].todo # {}
  /\ LET i == Min(req[w].todo)
         content == parts[req[w].session][i]
     IN  /\ content # Absent
         /\ pieces' = [pieces EXCEPT ![req[w].blob][i] = content]
         /\ req' = [req EXCEPT ![w].todo = @ \ {i}]
  /\ UNCHANGED <<meta, parts, stored, rows, pc, client, crashes, history>>

(* A part is gone, or reading it fails: the handler answers and leaves the *)
(* file it was writing.                                                    *)
AppendFails(w) ==
  /\ pc[w] = "merging"
  /\ req[w].todo # {}
  /\ orphans' = orphans \cup {req[w].blob}
  /\ Finish(w)
  /\ UNCHANGED <<disk, client, crashes, debris, kept, cut>>

(* os.Remove, whose error is ignored: the file may stay.                   *)
Discard(b) ==
  \/ /\ stored' = stored \ {b}
     /\ pieces' = [pieces EXCEPT ![b] = Nothing]
     /\ UNCHANGED kept
  \/ /\ kept' = kept \cup {b}
     /\ UNCHANGED <<stored, pieces>>

SizeOK(w) ==
  /\ pc[w] = "merging"
  /\ req[w].todo = {}
  /\ SizeMatches(pieces[req[w].blob], req[w].size)
  /\ Goto(w, "merged")
  /\ UNCHANGED <<disk, req, client, crashes, history>>

SizeMismatch(w) ==
  /\ pc[w] = "merging"
  /\ req[w].todo = {}
  /\ ~SizeMatches(pieces[req[w].blob], req[w].size)
  /\ Discard(req[w].blob)
  /\ Finish(w)
  /\ UNCHANGED <<meta, parts, rows, client, crashes, debris, orphans, cut>>

InsertRow(w) ==
  /\ pc[w] = "merged"
  /\ rows' = [rows EXCEPT ![req[w].blob] = [session |-> req[w].session,
                                          size |-> req[w].size,
                                          sniffed |-> req[w].sniffed]]
  /\ Goto(w, "recorded")
  /\ UNCHANGED <<meta, parts, stored, pieces, req, client, crashes, history>>

InsertFailsRemovingSession(w) ==
  /\ pc[w] = "merged"
  /\ Discard(req[w].blob)
  /\ meta' = [meta EXCEPT ![req[w].session] = 0]
  /\ parts' = [parts EXCEPT ![req[w].session] = Nothing]
  /\ Finish(w)
  /\ UNCHANGED <<rows, client, crashes, debris, orphans, cut>>

InsertFailsKeepingFile(w) ==
  /\ pc[w] = "merged"
  /\ Finish(w)
  /\ UNCHANGED <<disk, client, crashes, history>>

InsertFails(w) ==
  /\ pc[w] = "merged"
  /\ Discard(req[w].blob)
  /\ Finish(w)
  /\ UNCHANGED <<meta, parts, rows, client, crashes, debris, orphans, cut>>

(* os.RemoveAll unlinks the entries of the directory one by one, in the    *)
(* order it happens to read them.                                          *)
RemoveMeta(w) ==
  /\ pc[w] = "recorded"
  /\ meta[req[w].session] # 0
  /\ meta' = [meta EXCEPT ![req[w].session] = 0]
  /\ UNCHANGED <<parts, stored, pieces, rows, pc, req, client, crashes, history>>

(* A part that other handlers hold open loses its name under them.         *)
RemovePart(w, i) ==
  LET u == req[w].session
      HasOpen(v) == /\ pc[v] \in {"opened", "half"}
                    /\ req[v].session = u /\ req[v].index = i
  IN
  /\ pc[w] = "recorded"
  /\ parts[u][i] # Absent
  /\ parts' = [parts EXCEPT ![u][i] = Absent]
  /\ req' = [v \in Workers |-> IF HasOpen(v) THEN [req[v] EXCEPT !.live = FALSE]
                               ELSE req[v]]
  /\ UNCHANGED <<meta, stored, pieces, rows, pc, client, crashes, history>>

Gone(u) == meta[u] = 0 /\ parts[u] = Nothing

RemoveEnds(w) ==
  /\ pc[w] = "recorded"
  /\ Gone(req[w].session)
  /\ Finish(w)
  /\ UNCHANGED <<disk, client, crashes, history>>

(* An entry cannot be unlinked, or a chunk brought one up that the listing *)
(* missed: the error is ignored and the rest stays, in any combination.    *)
RemoveFails(w) ==
  /\ pc[w] = "recorded"
  /\ ~Gone(req[w].session)
  /\ cut' = cut \cup {req[w].session}
  /\ Finish(w)
  /\ UNCHANGED <<disk, client, crashes, debris, orphans, kept>>

-----------------------------------------------------------------------------
(* The server restarts; the disk stays as it is.                           *)
Merging(w) == pc[w] \in {"merging", "merged"}

Crash ==
  /\ crashes < MaxCrashes
  /\ crashes' = crashes + 1
  /\ debris' = debris \cup {req[w].blob : w \in {v \in Workers : Merging(v)}}
  /\ cut' = cut \cup {req[w].session : w \in {v \in Workers : pc[v] = "recorded"}}
  /\ pc' = [w \in Workers |-> "idle"]
  /\ req' = [w \in Workers |-> Idle]
  /\ UNCHANGED <<disk, client, orphans, kept>>

Init ==
  /\ meta = [u \in Sessions |-> 0]
  /\ parts = [u \in Sessions |-> Nothing]
  /\ stored = {}
  /\ pieces = [b \in Blobs |-> Nothing]
  /\ rows = [b \in Blobs |-> NoRow]
  /\ pc = [w \in Workers |-> "idle"]
  /\ req = [w \in Workers |-> Idle]
  /\ sent = [u \in Sessions |-> {}]
  /\ asked = {} /\ early = {}
  /\ resends = 0 /\ crashes = 0
  /\ debris = {} /\ orphans = {} /\ kept = {} /\ cut = {}

ChunkStep(w) ==
  CreatePart(w) \/ CopyFirstHalf(w) \/ CopySecondHalf(w) \/ ChunkFails(w)

CompleteStep(w) ==
  \/ Sniff(w) \/ RefuseComplete(w) \/ CreateFinal(w)
  \/ AppendPart(w) \/ AppendFails(w)
  \/ SizeOK(w) \/ SizeMismatch(w)
  \/ InsertRow(w) \/ InsertFails(w)
  \/ RemoveMeta(w) \/ \E i \in Index : RemovePart(w, i)
  \/ RemoveEnds(w) \/ RemoveFails(w)

Next ==
  \/ \E w \in Workers :
       \/ \E u \in Sessions :
            \/ Start(w, u)
            \/ \E i \in Index : ChunkArrives(w, u, i)
            \/ CompleteArrives(w, u)
       \/ ChunkStep(w)
       \/ CompleteStep(w)
  \/ Crash

Spec == Init /\ [][Next]_vars

-----------------------------------------------------------------------------
Complete(b) ==
  /\ b \in stored
  /\ pieces[b] = [i \in Index |-> IF i < rows[b].size THEN Whole ELSE Absent]

(* While every request is sent once, a shared file is the file that was    *)
(* announced: all its chunks, each of them whole, whatever order they came *)
(* in and however early completion was asked for (HandleUploadComplete     *)
(* checks only the total size).                                            *)
SharedIsComplete ==
  resends = 0 => \A b \in Blobs : rows[b] # NoRow => Complete(b)

(* A shared file has the size its row says, also when requests were sent   *)
(* again and handlers wrote the same part at the same time.                *)
SharedHasItsSize ==
  \A b \in Blobs : rows[b] # NoRow => b \in stored /\ SizeIs(pieces[b], rows[b].size)

(* While every request is sent once, a part on disk belongs to a session   *)
(* that can still be completed, unless the session's removal is on its way *)
(* or was cut short: no chunk, however late, brings a part up in a session *)
(* that was merged and removed.                                            *)
PartsHaveSession ==
  resends = 0 => \A u \in Sessions : parts[u] # Nothing =>
    \/ meta[u] # 0
    \/ \E w \in Workers : pc[w] = "recorded" /\ req[w].session = u
    \/ u \in cut

(* No file under storage/uploads is unaccounted for: it has a row, or a    *)
(* completion is writing it, or a restart, a failed merge or a failed      *)
(* removal left it.                                                        *)
FilesAccountedFor ==
  \A b \in stored :
    \/ rows[b] # NoRow
    \/ \E w \in Workers : Merging(w) /\ req[w].blob = b
    \/ b \in debris \cup orphans \cup kept

(* A client that sends every request once and waits for its chunks before  *)
(* it asks for completion has its file's type decided on the file's own    *)
(* beginning; one that asks early may have it decided on an empty part.    *)
TypeReadFromFile ==
  resends = 0 => \A b \in Blobs :
    rows[b] # NoRow /\ rows[b].session \notin early => rows[b].sniffed

(* The session as its client may count on it: gone once it was asked for   *)
(* and removed, with a ticket for every completion that may still share,   *)
(* and its shared files.                                                   *)
Closed == {u \in asked : meta[u] = 0}
MayShare(w) == pc[w] \in {"listed", "sniffed", "merging", "merged"}
Ticket == [w \in Workers |-> IF MayShare(w)
                             THEN [session |-> req[w].session, size |-> req[w].size]
                             ELSE NoSession]
Shares == [b \in Blobs |-> IF rows[b] = NoRow THEN NoRow
                           ELSE [session |-> rows[b].session, size |-> rows[b].size]]

Promise == INSTANCE UploadPromise WITH
  Handlers <- Workers, Files <- Blobs, NoTicket <- NoSession, NoShare <- NoRow,
  announced <- meta, closed <- Closed, ticket <- Ticket, shares <- Shares

(* Whatever is sent again, late or too early, and however a completion is  *)
(* cut short, the session keeps the promise of a chunked upload.           *)
KeepsPromise == Promise!Spec

(* "It validates the parts, concatenates them" (uploads.go:591): no part   *)
(* with a hole is shared.                                                  *)
PartsAreValidated == \A b \in Blobs : rows[b] # NoRow => Complete(b)

(* "exactly like the direct (small file) path" (uploads.go:363): a failed  *)
(* completion leaves no file behind.                                       *)
FailedMergeLeavesNothing == \A b \in orphans : b \notin stored

=============================================================================
