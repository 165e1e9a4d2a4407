------------------------- MODULE ChunkedUploadProofs -------------------------
(***************************************************************************)
(* TLAPS proofs about ChunkedUpload, for any handlers, sessions, sizes and *)
(* numbers of resends and restarts.                                        *)
(***************************************************************************)
EXTENDS ChunkedUpload, FiniteSetTheorems, WellFoundedInduction, TLAPS

USE DEF history   \* what a step leaves alone is mostly all of it

(***************************************************************************)
(* Types, and a file for every handler that is past creating it.           *)
(***************************************************************************)
HandlersOK ==
  /\ pc \in [Workers -> {"idle"} \cup Chunking \cup Completing]
  /\ req \in [Workers -> {Idle} \cup ChunkRequest \cup CompleteRequest]
  /\ \A w \in Workers :
       \/ pc[w] = "idle" /\ req[w] = Idle
       \/ pc[w] \in Chunking /\ req[w] \in ChunkRequest
       \/ /\ pc[w] \in Completing /\ req[w] \in CompleteRequest
          /\ pc[w] \notin {"listed", "sniffed"} => req[w].blob \in Blobs

DiskOK ==
  /\ meta \in [Sessions -> Sizes \cup {0}]
  /\ parts \in [Sessions -> [Index -> Content]]
  /\ stored \subseteq Blobs
  /\ pieces \in [Blobs -> [Index -> Content]]
  /\ rows \in [Blobs -> Row \cup {NoRow}]

HistoryOK ==
  /\ sent \in [Sessions -> SUBSET Index]
  /\ asked \subseteq Sessions /\ early \subseteq asked
  /\ resends \in 0..MaxResends /\ crashes \in 0..MaxCrashes
  /\ debris \subseteq Blobs /\ orphans \subseteq Blobs /\ kept \subseteq Blobs
  /\ cut \subseteq Sessions

(* A part that a handler has open is there, or was removed under it.       *)
OpenPartsAreThere ==
  \A w \in Workers : pc[w] \in {"opened", "half"} /\ req[w].live =>
    parts[req[w].session][req[w].index] # Absent

TInv == HandlersOK /\ DiskOK /\ HistoryOK /\ OpenPartsAreThere

(***************************************************************************)
(* Files: a file that is being merged is one handler's own and has no row. *)
(***************************************************************************)

(* The handler's part in it.                                               *)
FileOfHandler(w) ==
  /\ Merging(w) => req[w].blob \in stored /\ rows[req[w].blob] = NoRow
  /\ pc[w] = "merged" => SizeIs(pieces[req[w].blob], req[w].size)
  /\ pc[w] = "recorded" =>
       /\ req[w].blob \in Blobs /\ rows[req[w].blob] # NoRow
       /\ rows[req[w].blob].session = req[w].session

OneHandlerPerFile ==
  \A v, w \in Workers : Merging(v) /\ Merging(w) /\ req[v].blob = req[w].blob => v = w

FInv ==
  /\ TInv
  /\ \A w \in Workers : FileOfHandler(w)
  /\ OneHandlerPerFile
  /\ \A b \in Blobs \ stored : pieces[b] = Nothing
  /\ SharedHasItsSize
  /\ FilesAccountedFor

(***************************************************************************)
(* Sessions: what is on disk was sent, and completion is asked for only    *)
(* once something is there.                                                *)
(***************************************************************************)
CInv ==
  /\ \A w \in Workers :
       /\ pc[w] \in Chunking => req[w].index \in sent[req[w].session]
       /\ pc[w] \in Completing => req[w].session \in asked
  /\ \A u \in Sessions :
       /\ \A i \in Index : parts[u][i] # Absent => i \in sent[u]
       /\ u \in asked => sent[u] # {}
       /\ meta[u] # 0 => sent[u] \subseteq 0..(meta[u] - 1)

(***************************************************************************)
(* Requests sent once: one handler writes a part, one completes a session, *)
(* and neither outlives it.                                                *)
(***************************************************************************)
Written == {Absent, {}, {1}, Whole}   \* a part written in order

(* A handler of a chunk is alone with its part.                            *)
ChunkOnce(w) ==
  LET r == req[w] IN
  pc[w] \in Chunking =>
    /\ r.live
    /\ meta[r.session] # 0
    /\ pc[w] = "admitted" => parts[r.session][r.index] = Absent
    /\ pc[w] = "opened" => parts[r.session][r.index] = {}
    /\ pc[w] = "half" => parts[r.session][r.index] = {1}

(* Parts without meta.json are being removed, or were left by a removal.   *)
BeingRemoved(u) == \E w \in Workers : pc[w] = "recorded" /\ req[w].session = u

PartsOnce(u) ==
  /\ \A i \in Index : parts[u][i] \in Written
  /\ meta[u] = 0 => parts[u] = Nothing \/ u \in cut \/ BeingRemoved(u)

(* What was merged is still there, and a whole part stays whole.           *)
MergeOnce(w) ==
  LET r == req[w] IN
  pc[w] \in {"merging", "merged"} =>
    \A i \in Index :
      /\ pieces[r.blob][i] \in Written
      /\ pieces[r.blob][i] # Absent => i \in sent[r.session]
      /\ pieces[r.blob][i] = Whole => parts[r.session][i] = Whole

AllWhole(file, size) == file = [i \in Index |-> IF i < size THEN Whole ELSE Absent]

CompleteOnce(w) ==
  LET r == req[w] IN
  pc[w] \in {"listed", "sniffed", "merging", "merged"} =>
    /\ meta[r.session] = r.size
    /\ pc[w] = "merged" => AllWhole(pieces[r.blob], r.size)
    /\ r.session \notin early =>
         IF pc[w] = "listed" THEN parts[r.session][0] # Absent => 0 \in r.todo
         ELSE 1 \in parts[r.session][0] => r.sniffed

AlonePerPart ==
  \A v, w \in Workers :
    pc[v] \in Chunking /\ pc[w] \in Chunking /\ v # w =>
      req[v].session # req[w].session \/ req[v].index # req[w].index

AlonePerSession ==
  \A v, w \in Workers :
    pc[v] \in Completing /\ pc[w] \in Completing /\ v # w =>
      req[v].session # req[w].session

(* Every chunk was sent and answered: what still comes was sent again.     *)
AllArrived(u) ==
  /\ \A w \in Workers : pc[w] \in Chunking => req[w].session # u
  /\ sent[u] # {}
  /\ meta[u] # 0 => sent[u] = 0..(meta[u] - 1)

SharedFrom(u) == \E b \in Blobs : rows[b] # NoRow /\ rows[b].session = u

(* So it is when a client waited, and when the file was shared.            *)
Settled(u) == u \in asked \ early \/ SharedFrom(u) => AllArrived(u)

SharedOnce(b) ==
  rows[b] # NoRow =>
    /\ AllWhole(pieces[b], rows[b].size)
    /\ rows[b].session \notin early => rows[b].sniffed

OInv ==
  /\ \A w \in Workers : ChunkOnce(w) /\ MergeOnce(w) /\ CompleteOnce(w)
  /\ AlonePerPart /\ AlonePerSession
  /\ \A u \in Sessions : PartsOnce(u) /\ Settled(u)
  /\ \A b \in Blobs : SharedOnce(b)

Once == resends = 0 => OInv

-----------------------------------------------------------------------------
(* The handlers: what a step does to its own handler and to the others     *)

Step(w, label, r) ==
  /\ pc' = [pc EXCEPT ![w] = label]
  /\ req' = [req EXCEPT ![w] = r]

Fits(label, r) ==
  \/ label = "idle" /\ r = Idle
  \/ label \in Chunking /\ r \in ChunkRequest
  \/ /\ label \in Completing /\ r \in CompleteRequest
     /\ label \notin {"listed", "sniffed"} => r.blob \in Blobs

LEMMA StepEffect ==
  ASSUME HandlersOK, NEW w \in Workers, NEW label, NEW r, Step(w, label, r)
  PROVE  /\ pc'[w] = label /\ req'[w] = r
         /\ \A v \in Workers : v # w => pc'[v] = pc[v] /\ req'[v] = req[v]
         /\ Fits(label, r) => HandlersOK'
<1>1. /\ pc'[w] = label /\ req'[w] = r
      /\ \A v \in Workers : v # w => pc'[v] = pc[v] /\ req'[v] = req[v]
  BY DEF Step, HandlersOK
<1>2. ASSUME Fits(label, r) PROVE HandlersOK'
  <2>1. label \in {"idle"} \cup Chunking \cup Completing
    BY <1>2 DEF Fits
  <2>2. r \in {Idle} \cup ChunkRequest \cup CompleteRequest
    BY <1>2 DEF Fits
  <2>3. pc' \in [Workers -> {"idle"} \cup Chunking \cup Completing]
    BY <2>1 DEF Step, HandlersOK
  <2>4. req' \in [Workers -> {Idle} \cup ChunkRequest \cup CompleteRequest]
    BY <2>2 DEF Step, HandlersOK
  <2>5. ASSUME NEW v \in Workers
        PROVE  \/ pc'[v] = "idle" /\ req'[v] = Idle
               \/ pc'[v] \in Chunking /\ req'[v] \in ChunkRequest
               \/ /\ pc'[v] \in Completing /\ req'[v] \in CompleteRequest
                  /\ pc'[v] \notin {"listed", "sniffed"} => req'[v].blob \in Blobs
    BY <1>1, <1>2 DEF Fits, HandlersOK
  <2> QED
    BY <2>3, <2>4, <2>5 DEF HandlersOK
<1> QED
  BY <1>1, <1>2

LEMMA RequestIs ==
  ASSUME HandlersOK, NEW w \in Workers
  PROVE  /\ pc[w] \in Chunking => req[w] \in ChunkRequest /\ pc[w] \notin Completing /\ pc[w] # "idle"
         /\ pc[w] \in Completing => req[w] \in CompleteRequest /\ pc[w] \notin Chunking /\ pc[w] # "idle"
         /\ pc[w] \in {"merging", "merged", "recorded"} => req[w].blob \in Blobs
         /\ pc[w] \in {"idle"} \cup Chunking \cup Completing
BY DEF HandlersOK, Chunking, Completing

LEMMA ZeroIsIndex == 0 \in Index /\ \A s \in Sizes : s \in Nat /\ s # 0 /\ s > 0 /\ 0..(s - 1) \subseteq Index
<1>1. PICK s \in Sizes : TRUE
  BY SizesAssumption
<1>2. \A t \in Sizes : t \in Nat /\ t # 0 /\ t > 0 /\ 0 \in 0..(t - 1)
  BY SizesAssumption
<1>3. \A t \in Sizes : 0..(t - 1) \subseteq Index
  BY DEF Index
<1> QED
  BY <1>1, <1>2, <1>3

LEMMA IndexType == Index \subseteq Nat
<1>1. ASSUME NEW i \in Index PROVE i \in Nat
  <2>1. PICK s \in Sizes : i \in 0..(s - 1)
    BY DEF Index
  <2> QED
    BY <2>1, SizesAssumption
<1> QED
  BY <1>1

LEMMA NewChunk ==
  ASSUME NEW u \in Sessions, NEW i \in Index
  PROVE  LET r == [session |-> u, index |-> i, live |-> TRUE]
         IN  /\ r \in ChunkRequest
             /\ r.session = u /\ r.index = i /\ r.live
BY DEF ChunkRequest

LEMMA NewComplete ==
  ASSUME NEW u \in Sessions, NEW todo \in SUBSET Index, NEW size \in Sizes
  PROVE  LET r == [session |-> u, todo |-> todo, size |-> size, sniffed |-> FALSE, blob |-> NoBlob]
         IN  /\ r \in CompleteRequest
             /\ r.session = u /\ r.todo = todo /\ r.size = size
BY DEF CompleteRequest

LEMMA WithSniffed ==
  ASSUME NEW r \in CompleteRequest, NEW x \in BOOLEAN
  PROVE  LET q == [r EXCEPT !.sniffed = x]
         IN  /\ q \in CompleteRequest
             /\ q.session = r.session /\ q.todo = r.todo /\ q.size = r.size /\ q.blob = r.blob
             /\ q.sniffed = x
BY DEF CompleteRequest

LEMMA WithBlob ==
  ASSUME NEW r \in CompleteRequest, NEW b \in Blobs
  PROVE  LET q == [r EXCEPT !.blob = b]
         IN  /\ q \in CompleteRequest
             /\ q.session = r.session /\ q.todo = r.todo /\ q.size = r.size /\ q.blob = b
             /\ q.sniffed = r.sniffed
BY DEF CompleteRequest

LEMMA WithTodo ==
  ASSUME NEW r \in CompleteRequest, NEW todo \in SUBSET Index
  PROVE  LET q == [r EXCEPT !.todo = todo]
         IN  /\ q \in CompleteRequest
             /\ q.session = r.session /\ q.todo = todo /\ q.size = r.size /\ q.blob = r.blob
             /\ q.sniffed = r.sniffed
BY DEF CompleteRequest

(* The first of the parts to merge is one of them.                         *)
LEMMA MinIsLeast ==
  ASSUME NEW S, S \subseteq Nat, S # {}
  PROVE  Min(S) \in S /\ \A n \in S : Min(S) <= n
<1>1. IsWellFoundedOn(OpToRel(<, Nat), Nat)
  BY NatLessThanWellFounded
<1>2. PICK m \in S : \A n \in S : <<n, m>> \notin OpToRel(<, Nat)
  BY <1>1, WFMin
<1>3. \A n \in S : ~(n < m)
  BY <1>2 DEF OpToRel
<1>4. \A n \in S : m <= n
  BY <1>3
<1> QED
  BY <1>4 DEF Min

-----------------------------------------------------------------------------
(* Types                                                                   *)

LEMMA TypeParts == TInv => TypeOK
  BY DEF TInv, TypeOK, HandlersOK, DiskOK, HistoryOK

LEMMA ContentType ==
  /\ Absent \in Content /\ {} \in Content /\ Nothing \in [Index -> Content]
  /\ \A c \in Content, half \in Halves : c # Absent => c \cup {half} \in Content
  BY DEF Absent, Content, Halves, Nothing

(* What a step of a chunk's handler does.                                  *)
LEMMA ChunkArrivesEffect ==
  ASSUME TInv, NEW w \in Workers, NEW u \in Sessions, NEW i \in Index, ChunkArrives(w, u, i)
  PROVE  /\ Step(w, "admitted", [session |-> u, index |-> i, live |-> TRUE])
         /\ HandlersOK' /\ HistoryOK' /\ UNCHANGED disk
<1>1. Step(w, "admitted", [session |-> u, index |-> i, live |-> TRUE])
  BY DEF ChunkArrives, Goto, Step
<1>2. Fits("admitted", [session |-> u, index |-> i, live |-> TRUE])
  BY NewChunk DEF Fits, Chunking
<1>3. HandlersOK'
  BY <1>1, <1>2, StepEffect, TypeParts DEF TInv
<1>4. sent' \in [Sessions -> SUBSET Index]
  BY TypeParts DEF TInv, ChunkArrives, HistoryOK
<1>5. resends' \in 0..MaxResends
  BY BoundsAssumption DEF ChunkArrives, Send, TInv, HistoryOK
<1> QED
  BY <1>1, <1>3, <1>4, <1>5 DEF ChunkArrives, TInv, HistoryOK

(* What the first step of a completion does.                               *)
LEMMA CompleteArrivesEffect ==
  ASSUME TInv, NEW w \in Workers, NEW u \in Sessions, CompleteArrives(w, u)
  PROVE  LET present == {i \in Index : parts[u][i] # Absent}
         IN  /\ meta[u] \in Sizes /\ present # {}
             /\ Step(w, "listed", [session |-> u, todo |-> present, size |-> meta[u],
                                   sniffed |-> FALSE, blob |-> NoBlob])
             /\ HandlersOK' /\ HistoryOK' /\ UNCHANGED disk
<1> DEFINE present == {i \in Index : parts[u][i] # Absent}
           r == [session |-> u, todo |-> present, size |-> meta[u],
                 sniffed |-> FALSE, blob |-> NoBlob]
<1>1. meta[u] \in Sizes /\ present # {}
  BY DEF CompleteArrives, TInv, DiskOK
<1>2. Step(w, "listed", r)
  BY DEF CompleteArrives, Goto, Step
<1>3. Fits("listed", r)
  BY <1>1, NewComplete DEF Fits, Completing
<1>4. HandlersOK'
  BY <1>2, <1>3, StepEffect, TypeParts DEF TInv
<1>5. resends' \in 0..MaxResends
  BY BoundsAssumption DEF CompleteArrives, Send, TInv, HistoryOK
<1>6. HistoryOK'
  BY <1>5 DEF CompleteArrives, TInv, HistoryOK
<1> QED
  BY <1>1, <1>2, <1>4, <1>6 DEF CompleteArrives

(* The steps that end a request without touching files or sessions.        *)
Gives(w) ==
  ChunkFails(w) \/ RefuseComplete(w) \/ AppendFails(w) \/ RemoveEnds(w) \/ RemoveFails(w)

LEMMA GivesEffect ==
  ASSUME TInv, NEW w \in Workers, Gives(w)
  PROVE  /\ Step(w, "idle", Idle) /\ HandlersOK'
         /\ UNCHANGED <<disk, client, crashes, debris, kept>>
         /\ HistoryOK'
<1>1. Step(w, "idle", Idle) /\ UNCHANGED <<disk, client, crashes, debris, kept>>
  BY DEF Gives, ChunkFails, RefuseComplete, AppendFails, RemoveEnds, RemoveFails, Finish, Step
<1>2. HandlersOK'
  BY <1>1, StepEffect, TypeParts DEF TInv, Fits
<1>3. orphans' \subseteq Blobs
  <2>1. CASE AppendFails(w)
    <3>1. pc[w] = "merging" /\ req[w].blob \in Blobs
      BY <2>1, RequestIs, TypeParts DEF TInv, AppendFails, Completing
    <3>2. orphans' = orphans \cup {req[w].blob}
      BY <2>1 DEF AppendFails
    <3> QED
      BY <3>1, <3>2 DEF TInv, HistoryOK
  <2>2. CASE ~AppendFails(w)
    BY <2>2 DEF Gives, ChunkFails, RefuseComplete, RemoveEnds, RemoveFails, TInv, HistoryOK
  <2> QED
    BY <2>1, <2>2
<1>4. cut' \subseteq Sessions
  <2>1. CASE RemoveFails(w)
    <3>1. req[w].session \in Sessions
      BY <2>1, RequestIs DEF TInv, RemoveFails, Completing, CompleteRequest
    <3>2. cut' = cut \cup {req[w].session}
      BY <2>1 DEF RemoveFails
    <3> QED
      BY <3>1, <3>2 DEF TInv, HistoryOK
  <2>2. CASE ~RemoveFails(w)
    BY <2>2 DEF Gives, ChunkFails, RefuseComplete, AppendFails, RemoveEnds, TInv, HistoryOK
  <2> QED
    BY <2>1, <2>2
<1> QED
  BY <1>1, <1>2, <1>3, <1>4 DEF client, TInv, HistoryOK

(* The steps that write a part.                                            *)
Writes(w) == CreatePart(w) \/ CopyFirstHalf(w) \/ CopySecondHalf(w)

LEMMA WritesEffect ==
  ASSUME TInv, NEW w \in Workers, Writes(w)
  PROVE  /\ pc[w] \in Chunking /\ req[w] \in ChunkRequest
         /\ \/ pc[w] = "admitted" /\ Step(w, "opened", req[w])
               /\ parts' = [parts EXCEPT ![req[w].session][req[w].index] = {}]
            \/ pc[w] = "opened" /\ Step(w, "half", req[w]) /\ WriteHalf(w, 1)
            \/ pc[w] = "half" /\ Step(w, "idle", Idle) /\ WriteHalf(w, 2)
         /\ HandlersOK'
         /\ UNCHANGED <<meta, stored, pieces, rows, client, crashes, history>>
<1>1. pc[w] \in Chunking
  BY DEF Writes, CreatePart, CopyFirstHalf, CopySecondHalf, Chunking
<1>2. req[w] \in ChunkRequest
  BY <1>1, RequestIs DEF TInv
<1>3. req' = [req EXCEPT ![w] = req[w]] \/ Step(w, "idle", Idle)
  BY DEF Writes, CreatePart, CopyFirstHalf, CopySecondHalf, Finish, Step, TInv, HandlersOK
<1>4. \/ pc[w] = "admitted" /\ Step(w, "opened", req[w])
         /\ parts' = [parts EXCEPT ![req[w].session][req[w].index] = {}]
      \/ pc[w] = "opened" /\ Step(w, "half", req[w]) /\ WriteHalf(w, 1)
      \/ pc[w] = "half" /\ Step(w, "idle", Idle) /\ WriteHalf(w, 2)
  <2>1. req = [req EXCEPT ![w] = req[w]]
    BY DEF TInv, HandlersOK
  <2> QED
    BY <2>1 DEF Writes, CreatePart, CopyFirstHalf, CopySecondHalf, Finish, Goto, Step
<1>5. HandlersOK'
  <2>1. Fits("opened", req[w]) /\ Fits("half", req[w]) /\ Fits("idle", Idle)
    BY <1>2 DEF Fits, Chunking
  <2> QED
    BY <1>4, <2>1, StepEffect DEF TInv
<1>6. UNCHANGED <<meta, stored, pieces, rows, client, crashes, history>>
  BY DEF Writes, CreatePart, CopyFirstHalf, CopySecondHalf
<1> QED
  BY <1>1, <1>2, <1>4, <1>5, <1>6

(* What a write leaves in the part and in the others.                      *)
LEMMA WritesPart ==
  ASSUME TInv, NEW w \in Workers, Writes(w)
  PROVE  LET u == req[w].session
             i == req[w].index
         IN  /\ u \in Sessions /\ i \in Index
             /\ parts' \in [Sessions -> [Index -> Content]]
             /\ \A v \in Sessions, j \in Index : v # u \/ j # i => parts'[v][j] = parts[v][j]
             /\ parts[u][i] # Absent => parts'[u][i] # Absent
             /\ pc[w] = "admitted" => parts'[u][i] = {}
             /\ pc[w] = "opened" /\ req[w].live => parts'[u][i] = parts[u][i] \cup {1}
             /\ pc[w] = "half" /\ req[w].live => parts'[u][i] = parts[u][i] \cup {2}
             /\ pc[w] # "admitted" /\ ~req[w].live => parts' = parts
<1> DEFINE u == req[w].session
           i == req[w].index
<1>1. req[w] \in ChunkRequest /\ u \in Sessions /\ i \in Index /\ req[w].live \in BOOLEAN
  BY WritesEffect DEF ChunkRequest
<1>2. parts \in [Sessions -> [Index -> Content]] /\ parts[u][i] \in Content
  BY <1>1 DEF TInv, DiskOK
<1> HIDE DEF u, i
<1>3. ASSUME NEW c \in Content, parts' = [parts EXCEPT ![u][i] = c]
      PROVE  /\ parts' \in [Sessions -> [Index -> Content]]
             /\ \A v \in Sessions, j \in Index : v # u \/ j # i => parts'[v][j] = parts[v][j]
             /\ parts'[u][i] = c
  BY <1>1, <1>2, <1>3
<1>4. ASSUME NEW half \in Halves, pc[w] \in {"opened", "half"}, WriteHalf(w, half)
      PROVE  IF req[w].live
             THEN /\ parts[u][i] \cup {half} \in Content
                  /\ parts' = [parts EXCEPT ![u][i] = parts[u][i] \cup {half}]
             ELSE parts' = parts
  <2>1. CASE req[w].live
    <3>1. parts[u][i] # Absent
      BY <1>4, <2>1 DEF TInv, OpenPartsAreThere, u, i
    <3>2. parts[u][i] \cup {half} \in Content
      BY <1>2, <3>1, ContentType
    <3>3. parts' = [parts EXCEPT ![u][i] = parts[u][i] \cup {half}]
      BY <1>4, <2>1 DEF WriteHalf, u, i
    <3> QED
      BY <2>1, <3>2, <3>3
  <2>2. CASE ~req[w].live
    BY <1>4, <2>2 DEF WriteHalf
  <2> QED
    BY <2>1, <2>2
<1>5. \A c \in Content, half \in Halves : c \cup {half} # Absent
  BY DEF Absent, Content, Halves
<1>6. {} # Absent /\ {} \in Content /\ 1 \in Halves /\ 2 \in Halves
  BY ContentType DEF Absent, Halves
<1>7. CASE pc[w] = "admitted"
  <2>1. parts' = [parts EXCEPT ![u][i] = {}]
    BY <1>7, WritesEffect DEF u, i
  <2> QED
    BY <1>1, <1>3, <1>6, <1>7, <2>1 DEF u, i
<1>8. CASE pc[w] = "opened"
  <2>1. WriteHalf(w, 1)
    BY <1>8, WritesEffect
  <2>2. CASE req[w].live
    <3>1. /\ parts[u][i] \cup {1} \in Content
          /\ parts' = [parts EXCEPT ![u][i] = parts[u][i] \cup {1}]
      BY <1>4, <1>6, <1>8, <2>1, <2>2
    <3> QED
      BY <1>1, <1>2, <1>3, <1>5, <1>6, <1>8, <2>2, <3>1 DEF u, i
  <2>3. CASE ~req[w].live
    <3>1. parts' = parts
      BY <1>4, <1>6, <1>8, <2>1, <2>3
    <3> QED
      BY <1>1, <1>2, <1>8, <2>3, <3>1 DEF u, i
  <2> QED
    BY <2>2, <2>3
<1>9. CASE pc[w] = "half"
  <2>1. WriteHalf(w, 2)
    BY <1>9, WritesEffect
  <2>2. CASE req[w].live
    <3>1. /\ parts[u][i] \cup {2} \in Content
          /\ parts' = [parts EXCEPT ![u][i] = parts[u][i] \cup {2}]
      BY <1>4, <1>6, <1>9, <2>1, <2>2
    <3> QED
      BY <1>1, <1>2, <1>3, <1>5, <1>6, <1>9, <2>2, <3>1 DEF u, i
  <2>3. CASE ~req[w].live
    <3>1. parts' = parts
      BY <1>4, <1>6, <1>9, <2>1, <2>3
    <3> QED
      BY <1>1, <1>2, <1>9, <2>3, <3>1 DEF u, i
  <2> QED
    BY <2>2, <2>3
<1> QED
  BY <1>7, <1>8, <1>9, WritesEffect

(* The steps of a completion, by what they touch.                          *)
LEMMA SniffEffect ==
  ASSUME TInv, NEW w \in Workers, Sniff(w)
  PROVE  LET i == FirstPart(req[w].todo)
             q == [req[w] EXCEPT !.sniffed = (i = 0 /\ 1 \in parts[req[w].session][i])]
         IN  /\ pc[w] = "listed" /\ req[w] \in CompleteRequest
             /\ Step(w, "sniffed", q) /\ HandlersOK'
             /\ UNCHANGED <<disk, client, crashes, history>>
<1> DEFINE i == FirstPart(req[w].todo)
           x == (i = 0 /\ 1 \in parts[req[w].session][i])
           q == [req[w] EXCEPT !.sniffed = x]
<1>1. pc[w] = "listed" /\ req[w] \in CompleteRequest
  BY RequestIs DEF Sniff, Completing, TInv
<1>2. Step(w, "sniffed", q)
  BY DEF Sniff, Goto, Step
<1>3. Fits("sniffed", q)
  <2>1. x \in BOOLEAN
    OBVIOUS
  <2> HIDE DEF x
  <2>2. q \in CompleteRequest
    BY <1>1, <2>1, WithSniffed
  <2> HIDE DEF q
  <2> QED
    BY <2>2 DEF Fits, Completing
<1>4. HandlersOK'
  <2> HIDE DEF q
  <2> QED
    BY <1>2, <1>3, StepEffect DEF TInv
<1> QED
  BY <1>1, <1>2, <1>4 DEF Sniff

LEMMA CreateFinalEffect ==
  ASSUME TInv, NEW w \in Workers, CreateFinal(w)
  PROVE  \E b \in Blobs \ stored :
           LET q == [req[w] EXCEPT !.blob = b]
           IN  /\ pc[w] = "sniffed" /\ req[w] \in CompleteRequest /\ rows[b] = NoRow
               /\ stored' = stored \cup {b}
               /\ Step(w, "merging", q) /\ HandlersOK'
               /\ UNCHANGED <<meta, parts, pieces, rows, client, crashes, history>>
<1>1. pc[w] = "sniffed" /\ req[w] \in CompleteRequest
  BY RequestIs DEF CreateFinal, Completing, TInv
<1>2. PICK b \in Blobs \ stored :
        /\ rows[b] = NoRow
        /\ stored' = stored \cup {b}
        /\ req' = [req EXCEPT ![w].blob = b]
  BY DEF CreateFinal
<1> DEFINE q == [req[w] EXCEPT !.blob = b]
<1>3. Step(w, "merging", q)
  BY <1>2 DEF CreateFinal, Goto, Step
<1>4. q \in CompleteRequest /\ q.blob = b
  BY <1>1, WithBlob
<1> HIDE DEF q
<1>5. Fits("merging", q)
  BY <1>4 DEF Fits, Completing
<1>6. HandlersOK'
  BY <1>3, <1>5, StepEffect DEF TInv
<1> QED
  BY <1>1, <1>2, <1>3, <1>6 DEF CreateFinal, q

LEMMA AppendPartEffect ==
  ASSUME TInv, NEW w \in Workers, AppendPart(w)
  PROVE  \E i \in Index :
           LET r == req[w]
               q == [r EXCEPT !.todo = r.todo \ {i}]
           IN  /\ pc[w] = "merging" /\ r \in CompleteRequest /\ r.blob \in Blobs
               /\ i \in r.todo /\ parts[r.session][i] # Absent
               /\ pieces' = [pieces EXCEPT ![r.blob][i] = parts[r.session][i]]
               /\ Step(w, "merging", q) /\ HandlersOK'
               /\ UNCHANGED <<meta, parts, stored, rows, client, crashes, history>>
<1> DEFINE r == req[w]
           i == Min(r.todo)
           q == [r EXCEPT !.todo = r.todo \ {i}]
<1>1. pc[w] = "merging" /\ r \in CompleteRequest /\ r.blob \in Blobs
  BY RequestIs DEF AppendPart, Completing, TInv
<1>2. r.todo \in SUBSET Index /\ r.todo # {}
  BY <1>1 DEF AppendPart, CompleteRequest
<1>3. i \in r.todo
  BY <1>2, IndexType, MinIsLeast
<1>4. /\ parts[r.session][i] # Absent
      /\ pieces' = [pieces EXCEPT ![r.blob][i] = parts[r.session][i]]
      /\ req' = [req EXCEPT ![w].todo = @ \ {i}]
      /\ UNCHANGED <<meta, parts, stored, rows, pc, client, crashes, history>>
  BY DEF AppendPart
<1>5. pc' = [pc EXCEPT ![w] = "merging"]
  BY <1>1, <1>4 DEF TInv, HandlersOK
<1> HIDE DEF i
<1>6. Step(w, "merging", q)
  BY <1>4, <1>5 DEF Step
<1>7. q \in CompleteRequest /\ q.blob = r.blob
  BY <1>1, <1>2, WithTodo
<1> HIDE DEF q
<1>8. Fits("merging", q)
  BY <1>1, <1>7 DEF Fits, Completing
<1>9. HandlersOK'
  BY <1>6, <1>8, StepEffect DEF TInv
<1> QED
  BY <1>1, <1>2, <1>3, <1>4, <1>6, <1>9 DEF q

LEMMA SizeOKEffect ==
  ASSUME TInv, NEW w \in Workers, SizeOK(w)
  PROVE  /\ pc[w] = "merging" /\ req[w] \in CompleteRequest /\ req[w].blob \in Blobs
         /\ SizeIs(pieces[req[w].blob], req[w].size)
         /\ Step(w, "merged", req[w]) /\ HandlersOK'
         /\ UNCHANGED <<disk, client, crashes, history>>
<1>1. pc[w] = "merging" /\ req[w] \in CompleteRequest /\ req[w].blob \in Blobs
  BY RequestIs DEF SizeOK, Completing, TInv
<1>2. Step(w, "merged", req[w])
  BY DEF SizeOK, Goto, Step, TInv, HandlersOK
<1>3. HandlersOK'
  <2>1. Fits("merged", req[w])
    BY <1>1 DEF Fits, Completing
  <2> QED
    BY <1>2, <2>1, StepEffect DEF TInv
<1> QED
  BY <1>1, <1>2, <1>3 DEF SizeOK, SizeMatches

LEMMA InsertRowEffect ==
  ASSUME TInv, NEW w \in Workers, InsertRow(w)
  PROVE  LET row == [session |-> req[w].session, size |-> req[w].size, sniffed |-> req[w].sniffed]
         IN  /\ pc[w] = "merged" /\ req[w] \in CompleteRequest /\ req[w].blob \in Blobs
             /\ row \in Row /\ row # NoRow
             /\ rows' = [rows EXCEPT ![req[w].blob] = row]
             /\ Step(w, "recorded", req[w]) /\ HandlersOK'
             /\ UNCHANGED <<meta, parts, stored, pieces, client, crashes, history>>
<1>1. pc[w] = "merged" /\ req[w] \in CompleteRequest /\ req[w].blob \in Blobs
  BY RequestIs DEF InsertRow, Completing, TInv
<1>2. Step(w, "recorded", req[w])
  BY DEF InsertRow, Goto, Step, TInv, HandlersOK
<1>3. HandlersOK'
  <2>1. Fits("recorded", req[w])
    BY <1>1 DEF Fits, Completing
  <2> QED
    BY <1>2, <2>1, StepEffect DEF TInv
<1>4. [session |-> req[w].session, size |-> req[w].size, sniffed |-> req[w].sniffed] \in Row
  BY <1>1 DEF CompleteRequest, Row
<1>5. NoRow \notin Row
  BY SentinelAssumption DEF Row
<1> QED
  BY <1>1, <1>2, <1>3, <1>4, <1>5 DEF InsertRow

(* The two steps that remove the file being merged, or fail to.            *)
Drops(w) == SizeMismatch(w) \/ InsertFails(w)

LEMMA DropsEffect ==
  ASSUME TInv, NEW w \in Workers, Drops(w)
  PROVE  /\ Merging(w) /\ req[w] \in CompleteRequest /\ req[w].blob \in Blobs
         /\ \/ /\ stored' = stored \ {req[w].blob}
               /\ pieces' = [pieces EXCEPT ![req[w].blob] = Nothing]
               /\ kept' = kept
            \/ kept' = kept \cup {req[w].blob} /\ UNCHANGED <<stored, pieces>>
         /\ Step(w, "idle", Idle) /\ HandlersOK'
         /\ UNCHANGED <<meta, parts, rows, client, crashes, debris, orphans, cut>>
<1>1. Merging(w)
  BY DEF Drops, SizeMismatch, InsertFails, Merging
<1>2. req[w] \in CompleteRequest /\ req[w].blob \in Blobs
  BY <1>1, RequestIs DEF Merging, Completing, TInv
<1>3. Step(w, "idle", Idle)
  BY DEF Drops, SizeMismatch, InsertFails, Finish, Step
<1>4. HandlersOK'
  BY <1>3, StepEffect DEF Fits, TInv
<1> QED
  BY <1>1, <1>2, <1>3, <1>4 DEF Drops, SizeMismatch, InsertFails, Discard

LEMMA RemoveMetaEffect ==
  ASSUME TInv, NEW w \in Workers, RemoveMeta(w)
  PROVE  LET u == req[w].session
         IN  /\ pc[w] = "recorded" /\ u \in Sessions /\ meta[u] # 0
             /\ meta' = [meta EXCEPT ![u] = 0]
             /\ UNCHANGED <<parts, stored, pieces, rows, pc, req, client, crashes, history>>
BY RequestIs DEF RemoveMeta, Completing, CompleteRequest, TInv

LEMMA RemovePartEffect ==
  ASSUME TInv, NEW w \in Workers, NEW i \in Index, RemovePart(w, i)
  PROVE  LET u == req[w].session
             HasOpen(v) == /\ pc[v] \in {"opened", "half"}
                           /\ req[v].session = u /\ req[v].index = i
         IN  /\ pc[w] = "recorded" /\ u \in Sessions
             /\ parts' = [parts EXCEPT ![u][i] = Absent]
             /\ \A v \in Workers :
                  /\ ~HasOpen(v) => req'[v] = req[v]
                  /\ HasOpen(v) => /\ req'[v] \in ChunkRequest /\ req'[v].live = FALSE
                                   /\ req'[v].session = u /\ req'[v].index = i
             /\ HandlersOK'
             /\ UNCHANGED <<meta, stored, pieces, rows, pc, client, crashes, history>>
<1> DEFINE u == req[w].session
           HasOpen(v) == /\ pc[v] \in {"opened", "half"}
                         /\ req[v].session = u /\ req[v].index = i
<1>1. pc[w] = "recorded" /\ u \in Sessions
  BY RequestIs DEF RemovePart, Completing, CompleteRequest, TInv
<1>2. /\ parts' = [parts EXCEPT ![u][i] = Absent]
      /\ req' = [v \in Workers |-> IF HasOpen(v) THEN [req[v] EXCEPT !.live = FALSE]
                                   ELSE req[v]]
      /\ UNCHANGED <<meta, stored, pieces, rows, pc, client, crashes, history>>
  BY DEF RemovePart
<1>3. ASSUME NEW v \in Workers, HasOpen(v)
      PROVE  /\ req'[v] \in ChunkRequest /\ req'[v].live = FALSE
             /\ req'[v].session = u /\ req'[v].index = i
  <2>1. req[v] \in ChunkRequest
    BY <1>3, RequestIs DEF Chunking, TInv
  <2>2. req'[v] = [req[v] EXCEPT !.live = FALSE]
    BY <1>2, <1>3
  <2> QED
    BY <1>3, <2>1, <2>2 DEF ChunkRequest
<1>4. \A v \in Workers : ~HasOpen(v) => req'[v] = req[v]
  BY <1>2
<1>5. DOMAIN req' = Workers
  BY <1>2
<1> HIDE DEF u
<1>6. HandlersOK'
  <2>1. ASSUME NEW v \in Workers
        PROVE  Fits(pc'[v], req'[v])
    <3>1. Fits(pc[v], req[v]) /\ pc'[v] = pc[v]
      BY <1>2 DEF Fits, TInv, HandlersOK
    <3>2. CASE HasOpen(v)
      BY <1>3, <3>1, <3>2 DEF Fits, Chunking
    <3>3. CASE ~HasOpen(v)
      BY <1>4, <3>1, <3>3
    <3> QED
      BY <3>2, <3>3
  <2>2. \A v \in Workers : req'[v] \in {Idle} \cup ChunkRequest \cup CompleteRequest
    BY <2>1 DEF Fits
  <2>3. req' \in [Workers -> {Idle} \cup ChunkRequest \cup CompleteRequest]
    <3>1. req' = [v \in Workers |-> req'[v]]
      BY <1>2
    <3> QED
      BY <2>2, <3>1
  <2> QED
    BY <1>2, <2>1, <2>3 DEF Fits, TInv, HandlersOK
<1> QED
  BY <1>1, <1>2, <1>3, <1>4, <1>6 DEF u

LEMMA CrashEffect ==
  ASSUME TInv, Crash
  PROVE  /\ \A w \in Workers : pc'[w] = "idle" /\ req'[w] = Idle
         /\ debris' = debris \cup {req[w].blob : w \in {v \in Workers : Merging(v)}}
         /\ crashes' \in 0..MaxCrashes
         /\ cut' = cut \cup {req[w].session : w \in {v \in Workers : pc[v] = "recorded"}}
         /\ HandlersOK' /\ HistoryOK'
         /\ UNCHANGED <<disk, client, orphans, kept>>
<1>1. /\ pc' = [w \in Workers |-> "idle"] /\ req' = [w \in Workers |-> Idle]
      /\ debris' = debris \cup {req[w].blob : w \in {v \in Workers : Merging(v)}}
      /\ cut' = cut \cup {req[w].session : w \in {v \in Workers : pc[v] = "recorded"}}
      /\ crashes < MaxCrashes /\ crashes' = crashes + 1
      /\ UNCHANGED <<disk, client, orphans, kept>>
  BY DEF Crash
<1>2. crashes' \in 0..MaxCrashes
  BY <1>1, BoundsAssumption DEF TInv, HistoryOK
<1>3. debris' \subseteq Blobs
  <2>1. \A w \in Workers : Merging(w) => req[w].blob \in Blobs
    BY RequestIs DEF TInv, Merging
  <2> QED
    BY <1>1, <2>1 DEF TInv, HistoryOK
<1>4. cut' \subseteq Sessions
  <2>1. \A w \in Workers : pc[w] = "recorded" => req[w].session \in Sessions
    BY RequestIs DEF TInv, Completing, CompleteRequest
  <2> QED
    BY <1>1, <2>1 DEF TInv, HistoryOK
<1> QED
  BY <1>1, <1>2, <1>3, <1>4 DEF HandlersOK, HistoryOK, TInv, client

LEMMA TypeInitially == Init => TInv
<1> SUFFICES ASSUME Init PROVE TInv
  OBVIOUS
<1>1. HandlersOK
  BY DEF Init, HandlersOK
<1>2. DiskOK
  BY ContentType DEF Init, DiskOK
<1>3. HistoryOK
  BY BoundsAssumption DEF Init, HistoryOK
<1>4. OpenPartsAreThere
  BY DEF Init, OpenPartsAreThere
<1> QED
  BY <1>1, <1>2, <1>3, <1>4 DEF TInv

(* A step of one handler that leaves the parts, and whatever it has open,  *)
(* as they were.                                                           *)
LEMMA OpenPartsKept ==
  ASSUME TInv, NEW w \in Workers, NEW label, NEW r, Step(w, label, r), UNCHANGED parts,
         label \notin {"opened", "half"}
  PROVE  OpenPartsAreThere'
BY StepEffect DEF TInv, OpenPartsAreThere

LEMMA TypeKept == TInv /\ [Next]_vars => TInv'
<1> SUFFICES ASSUME TInv, [Next]_vars PROVE TInv'
  OBVIOUS
<1>1. ASSUME NEW w \in Workers, NEW u \in Sessions, Start(w, u) PROVE TInv'
  BY <1>1 DEF Start, TInv, HandlersOK, DiskOK, HistoryOK, OpenPartsAreThere, client
<1>2. ASSUME NEW w \in Workers, NEW u \in Sessions, NEW i \in Index, ChunkArrives(w, u, i)
      PROVE  TInv'
  <2>1. /\ Step(w, "admitted", [session |-> u, index |-> i, live |-> TRUE])
        /\ HandlersOK' /\ HistoryOK' /\ UNCHANGED disk
    BY <1>2, ChunkArrivesEffect
  <2>2. OpenPartsAreThere'
    BY <2>1, OpenPartsKept DEF disk
  <2> QED
    BY <2>1, <2>2 DEF TInv, DiskOK, disk
<1>3. ASSUME NEW w \in Workers, NEW u \in Sessions, CompleteArrives(w, u) PROVE TInv'
  <2> DEFINE r == [session |-> u, todo |-> {i \in Index : parts[u][i] # Absent},
                   size |-> meta[u], sniffed |-> FALSE, blob |-> NoBlob]
  <2>1. Step(w, "listed", r) /\ HandlersOK' /\ HistoryOK' /\ UNCHANGED disk
    BY <1>3, CompleteArrivesEffect
  <2> HIDE DEF r
  <2>2. OpenPartsAreThere'
    BY <2>1, OpenPartsKept DEF disk
  <2> QED
    BY <2>1, <2>2 DEF TInv, DiskOK, disk
<1>4. ASSUME NEW w \in Workers, Gives(w) PROVE TInv'
  <2>1. Step(w, "idle", Idle) /\ HandlersOK' /\ UNCHANGED disk /\ HistoryOK'
    BY <1>4, GivesEffect
  <2>2. OpenPartsAreThere'
    BY <2>1, OpenPartsKept DEF disk
  <2> QED
    BY <2>1, <2>2 DEF TInv, DiskOK, disk
<1>5. ASSUME NEW w \in Workers, Writes(w) PROVE TInv'
  <2> DEFINE u == req[w].session
             i == req[w].index
  <2>1. /\ HandlersOK' /\ UNCHANGED <<meta, stored, pieces, rows, client, crashes, history>>
        /\ parts' \in [Sessions -> [Index -> Content]]
    BY <1>5, WritesEffect, WritesPart
  <2>2. DiskOK' /\ HistoryOK'
    BY <2>1 DEF TInv, DiskOK, HistoryOK, client
  <2>3. OpenPartsAreThere'
    <3> SUFFICES ASSUME NEW v \in Workers, pc'[v] \in {"opened", "half"}, req'[v].live
                 PROVE  parts'[req'[v].session][req'[v].index] # Absent
      BY DEF OpenPartsAreThere
    <3>1. /\ u \in Sessions /\ i \in Index
          /\ \A s \in Sessions, j \in Index : s # u \/ j # i => parts'[s][j] = parts[s][j]
          /\ parts[u][i] # Absent => parts'[u][i] # Absent
          /\ pc[w] = "admitted" => parts'[u][i] = {}
      BY <1>5, WritesPart
    <3>2. \/ pc[w] = "admitted" /\ Step(w, "opened", req[w])
          \/ pc[w] = "opened" /\ Step(w, "half", req[w])
          \/ pc[w] = "half" /\ Step(w, "idle", Idle)
      BY <1>5, WritesEffect
    <3>3. CASE v = w
      <4>1. \/ pc[w] = "admitted" /\ req'[w] = req[w]
            \/ pc[w] = "opened" /\ req'[w] = req[w]
        BY <3>2, <3>3, StepEffect DEF TInv
      <4>2. parts'[u][i] # Absent
        BY <3>1, <3>3, <4>1 DEF TInv, OpenPartsAreThere, Absent
      <4> QED
        BY <3>3, <4>1, <4>2
    <3>4. CASE v # w
      <4>1. pc'[v] = pc[v] /\ req'[v] = req[v]
        BY <3>2, <3>4, StepEffect DEF TInv
      <4>2. req[v] \in ChunkRequest
        BY <4>1, RequestIs DEF TInv, Chunking
      <4>3. req[v].session \in Sessions /\ req[v].index \in Index
        BY <4>2 DEF ChunkRequest
      <4>4. parts[req[v].session][req[v].index] # Absent
        BY <4>1 DEF TInv, OpenPartsAreThere
      <4> QED
        BY <3>1, <4>1, <4>3, <4>4
    <3> QED
      BY <3>3, <3>4
  <2> QED
    BY <2>1, <2>2, <2>3 DEF TInv
<1>6. ASSUME NEW w \in Workers, Sniff(w) \/ SizeOK(w) PROVE TInv'
  <2>1. /\ HandlersOK' /\ UNCHANGED <<disk, client, crashes, history>>
        /\ \E label \in {"sniffed", "merged"} : \E r : Step(w, label, r)
    BY <1>6, SniffEffect, SizeOKEffect
  <2>2. OpenPartsAreThere'
    BY <2>1, OpenPartsKept DEF disk
  <2> QED
    BY <2>1, <2>2 DEF TInv, DiskOK, HistoryOK, disk, client
<1>7. ASSUME NEW w \in Workers, CreateFinal(w) PROVE TInv'
  <2>1. /\ HandlersOK' /\ UNCHANGED <<meta, parts, pieces, rows, client, crashes, history>>
        /\ stored' \subseteq Blobs
        /\ \E r : Step(w, "merging", r)
    BY <1>7, CreateFinalEffect DEF TInv, DiskOK
  <2>2. OpenPartsAreThere'
    BY <2>1, OpenPartsKept
  <2> QED
    BY <2>1, <2>2 DEF TInv, DiskOK, HistoryOK, client
<1>8. ASSUME NEW w \in Workers, AppendPart(w) PROVE TInv'
  <2>1. PICK i \in Index :
          /\ req[w] \in CompleteRequest /\ req[w].blob \in Blobs
          /\ pieces' = [pieces EXCEPT ![req[w].blob][i] = parts[req[w].session][i]]
          /\ \E r : Step(w, "merging", r)
          /\ HandlersOK'
          /\ UNCHANGED <<meta, parts, stored, rows, client, crashes, history>>
    BY <1>8, AppendPartEffect
  <2>2. parts[req[w].session][i] \in Content
    BY <2>1 DEF CompleteRequest, TInv, DiskOK
  <2>3. pieces' \in [Blobs -> [Index -> Content]]
    BY <2>1, <2>2 DEF TInv, DiskOK
  <2>4. OpenPartsAreThere'
    BY <2>1, OpenPartsKept
  <2> QED
    BY <2>1, <2>3, <2>4 DEF TInv, DiskOK, HistoryOK, client
<1>9. ASSUME NEW w \in Workers, InsertRow(w) PROVE TInv'
  <2>1. /\ HandlersOK' /\ UNCHANGED <<meta, parts, stored, pieces, client, crashes, history>>
        /\ \E row \in Row : rows' = [rows EXCEPT ![req[w].blob] = row]
        /\ Step(w, "recorded", req[w])
    BY <1>9, InsertRowEffect
  <2>2. OpenPartsAreThere'
    BY <2>1, OpenPartsKept
  <2> QED
    BY <2>1, <2>2 DEF TInv, DiskOK, HistoryOK, client
<1>10. ASSUME NEW w \in Workers, Drops(w) PROVE TInv'
  <2>1. /\ HandlersOK' /\ req[w].blob \in Blobs
        /\ UNCHANGED <<meta, parts, rows, client, crashes, debris, orphans, cut>>
        /\ stored' \subseteq stored /\ kept' \subseteq kept \cup {req[w].blob}
        /\ pieces' \in {pieces, [pieces EXCEPT ![req[w].blob] = Nothing]}
        /\ Step(w, "idle", Idle)
    BY <1>10, DropsEffect
  <2>2. OpenPartsAreThere'
    BY <2>1, OpenPartsKept
  <2> QED
    BY <2>1, <2>2, ContentType DEF TInv, DiskOK, HistoryOK, client
<1>11. ASSUME NEW w \in Workers, RemoveMeta(w) PROVE TInv'
  <2>1. /\ req[w].session \in Sessions /\ meta' = [meta EXCEPT ![req[w].session] = 0]
        /\ UNCHANGED <<parts, stored, pieces, rows, pc, req, client, crashes, history>>
    BY <1>11, RemoveMetaEffect
  <2>2. HandlersOK' /\ OpenPartsAreThere'
    BY <2>1 DEF TInv, HandlersOK, OpenPartsAreThere
  <2> QED
    BY <2>1, <2>2 DEF TInv, DiskOK, HistoryOK, client
<1>12. ASSUME NEW w \in Workers, NEW i \in Index, RemovePart(w, i) PROVE TInv'
  <2> DEFINE u == req[w].session
  <2>1. /\ u \in Sessions
        /\ parts' = [parts EXCEPT ![u][i] = Absent]
        /\ HandlersOK'
        /\ UNCHANGED <<meta, stored, pieces, rows, pc, client, crashes, history>>
    BY <1>12, RemovePartEffect
  <2>2. DiskOK' /\ HistoryOK'
    BY <2>1, ContentType DEF TInv, DiskOK, HistoryOK, client
  <2>3. OpenPartsAreThere'
    <3> SUFFICES ASSUME NEW v \in Workers, pc[v] \in {"opened", "half"}, req'[v].live
                 PROVE  parts'[req'[v].session][req'[v].index] # Absent
      BY <2>1 DEF OpenPartsAreThere
    <3>1. (req[v].session # u \/ req[v].index # i) /\ req'[v] = req[v]
      <4>1. /\ req[v].session # u \/ req[v].index # i => req'[v] = req[v]
            /\ req[v].session = u /\ req[v].index = i => req'[v].live = FALSE
        BY <1>12, RemovePartEffect
      <4> QED
        BY <4>1
    <3>2. req[v].session \in Sessions /\ req[v].index \in Index
      BY RequestIs DEF TInv, Chunking, ChunkRequest
    <3>3. parts'[req[v].session][req[v].index] = parts[req[v].session][req[v].index]
      BY <2>1, <3>1, <3>2 DEF TInv, DiskOK
    <3> QED
      BY <3>1, <3>3 DEF TInv, OpenPartsAreThere
  <2> QED
    BY <2>1, <2>2, <2>3 DEF TInv
<1>13. CASE Crash
  <2>1. /\ \A w \in Workers : pc'[w] = "idle"
        /\ HandlersOK' /\ HistoryOK' /\ UNCHANGED <<disk, client>>
    BY <1>13, CrashEffect
  <2> QED
    BY <2>1 DEF TInv, DiskOK, OpenPartsAreThere, disk
<1>14. CASE UNCHANGED vars
  BY <1>14 DEF vars, disk, client, TInv, HandlersOK, DiskOK, HistoryOK, OpenPartsAreThere
<1> QED
  BY <1>1, <1>2, <1>3, <1>4, <1>5, <1>6, <1>7, <1>8, <1>9, <1>10, <1>11, <1>12, <1>13, <1>14
     DEF Next, ChunkStep, CompleteStep, Gives, Writes, Drops

(* Every variable keeps its type; in particular no handler writes into a   *)
(* part that is not there.                                                 *)
THEOREM TypeCorrect == Spec => []TypeOK
  BY TypeInitially, TypeKept, TypeParts, PTL DEF Spec

-----------------------------------------------------------------------------
(* Files                                                                   *)

(* A step that touches no shared file, nor a handler that writes one.      *)
LEMMA QuietKeepsFiles ==
  ASSUME FInv, TInv', UNCHANGED <<stored, pieces, rows, debris, orphans, kept>>,
         \A v \in Workers : Merging(v)' \/ pc'[v] = "recorded" =>
                            pc'[v] = pc[v] /\ req'[v] = req[v],
         \A v \in Workers : Merging(v) => Merging(v)' /\ req'[v] = req[v]
  PROVE  FInv'
<1>1. ASSUME NEW w \in Workers PROVE FileOfHandler(w)'
  <2>1. FileOfHandler(w)
    BY DEF FInv
  <2>2. CASE Merging(w)' \/ pc'[w] = "recorded"
    BY <2>1, <2>2 DEF FileOfHandler, Merging, SizeIs, Bytes
  <2>3. CASE ~(Merging(w)' \/ pc'[w] = "recorded")
    BY <2>3 DEF FileOfHandler, Merging
  <2> QED
    BY <2>2, <2>3
<1>2. OneHandlerPerFile'
  <2>1. \A v \in Workers : Merging(v)' => Merging(v) /\ req'[v] = req[v]
    BY DEF Merging
  <2> QED
    BY <2>1 DEF FInv, OneHandlerPerFile
<1>3. SharedHasItsSize'
  BY DEF FInv, SharedHasItsSize, SizeIs, Bytes
<1>4. FilesAccountedFor'
  BY DEF FInv, FilesAccountedFor
<1>5. \A b \in Blobs \ stored' : pieces'[b] = Nothing
  BY DEF FInv
<1> QED
  BY <1>1, <1>2, <1>3, <1>4, <1>5 DEF FInv

LEMMA FilesInitially == Init => FInv
<1> SUFFICES ASSUME Init PROVE FInv
  OBVIOUS
<1>1. \A w \in Workers : ~Merging(w) /\ pc[w] = "idle"
  BY DEF Init, Merging
<1>2. \A b \in Blobs : rows[b] = NoRow /\ pieces[b] = Nothing
  BY DEF Init
<1>3. stored = {}
  BY DEF Init
<1> QED
  BY <1>1, <1>2, <1>3, TypeInitially
     DEF FInv, FileOfHandler, OneHandlerPerFile, SharedHasItsSize, FilesAccountedFor

LEMMA SizeOfUnchanged ==
  ASSUME NEW b, pieces'[b] = pieces[b], NEW size, SizeIs(pieces[b], size)
  PROVE  SizeIs(pieces'[b], size)
BY DEF SizeIs, Bytes

LEMMA FilesByCreateFinal ==
  ASSUME FInv, TInv', NEW w \in Workers, CreateFinal(w)
  PROVE  FInv'
<1>1. PICK b \in Blobs \ stored :
        LET q == [req[w] EXCEPT !.blob = b]
        IN  /\ pc[w] = "sniffed" /\ req[w] \in CompleteRequest /\ rows[b] = NoRow
            /\ stored' = stored \cup {b}
            /\ Step(w, "merging", q)
            /\ UNCHANGED <<meta, parts, pieces, rows, client, crashes, history>>
  BY CreateFinalEffect DEF FInv
<1> DEFINE q == [req[w] EXCEPT !.blob = b]
<1>2. q.blob = b
  BY <1>1, WithBlob
<1>3. Step(w, "merging", q)
  BY <1>1
<1> HIDE DEF q
<1>4. /\ pc'[w] = "merging" /\ req'[w] = q
      /\ \A v \in Workers : v # w => pc'[v] = pc[v] /\ req'[v] = req[v]
  BY <1>3, StepEffect DEF FInv, TInv
<1>5. \A v \in Workers : v # w => (Merging(v)' <=> Merging(v))
  BY <1>4 DEF Merging
<1>6. ASSUME NEW v \in Workers PROVE FileOfHandler(v)'
  <2>1. CASE v = w
    BY <1>1, <1>2, <1>4, <2>1 DEF FileOfHandler
  <2>2. CASE v # w
    <3>1. FileOfHandler(v) /\ pc'[v] = pc[v] /\ req'[v] = req[v]
      BY <1>4, <2>2 DEF FInv
    <3> QED
      BY <1>1, <1>5, <2>2, <3>1 DEF FileOfHandler, SizeIs, Bytes
  <2> QED
    BY <2>1, <2>2
<1>7. \A v \in Workers : Merging(v) /\ v # w => req[v].blob # b
  BY <1>1 DEF FInv, FileOfHandler
<1>8. OneHandlerPerFile'
  BY <1>2, <1>4, <1>5, <1>7 DEF FInv, OneHandlerPerFile
<1>9. SharedHasItsSize'
  BY <1>1 DEF FInv, SharedHasItsSize, SizeIs, Bytes
<1>10. FilesAccountedFor'
  <2> SUFFICES ASSUME NEW c \in stored'
               PROVE  \/ rows'[c] # NoRow
                      \/ \E v \in Workers : Merging(v)' /\ req'[v].blob = c
                      \/ c \in debris' \cup orphans' \cup kept'
    BY DEF FilesAccountedFor
  <2>1. CASE c = b
    BY <1>2, <1>4, <2>1 DEF Merging
  <2>2. CASE c \in stored
    <3>1. ASSUME NEW v \in Workers, Merging(v), req[v].blob = c
          PROVE  \E u \in Workers : Merging(u)' /\ req'[u].blob = c
      <4>1. v # w
        BY <1>1, <3>1 DEF Merging
      <4> QED
        BY <1>4, <1>5, <3>1, <4>1
    <3> QED
      BY <1>1, <2>2, <3>1 DEF FInv, FilesAccountedFor
  <2> QED
    BY <1>1, <2>1, <2>2
<1>11. \A c \in Blobs \ stored' : pieces'[c] = Nothing
  BY <1>1 DEF FInv
<1> QED
  BY <1>6, <1>8, <1>9, <1>10, <1>11 DEF FInv

(* A step of a handler that merges on with the same file.                  *)
LEMMA FilesByMerging ==
  ASSUME FInv, TInv', NEW w \in Workers, Merging(w), NEW label \in {"merging", "merged"}, NEW r,
         Step(w, label, r), r.blob = req[w].blob,
         UNCHANGED <<stored, rows, debris, orphans, kept>>,
         \A b \in Blobs : b # req[w].blob => pieces'[b] = pieces[b],
         label = "merged" => SizeIs(pieces'[r.blob], r.size)
  PROVE  FInv'
<1>1. /\ pc'[w] = label /\ req'[w] = r
      /\ \A v \in Workers : v # w => pc'[v] = pc[v] /\ req'[v] = req[v]
  BY StepEffect DEF FInv, TInv
<1>2. /\ \A v \in Workers : Merging(v)' <=> Merging(v)
      /\ \A v \in Workers : Merging(v) => req'[v].blob = req[v].blob
  BY <1>1 DEF Merging
<1>3. req[w].blob \in stored /\ rows[req[w].blob] = NoRow
  BY DEF FInv, FileOfHandler
<1>4. ASSUME NEW v \in Workers PROVE FileOfHandler(v)'
  <2>1. CASE v = w
    BY <1>1, <1>2, <1>3, <2>1 DEF FileOfHandler
  <2>2. CASE v # w
    <3>1. FileOfHandler(v) /\ pc'[v] = pc[v] /\ req'[v] = req[v]
      BY <1>1, <2>2 DEF FInv
    <3>2. pc[v] = "merged" => req[v].blob # req[w].blob /\ req[v].blob \in Blobs
      BY <2>2, RequestIs DEF FInv, OneHandlerPerFile, Merging, TInv
    <3>3. pc[v] = "merged" => SizeIs(pieces'[req[v].blob], req[v].size)
      BY <3>1, <3>2, SizeOfUnchanged DEF FileOfHandler
    <3> QED
      BY <1>2, <3>1, <3>3 DEF FileOfHandler
  <2> QED
    BY <2>1, <2>2
<1>5. OneHandlerPerFile'
  BY <1>2 DEF FInv, OneHandlerPerFile
<1>6. SharedHasItsSize'
  <2> SUFFICES ASSUME NEW b \in Blobs, rows'[b] # NoRow
               PROVE  b \in stored' /\ SizeIs(pieces'[b], rows'[b].size)
    BY DEF SharedHasItsSize, SizeIs, Bytes
  <2>1. b # req[w].blob /\ pieces'[b] = pieces[b]
    BY <1>3
  <2> QED
    BY <2>1, SizeOfUnchanged DEF FInv, SharedHasItsSize
<1>7. FilesAccountedFor'
  BY <1>2 DEF FInv, FilesAccountedFor
<1>8. \A b \in Blobs \ stored' : pieces'[b] = Nothing
  BY <1>3 DEF FInv
<1> QED
  BY <1>4, <1>5, <1>6, <1>7, <1>8 DEF FInv

LEMMA FilesByInsertRow ==
  ASSUME FInv, TInv', NEW w \in Workers, InsertRow(w)
  PROVE  FInv'
<1> DEFINE b == req[w].blob
           row == [session |-> req[w].session, size |-> req[w].size, sniffed |-> req[w].sniffed]
<1>1. /\ pc[w] = "merged" /\ b \in Blobs
      /\ row # NoRow /\ rows' = [rows EXCEPT ![b] = row]
      /\ Step(w, "recorded", req[w])
      /\ UNCHANGED <<meta, parts, stored, pieces, client, crashes, history>>
  BY InsertRowEffect DEF FInv
<1>2. row.session = req[w].session /\ row.size = req[w].size
  OBVIOUS
<1>3. b \in stored /\ SizeIs(pieces[b], req[w].size)
  BY <1>1 DEF FInv, FileOfHandler, Merging
<1> HIDE DEF b, row
<1>4. /\ pc'[w] = "recorded" /\ req'[w] = req[w]
      /\ \A v \in Workers : v # w => pc'[v] = pc[v] /\ req'[v] = req[v]
  BY <1>1, StepEffect DEF FInv, TInv
<1>5. rows'[b] = row /\ \A c \in Blobs : c # b => rows'[c] = rows[c]
  BY <1>1 DEF FInv, TInv, DiskOK
<1>6. \A v \in Workers : Merging(v)' => v # w /\ Merging(v) /\ req[v].blob # b
  BY <1>1, <1>4 DEF Merging, FInv, OneHandlerPerFile, b
<1>7. ASSUME NEW v \in Workers PROVE FileOfHandler(v)'
  <2>1. CASE v = w
    BY <1>1, <1>2, <1>4, <1>5, <2>1 DEF FileOfHandler, Merging, b
  <2>2. CASE v # w
    <3>1. FileOfHandler(v) /\ pc'[v] = pc[v] /\ req'[v] = req[v]
      BY <1>4, <2>2 DEF FInv
    <3>2. Merging(v)' => req[v].blob # b /\ Merging(v) /\ req[v].blob \in Blobs
      BY <1>6, RequestIs DEF Merging, FInv, TInv
    <3>3. pc[v] = "recorded" => req[v].blob # b
      BY <1>1, <1>4, <3>1 DEF FileOfHandler, FInv, Merging, b
    <3> QED
      BY <1>1, <1>5, <3>1, <3>2, <3>3 DEF FileOfHandler, Merging, SizeIs, Bytes
  <2> QED
    BY <2>1, <2>2
<1>8. OneHandlerPerFile'
  BY <1>4, <1>6 DEF FInv, OneHandlerPerFile
<1>9. SharedHasItsSize'
  <2> SUFFICES ASSUME NEW c \in Blobs, rows'[c] # NoRow
               PROVE  c \in stored /\ SizeIs(pieces[c], rows'[c].size)
    BY <1>1 DEF SharedHasItsSize, SizeIs, Bytes
  <2>1. CASE c = b
    BY <1>2, <1>3, <1>5, <2>1
  <2>2. CASE c # b
    BY <1>5, <2>2 DEF FInv, SharedHasItsSize
  <2> QED
    BY <2>1, <2>2
<1>10. FilesAccountedFor'
  <2> SUFFICES ASSUME NEW c \in stored, c # b
               PROVE  \/ rows'[c] # NoRow
                      \/ \E v \in Workers : Merging(v)' /\ req'[v].blob = c
                      \/ c \in debris \cup orphans \cup kept
    BY <1>1, <1>5 DEF FilesAccountedFor
  <2>1. c \in Blobs
    BY DEF FInv, TInv, DiskOK
  <2>2. ASSUME NEW v \in Workers, Merging(v), req[v].blob = c
        PROVE  Merging(v)' /\ req'[v].blob = c
    BY <1>4, <2>2 DEF Merging, b
  <2> QED
    BY <1>5, <2>1, <2>2 DEF FInv, FilesAccountedFor
<1>11. \A c \in Blobs \ stored' : pieces'[c] = Nothing
  BY <1>1 DEF FInv
<1> QED
  BY <1>7, <1>8, <1>9, <1>10, <1>11 DEF FInv

(* Whoever stops merging leaves the file to debris, orphans or kept.       *)
LEMMA FilesByStopping ==
  ASSUME FInv, TInv', UNCHANGED <<stored, pieces, rows>>,
         debris \subseteq debris', orphans \subseteq orphans', kept \subseteq kept',
         \A v \in Workers : \/ pc'[v] = "idle"
                            \/ pc'[v] = pc[v] /\ req'[v] = req[v],
         \A v \in Workers : Merging(v) /\ pc'[v] = "idle" =>
                            req[v].blob \in debris' \cup orphans' \cup kept'
  PROVE  FInv'
<1>1. \A v \in Workers : Merging(v)' => Merging(v) /\ req'[v] = req[v] /\ pc'[v] = pc[v]
  BY DEF Merging
<1>2. ASSUME NEW v \in Workers PROVE FileOfHandler(v)'
  <2>1. FileOfHandler(v)
    BY DEF FInv
  <2> QED
    BY <1>1, <2>1 DEF FileOfHandler, Merging, SizeIs, Bytes
<1>3. OneHandlerPerFile'
  BY <1>1 DEF FInv, OneHandlerPerFile
<1>4. SharedHasItsSize'
  BY DEF FInv, SharedHasItsSize, SizeIs, Bytes
<1>5. FilesAccountedFor'
  <2> SUFFICES ASSUME NEW c \in stored
               PROVE  \/ rows[c] # NoRow
                      \/ \E v \in Workers : Merging(v)' /\ req'[v].blob = c
                      \/ c \in debris' \cup orphans' \cup kept'
    BY DEF FilesAccountedFor
  <2>1. ASSUME NEW v \in Workers, Merging(v), req[v].blob = c
        PROVE  (Merging(v)' /\ req'[v].blob = c) \/ c \in debris' \cup orphans' \cup kept'
    BY <2>1 DEF Merging
  <2> QED
    BY <2>1 DEF FInv, FilesAccountedFor
<1>6. \A c \in Blobs \ stored' : pieces'[c] = Nothing
  BY DEF FInv
<1> QED
  BY <1>2, <1>3, <1>4, <1>5, <1>6 DEF FInv

(* The file of the handler that gives up is removed.                       *)
LEMMA FilesByUnlink ==
  ASSUME FInv, TInv', NEW w \in Workers, Merging(w), Step(w, "idle", Idle),
         req[w].blob \in Blobs, stored' = stored \ {req[w].blob},
         pieces' = [pieces EXCEPT ![req[w].blob] = Nothing],
         UNCHANGED <<rows, debris, orphans, kept>>
  PROVE  FInv'
<1> DEFINE b == req[w].blob
<1>1. /\ Merging(w) /\ b \in Blobs
      /\ stored' = stored \ {b} /\ pieces' = [pieces EXCEPT ![b] = Nothing]
      /\ Step(w, "idle", Idle)
      /\ UNCHANGED <<rows, debris, orphans, kept>>
  OBVIOUS
<1>2. rows[b] = NoRow
  BY <1>1 DEF FInv, FileOfHandler
<1>3. \A v \in Workers : v # w /\ Merging(v) => req[v].blob # b
  BY <1>1 DEF FInv, OneHandlerPerFile
<1> HIDE DEF b
<1>4. /\ pc'[w] = "idle" /\ req'[w] = Idle
      /\ \A v \in Workers : v # w => pc'[v] = pc[v] /\ req'[v] = req[v]
  BY <1>1, StepEffect DEF FInv, TInv
<1>5. \A c \in Blobs : c # b => pieces'[c] = pieces[c] /\ (c \in stored' <=> c \in stored)
  BY <1>1 DEF FInv, TInv, DiskOK
<1>6. \A v \in Workers : Merging(v)' <=> v # w /\ Merging(v)
  BY <1>4 DEF Merging
<1>7. ASSUME NEW v \in Workers PROVE FileOfHandler(v)'
  <2>1. CASE v = w
    BY <1>4, <2>1 DEF FileOfHandler, Merging
  <2>2. CASE v # w
    <3>1. FileOfHandler(v) /\ pc'[v] = pc[v] /\ req'[v] = req[v]
      BY <1>4, <2>2 DEF FInv
    <3>2. Merging(v) => req[v].blob # b /\ req[v].blob \in Blobs
      BY <1>3, <2>2, RequestIs DEF Merging, FInv, TInv
    <3>3. pc[v] = "merged" => SizeIs(pieces'[req[v].blob], req[v].size)
      BY <1>5, <3>1, <3>2, SizeOfUnchanged DEF FileOfHandler, Merging
    <3> QED
      BY <1>1, <1>5, <1>6, <2>2, <3>1, <3>2, <3>3 DEF FileOfHandler
  <2> QED
    BY <2>1, <2>2
<1>8. OneHandlerPerFile'
  BY <1>4, <1>6 DEF FInv, OneHandlerPerFile
<1>9. SharedHasItsSize'
  <2> SUFFICES ASSUME NEW c \in Blobs, rows[c] # NoRow
               PROVE  c \in stored' /\ SizeIs(pieces'[c], rows[c].size)
    BY <1>1 DEF SharedHasItsSize, SizeIs, Bytes
  <2>1. c # b /\ c \in stored /\ SizeIs(pieces[c], rows[c].size)
    BY <1>2 DEF FInv, SharedHasItsSize
  <2> QED
    BY <1>5, <2>1, SizeOfUnchanged
<1>10. FilesAccountedFor'
  <2> SUFFICES ASSUME NEW c \in stored, c # b
               PROVE  \/ rows[c] # NoRow
                      \/ \E v \in Workers : Merging(v)' /\ req'[v].blob = c
                      \/ c \in debris \cup orphans \cup kept
    BY <1>1 DEF FilesAccountedFor
  <2>1. ASSUME NEW v \in Workers, Merging(v), req[v].blob = c
        PROVE  Merging(v)' /\ req'[v].blob = c
    BY <1>4, <1>6, <2>1 DEF b
  <2> QED
    BY <2>1 DEF FInv, FilesAccountedFor
<1>11. \A c \in Blobs \ stored' : pieces'[c] = Nothing
  BY <1>1, <1>5 DEF FInv, TInv, DiskOK
<1> QED
  BY <1>7, <1>8, <1>9, <1>10, <1>11 DEF FInv

LEMMA FilesByDrop ==
  ASSUME FInv, TInv', NEW w \in Workers, Drops(w)
  PROVE  FInv'
<1> DEFINE b == req[w].blob
<1>1. /\ Merging(w) /\ b \in Blobs
      /\ \/ /\ stored' = stored \ {b} /\ pieces' = [pieces EXCEPT ![b] = Nothing]
            /\ kept' = kept
         \/ kept' = kept \cup {b} /\ UNCHANGED <<stored, pieces>>
      /\ Step(w, "idle", Idle)
      /\ UNCHANGED <<rows, debris, orphans>>
  BY DropsEffect DEF FInv
<1>2. CASE stored' = stored \ {b} /\ pieces' = [pieces EXCEPT ![b] = Nothing] /\ kept' = kept
  BY <1>1, <1>2, FilesByUnlink
<1>3. CASE kept' = kept \cup {b} /\ UNCHANGED <<stored, pieces>>
  <2>1. /\ pc'[w] = "idle"
        /\ \A v \in Workers : v # w => pc'[v] = pc[v] /\ req'[v] = req[v]
    BY <1>1, StepEffect DEF FInv, TInv
  <2>2. \A v \in Workers : Merging(v) /\ pc'[v] = "idle" => v = w
    BY <2>1 DEF Merging
  <2> QED
    BY <1>1, <1>3, <2>1, <2>2, FilesByStopping
<1> QED
  BY <1>1, <1>2, <1>3

LEMMA FilesKept == FInv /\ [Next]_vars => FInv'
<1> SUFFICES ASSUME FInv, [Next]_vars PROVE FInv'
  OBVIOUS
<1>0. TInv /\ TInv'
  BY TypeKept DEF FInv
<1>1. ASSUME NEW w \in Workers, NEW label \in {"idle", "opened", "half", "admitted", "listed", "sniffed"},
             NEW r, Step(w, label, r), ~Merging(w),
             UNCHANGED <<stored, pieces, rows, debris, orphans, kept>>
      PROVE  FInv'
  <2>1. /\ pc'[w] = label
        /\ \A v \in Workers : v # w => pc'[v] = pc[v] /\ req'[v] = req[v]
    BY <1>0, <1>1, StepEffect DEF TInv
  <2>2. ~Merging(w)' /\ pc'[w] # "recorded"
    BY <2>1 DEF Merging
  <2> QED
    BY <1>0, <1>1, <2>1, <2>2, QuietKeepsFiles DEF Merging
<1>2. ASSUME NEW w \in Workers, NEW u \in Sessions, Start(w, u) PROVE FInv'
  <2>1. UNCHANGED <<stored, pieces, rows, history, pc, req>>
    BY <1>2 DEF Start
  <2> QED
    BY <1>0, <2>1, QuietKeepsFiles DEF Merging
<1>3. ASSUME NEW w \in Workers, NEW u \in Sessions, NEW i \in Index, ChunkArrives(w, u, i)
      PROVE  FInv'
  <2>1. /\ Step(w, "admitted", [session |-> u, index |-> i, live |-> TRUE])
        /\ UNCHANGED disk
    BY <1>0, <1>3, ChunkArrivesEffect
  <2>2. pc[w] = "idle" /\ UNCHANGED history
    BY <1>3 DEF ChunkArrives
  <2> QED
    BY <1>1, <2>1, <2>2 DEF disk, Merging
<1>4. ASSUME NEW w \in Workers, NEW u \in Sessions, CompleteArrives(w, u) PROVE FInv'
  <2>1. UNCHANGED disk /\ \E r : Step(w, "listed", r)
    BY <1>0, <1>4, CompleteArrivesEffect
  <2>2. pc[w] = "idle" /\ UNCHANGED history
    BY <1>4 DEF CompleteArrives
  <2> QED
    BY <1>1, <2>1, <2>2 DEF disk, Merging
<1>5. ASSUME NEW w \in Workers,
             ChunkFails(w) \/ RefuseComplete(w) \/ RemoveEnds(w) \/ RemoveFails(w)
      PROVE  FInv'
  <2>1. Step(w, "idle", Idle) /\ UNCHANGED disk /\ UNCHANGED <<debris, kept>>
    BY <1>0, <1>5, GivesEffect DEF Gives
  <2>2. ~Merging(w) /\ UNCHANGED orphans
    BY <1>5 DEF ChunkFails, RefuseComplete, RemoveEnds, RemoveFails, Merging, Chunking
  <2> QED
    BY <1>1, <2>1, <2>2 DEF disk
<1>6. ASSUME NEW w \in Workers, Writes(w) PROVE FInv'
  <2>1. /\ pc[w] \in Chunking
        /\ \E label \in {"opened", "half", "idle"} : \E r : Step(w, label, r)
        /\ UNCHANGED <<stored, pieces, rows, history>>
    BY <1>0, <1>6, WritesEffect
  <2>2. ~Merging(w)
    BY <2>1 DEF Chunking, Merging
  <2> QED
    BY <1>1, <2>1, <2>2
<1>7. ASSUME NEW w \in Workers, Sniff(w) PROVE FInv'
  <2>1. /\ pc[w] = "listed" /\ UNCHANGED <<disk, client, crashes, history>>
        /\ \E r : Step(w, "sniffed", r)
    BY <1>0, <1>7, SniffEffect
  <2> QED
    BY <1>1, <2>1 DEF disk, Merging
<1>8. ASSUME NEW w \in Workers, RemoveMeta(w) \/ \E i \in Index : RemovePart(w, i) PROVE FInv'
  <2>1. /\ UNCHANGED <<stored, pieces, rows, pc, history>>
        /\ \A v \in Workers : pc[v] \notin {"opened", "half"} => req'[v] = req[v]
    BY <1>0, <1>8, RemoveMetaEffect, RemovePartEffect
  <2> QED
    BY <1>0, <2>1, QuietKeepsFiles DEF Merging
<1>9. ASSUME NEW w \in Workers, AppendPart(w) PROVE FInv'
  <2>1. PICK i \in Index :
          LET q == [req[w] EXCEPT !.todo = req[w].todo \ {i}]
          IN  /\ pc[w] = "merging" /\ req[w] \in CompleteRequest /\ req[w].blob \in Blobs
              /\ pieces' = [pieces EXCEPT ![req[w].blob][i] = parts[req[w].session][i]]
              /\ Step(w, "merging", q)
              /\ UNCHANGED <<meta, parts, stored, rows, client, crashes, history>>
    BY <1>0, <1>9, AppendPartEffect
  <2> DEFINE q == [req[w] EXCEPT !.todo = req[w].todo \ {i}]
  <2>2. q.blob = req[w].blob
    <3>1. req[w].todo \ {i} \in SUBSET Index
      BY <2>1 DEF CompleteRequest
    <3> QED
      BY <2>1, <3>1, WithTodo
  <2>3. \A b \in Blobs : b # req[w].blob => pieces'[b] = pieces[b]
    BY <1>0, <2>1 DEF TInv, DiskOK
  <2>4. Step(w, "merging", q)
    BY <2>1
  <2> HIDE DEF q
  <2> QED
    BY <1>0, <2>1, <2>2, <2>3, <2>4, FilesByMerging DEF Merging
<1>10. ASSUME NEW w \in Workers, SizeOK(w) PROVE FInv'
  <2>1. /\ pc[w] = "merging" /\ Step(w, "merged", req[w])
        /\ SizeIs(pieces[req[w].blob], req[w].size)
        /\ UNCHANGED <<disk, client, crashes, history>>
    BY <1>0, <1>10, SizeOKEffect
  <2>2. pieces' = pieces
    BY <2>1 DEF disk
  <2>3. SizeIs(pieces'[req[w].blob], req[w].size)
    BY <2>1, <2>2 DEF SizeIs, Bytes
  <2> QED
    BY <1>0, <2>1, <2>2, <2>3, FilesByMerging DEF disk, Merging
<1>11. ASSUME NEW w \in Workers, AppendFails(w) PROVE FInv'
  <2>1. Step(w, "idle", Idle) /\ UNCHANGED disk /\ UNCHANGED <<debris, kept>>
    BY <1>0, <1>11, GivesEffect DEF Gives
  <2>2. orphans' = orphans \cup {req[w].blob}
    BY <1>11 DEF AppendFails
  <2>3. /\ pc'[w] = "idle"
        /\ \A v \in Workers : v # w => pc'[v] = pc[v] /\ req'[v] = req[v]
    BY <1>0, <2>1, StepEffect DEF TInv
  <2>4. \A v \in Workers : Merging(v) /\ pc'[v] = "idle" => v = w
    BY <2>3 DEF Merging
  <2> QED
    BY <1>0, <2>1, <2>2, <2>3, <2>4, FilesByStopping DEF disk
<1>12. CASE Crash
  <2>1. /\ \A w \in Workers : pc'[w] = "idle"
        /\ debris' = debris \cup {req[w].blob : w \in {v \in Workers : Merging(v)}}
        /\ UNCHANGED <<disk, client, orphans, kept>>
    BY <1>0, <1>12, CrashEffect
  <2>2. \A v \in Workers : Merging(v) => req[v].blob \in debris'
    BY <2>1
  <2> QED
    BY <1>0, <2>1, <2>2, FilesByStopping DEF disk
<1>13. CASE UNCHANGED vars
  <2>1. UNCHANGED <<stored, pieces, rows, history, pc, req>>
    BY <1>13 DEF vars, disk
  <2> QED
    BY <1>0, <2>1, QuietKeepsFiles DEF Merging
<1> QED
  BY <1>0, <1>2, <1>3, <1>4, <1>5, <1>6, <1>7, <1>8, <1>9, <1>10, <1>11, <1>12, <1>13,
     FilesByCreateFinal, FilesByInsertRow, FilesByDrop
     DEF Next, ChunkStep, CompleteStep, Writes, Drops

LEMMA FilesHold == Spec => []FInv
  BY FilesInitially, FilesKept, PTL DEF Spec

(* A shared file has the size its row says, whatever is sent again and     *)
(* whoever writes a part at the same time.                                 *)
THEOREM SharedFilesHaveTheirSize == Spec => []SharedHasItsSize
<1>1. FInv => SharedHasItsSize
  BY DEF FInv
<1> QED
  BY <1>1, FilesHold, PTL

(* Every file is shared, being written, or known to be left behind.        *)
THEOREM NoFileIsLost == Spec => []FilesAccountedFor
<1>1. FInv => FilesAccountedFor
  BY DEF FInv
<1> QED
  BY <1>1, FilesHold, PTL

-----------------------------------------------------------------------------
(* Sessions                                                                *)

(* A step that starts no request and brings up no part.                    *)
LEMMA QuietKeepsSessions ==
  ASSUME CInv, UNCHANGED <<sent, asked>>,
         \A u \in Sessions : meta'[u] \in {meta[u], 0},
         \A u \in Sessions, i \in Index : parts'[u][i] # Absent => parts[u][i] # Absent,
         \A v \in Workers :
           /\ pc'[v] \in Chunking =>
                /\ pc[v] \in Chunking
                /\ req'[v].session = req[v].session /\ req'[v].index = req[v].index
           /\ pc'[v] \in Completing =>
                pc[v] \in Completing /\ req'[v].session = req[v].session
  PROVE  CInv'
BY DEF CInv

(* The same for a step of one handler that leaves the sessions alone.      *)
LEMMA OneHandlerKeepsSessions ==
  ASSUME TInv, CInv, NEW w \in Workers, NEW label, NEW r, Step(w, label, r),
         UNCHANGED <<meta, parts, sent, asked>>,
         \/ label = "idle"
         \/ /\ label \in Completing /\ pc[w] \in Completing
            /\ r.session = req[w].session
  PROVE  CInv'
<1>1. /\ pc'[w] = label /\ req'[w] = r
      /\ \A v \in Workers : v # w => pc'[v] = pc[v] /\ req'[v] = req[v]
  BY StepEffect DEF TInv
<1>2. "idle" \notin Chunking /\ "idle" \notin Completing
      /\ \A l \in Completing : l \notin Chunking
  BY DEF Chunking, Completing
<1> QED
  BY <1>1, <1>2, QuietKeepsSessions

LEMMA SessionsInitially == Init => CInv
<1> SUFFICES ASSUME Init PROVE CInv
  OBVIOUS
<1>1. \A w \in Workers : pc[w] \notin Chunking /\ pc[w] \notin Completing
  BY DEF Init, Chunking, Completing
<1>2. \A u \in Sessions, i \in Index : parts[u][i] = Absent
  BY DEF Init, Nothing
<1> QED
  BY <1>1, <1>2 DEF Init, CInv

LEMMA SessionsKept == TInv /\ CInv /\ [Next]_vars => CInv'
<1> SUFFICES ASSUME TInv, CInv, [Next]_vars PROVE CInv'
  OBVIOUS
<1>1. ASSUME NEW w \in Workers, NEW u \in Sessions, Start(w, u) PROVE CInv'
  <2>1. /\ sent[u] = {} /\ UNCHANGED <<parts, pc, req, sent, asked>>
        /\ \A s \in Sessions : s # u => meta'[s] = meta[s]
    BY <1>1 DEF Start, client, TInv, DiskOK
  <2> QED
    BY <2>1 DEF CInv
<1>2. ASSUME NEW w \in Workers, NEW u \in Sessions, NEW i \in Index, ChunkArrives(w, u, i)
      PROVE  CInv'
  <2>1. /\ Step(w, "admitted", [session |-> u, index |-> i, live |-> TRUE])
        /\ UNCHANGED <<meta, parts>>
    BY <1>2, ChunkArrivesEffect DEF disk
  <2>2. /\ pc'[w] = "admitted" /\ req'[w].session = u /\ req'[w].index = i
        /\ \A v \in Workers : v # w => pc'[v] = pc[v] /\ req'[v] = req[v]
    BY <2>1, StepEffect DEF TInv
  <2>3. /\ sent'[u] = sent[u] \cup {i} /\ \A s \in Sessions : s # u => sent'[s] = sent[s]
        /\ asked' = asked /\ meta[u] # 0 /\ i < meta[u]
    BY <1>2 DEF ChunkArrives, TInv, HistoryOK
  <2>4. i \in 0..(meta[u] - 1)
    <3>1. i \in Nat /\ meta[u] \in Nat
      BY <2>3, IndexType, SizesAssumption DEF TInv, DiskOK
    <3> QED
      BY <2>3, <3>1
  <2>5. ASSUME NEW v \in Workers
        PROVE  /\ pc'[v] \in Chunking => req'[v].index \in sent'[req'[v].session]
               /\ pc'[v] \in Completing => req'[v].session \in asked'
    <3>1. CASE v = w
      BY <2>2, <2>3, <3>1 DEF Completing
    <3>2. CASE v # w
      <4>1. pc[v] \in Chunking => req[v].session \in Sessions
        BY RequestIs DEF ChunkRequest, TInv
      <4>2. \A s \in Sessions : sent[s] \subseteq sent'[s]
        BY <2>3
      <4> QED
        BY <2>2, <2>3, <3>2, <4>1, <4>2 DEF CInv
    <3> QED
      BY <3>1, <3>2
  <2>6. ASSUME NEW s \in Sessions
        PROVE  /\ \A j \in Index : parts'[s][j] # Absent => j \in sent'[s]
               /\ s \in asked' => sent'[s] # {}
               /\ meta'[s] # 0 => sent'[s] \subseteq 0..(meta'[s] - 1)
    <3>1. CASE s = u
      BY <2>1, <2>3, <2>4, <3>1 DEF CInv
    <3>2. CASE s # u
      BY <2>1, <2>3, <3>2 DEF CInv
    <3> QED
      BY <3>1, <3>2
  <2> QED
    BY <2>5, <2>6 DEF CInv
<1>3. ASSUME NEW w \in Workers, NEW u \in Sessions, CompleteArrives(w, u) PROVE CInv'
  <2> DEFINE present == {i \in Index : parts[u][i] # Absent}
             r == [session |-> u, todo |-> present, size |-> meta[u],
                   sniffed |-> FALSE, blob |-> NoBlob]
  <2>1. Step(w, "listed", r) /\ UNCHANGED <<meta, parts>> /\ present # {} /\ r.session = u
    BY <1>3, CompleteArrivesEffect DEF disk
  <2>2. sent[u] # {}
    BY <2>1 DEF CInv
  <2> HIDE DEF r
  <2>3. /\ pc'[w] = "listed" /\ req'[w].session = u
        /\ \A v \in Workers : v # w => pc'[v] = pc[v] /\ req'[v] = req[v]
    BY <2>1, StepEffect DEF TInv
  <2>4. asked' = asked \cup {u} /\ sent' = sent /\ "listed" \notin Chunking
    BY <1>3 DEF CompleteArrives, Chunking
  <2> QED
    BY <2>1, <2>2, <2>3, <2>4 DEF CInv
<1>4. ASSUME NEW w \in Workers, Writes(w) PROVE CInv'
  <2> DEFINE u == req[w].session
             i == req[w].index
  <2>1. /\ pc[w] \in Chunking
        /\ \/ \E l \in {"opened", "half"} : Step(w, l, req[w])
           \/ Step(w, "idle", Idle)
        /\ UNCHANGED <<meta, client>>
    BY <1>4, WritesEffect
  <2>2. \A v \in Sessions, j \in Index : v # u \/ j # i => parts'[v][j] = parts[v][j]
    BY <1>4, WritesPart
  <2>3. i \in sent[u]
    BY <2>1 DEF CInv
  <2>4. UNCHANGED <<sent, asked>>
    BY <2>1 DEF client
  <2>5. \A v \in Workers :
           /\ pc'[v] \in Chunking => pc[v] \in Chunking /\ req'[v] = req[v]
           /\ pc'[v] \in Completing => pc[v] \in Completing /\ req'[v] = req[v]
    <3>1. \A v \in Workers : v # w => pc'[v] = pc[v] /\ req'[v] = req[v]
      BY <2>1, StepEffect DEF TInv
    <3>2. \/ pc'[w] \in {"opened", "half"} /\ req'[w] = req[w]
          \/ pc'[w] = "idle"
      BY <2>1, StepEffect DEF TInv
    <3> QED
      BY <2>1, <3>1, <3>2 DEF Chunking, Completing
  <2> HIDE DEF u, i
  <2> QED
    BY <2>1, <2>2, <2>3, <2>4, <2>5 DEF CInv, u, i
<1>5. ASSUME NEW w \in Workers, Gives(w) \/ Drops(w) PROVE CInv'
  <2>1. Step(w, "idle", Idle) /\ UNCHANGED <<meta, parts, client>>
    BY <1>5, GivesEffect, DropsEffect DEF disk
  <2> QED
    BY <2>1, OneHandlerKeepsSessions DEF client
<1>6. ASSUME NEW w \in Workers, Sniff(w) PROVE CInv'
  <2> DEFINE x == FirstPart(req[w].todo) = 0 /\ 1 \in parts[req[w].session][FirstPart(req[w].todo)]
             q == [req[w] EXCEPT !.sniffed = x]
  <2>1. /\ pc[w] = "listed" /\ req[w] \in CompleteRequest /\ Step(w, "sniffed", q)
        /\ UNCHANGED <<disk, client>>
    BY <1>6, SniffEffect
  <2>2. x \in BOOLEAN
    OBVIOUS
  <2> HIDE DEF x
  <2>3. q.session = req[w].session
    BY <2>1, <2>2, WithSniffed
  <2> HIDE DEF q
  <2> QED
    BY <2>1, <2>3, OneHandlerKeepsSessions DEF client, disk, Completing
<1>7. ASSUME NEW w \in Workers, CreateFinal(w) PROVE CInv'
  <2>1. PICK b \in Blobs :
          /\ pc[w] = "sniffed" /\ req[w] \in CompleteRequest
          /\ Step(w, "merging", [req[w] EXCEPT !.blob = b])
          /\ UNCHANGED <<meta, parts, client>>
    BY <1>7, CreateFinalEffect
  <2>2. [req[w] EXCEPT !.blob = b].session = req[w].session
    BY <2>1, WithBlob
  <2> QED
    BY <2>1, <2>2, OneHandlerKeepsSessions DEF client, Completing
<1>8. ASSUME NEW w \in Workers, AppendPart(w) PROVE CInv'
  <2>1. PICK i \in Index :
          /\ pc[w] = "merging" /\ req[w] \in CompleteRequest
          /\ Step(w, "merging", [req[w] EXCEPT !.todo = req[w].todo \ {i}])
          /\ UNCHANGED <<meta, parts, client>>
    BY <1>8, AppendPartEffect
  <2>2. [req[w] EXCEPT !.todo = req[w].todo \ {i}].session = req[w].session
    <3>1. req[w].todo \ {i} \in SUBSET Index
      BY <2>1 DEF CompleteRequest
    <3> QED
      BY <2>1, <3>1, WithTodo
  <2> QED
    BY <2>1, <2>2, OneHandlerKeepsSessions DEF client, Completing
<1>9. ASSUME NEW w \in Workers, SizeOK(w) \/ InsertRow(w) PROVE CInv'
  <2>1. /\ pc[w] \in Completing /\ \E l \in Completing : Step(w, l, req[w])
        /\ UNCHANGED <<meta, parts, client>>
    BY <1>9, SizeOKEffect, InsertRowEffect DEF disk, Completing
  <2> QED
    BY <2>1, OneHandlerKeepsSessions DEF client
<1>10. ASSUME NEW w \in Workers, RemoveMeta(w) PROVE CInv'
  <2>1. /\ \A v \in Sessions : meta'[v] \in {meta[v], 0}
        /\ UNCHANGED <<parts, pc, req, sent, asked>>
    BY <1>10, RemoveMetaEffect DEF TInv, DiskOK, client
  <2> QED
    BY <2>1, QuietKeepsSessions
<1>11. ASSUME NEW w \in Workers, NEW i \in Index, RemovePart(w, i) PROVE CInv'
  <2>1. \A v \in Sessions, j \in Index : parts'[v][j] # Absent => parts[v][j] # Absent
    <3>1. req[w].session \in Sessions /\ parts' = [parts EXCEPT ![req[w].session][i] = Absent]
      BY <1>11, RemovePartEffect
    <3>2. \A v \in Sessions, j \in Index : parts'[v][j] \in {parts[v][j], Absent}
      BY <3>1 DEF TInv, DiskOK
    <3> QED
      BY <3>2
  <2>2. /\ UNCHANGED <<meta, pc, sent, asked>>
        /\ \A v \in Workers :
             \/ req'[v] = req[v]
             \/ req'[v].session = req[v].session /\ req'[v].index = req[v].index
    BY <1>11, RemovePartEffect DEF client
  <2> QED
    BY <2>1, <2>2, QuietKeepsSessions
<1>12. CASE Crash
  <2>1. /\ \A v \in Workers : pc'[v] = "idle"
        /\ UNCHANGED <<disk, client>>
    BY <1>12, CrashEffect
  <2> QED
    BY <2>1, QuietKeepsSessions DEF disk, client, Chunking, Completing
<1>13. CASE UNCHANGED vars
  BY <1>13, QuietKeepsSessions DEF vars, disk, client
<1> QED
  BY <1>1, <1>2, <1>3, <1>4, <1>5, <1>6, <1>7, <1>8, <1>9, <1>10, <1>11, <1>12, <1>13
     DEF Next, ChunkStep, CompleteStep, Gives, Writes, Drops

LEMMA SessionsHold == Spec => [](FInv /\ CInv)
<1>1. FInv => TInv
  BY DEF FInv
<1> QED
  BY <1>1, FilesInitially, FilesKept, SessionsInitially, SessionsKept, PTL DEF Spec

-----------------------------------------------------------------------------
(* Requests sent once                                                      *)

(* Parts written in order fill a file of their announced size only if all  *)
(* of them are there and whole.                                            *)
LEMMA FullSizeIsWhole ==
  ASSUME NEW size \in Sizes, NEW file \in [Index -> Content],
         \A i \in Index : file[i] \in Written,
         \A i \in Index : file[i] # Absent => i \in 0..(size - 1),
         SizeIs(file, size)
  PROVE  AllWhole(file, size)
<1> DEFINE P == (0..(size - 1)) \X Halves
<1>1. size \in Nat /\ size > 0 /\ 0..(size - 1) \subseteq Index
  BY ZeroIsIndex
<1>2. IsFiniteSet(0..(size - 1)) /\ Cardinality(0..(size - 1)) = size
  <2>1. 0 \in Int /\ size - 1 \in Int
    BY <1>1
  <2>2. IsFiniteSet(0..(size - 1))
        /\ Cardinality(0..(size - 1)) = IF 0 > size - 1 THEN 0 ELSE (size - 1) - 0 + 1
    BY <2>1, FS_Interval
  <2> QED
    BY <1>1, <2>2
<1>3. IsFiniteSet(Halves) /\ Cardinality(Halves) = 2
  <2>1. IsFiniteSet({1}) /\ Cardinality({1}) = 1
    BY FS_Singleton
  <2>2. /\ IsFiniteSet({1} \cup {2})
        /\ Cardinality({1} \cup {2}) = IF 2 \in {1} THEN Cardinality({1}) ELSE Cardinality({1}) + 1
    BY <2>1, FS_AddElement
  <2>3. {1} \cup {2} = Halves /\ 2 \notin {1}
    BY DEF Halves
  <2> QED
    BY <2>1, <2>2, <2>3
<1>4. IsFiniteSet(P) /\ Cardinality(P) = size * 2
  <2>1. \A S, T : IsFiniteSet(S) /\ IsFiniteSet(T) =>
          IsFiniteSet(S \X T) /\ Cardinality(S \X T) = Cardinality(S) * Cardinality(T)
    BY FS_Product
  <2>2. /\ IsFiniteSet(P)
        /\ Cardinality(P) = Cardinality(0..(size - 1)) * Cardinality(Halves)
    BY <1>2, <1>3, <2>1
  <2> QED
    BY <1>2, <1>3, <2>2
<1>5. ASSUME NEW p \in Bytes(file) PROVE p \in P
  <2>1. /\ p \in Index \X Halves
        /\ \E half \in file[p[1]] : p[2] <= half
    BY DEF Bytes
  <2>2. p[1] \in Index /\ p[2] \in Halves /\ p = <<p[1], p[2]>>
    BY <2>1
  <2>3. file[p[1]] # Absent
    BY <2>1, <2>2 DEF Absent, Halves
  <2> QED
    BY <2>2, <2>3
<1>6. Bytes(file) = P
  <2>1. Bytes(file) \in SUBSET P
    BY <1>5
  <2>2. Cardinality(P) = Cardinality(Bytes(file))
    BY <1>1, <1>4 DEF SizeIs
  <2> QED
    BY <1>4, <2>1, <2>2, FS_Subset
<1>7. ASSUME NEW i \in Index PROVE file[i] = IF i < size THEN Whole ELSE Absent
  <2>1. CASE i < size
    <3>1. <<i, 2>> \in P
      BY <1>1, <2>1, IndexType DEF Halves
    <3>2. \E half \in file[i] : 2 <= half
      BY <1>6, <3>1 DEF Bytes
    <3>3. file[i] = Whole
      BY <3>2 DEF Written, Absent, Whole, Halves
    <3> QED
      BY <2>1, <3>3
  <2>2. CASE ~(i < size)
    BY <1>1, <2>2, IndexType
  <2> QED
    BY <2>1, <2>2
<1> QED
  BY <1>7 DEF AllWhole

LEMMA Labels ==
  /\ "idle" \notin Chunking /\ "idle" \notin Completing
  /\ \A l \in Completing : l \notin Chunking
  /\ {"listed", "sniffed", "merging", "merged", "recorded"} \subseteq Completing
BY DEF Chunking, Completing

(* Nobody else has anything to do with the file a handler is merging.      *)
LEMMA OthersFiles ==
  ASSUME FInv, NEW w \in Workers, Merging(w), NEW v \in Workers, v # w,
         pc[v] \in {"merging", "merged", "recorded"}
  PROVE  req[v].blob # req[w].blob /\ req[v].blob \in Blobs
<1>1. req[v].blob \in Blobs
  BY RequestIs DEF FInv, TInv
<1>2. CASE Merging(v)
  BY <1>1, <1>2 DEF FInv, OneHandlerPerFile
<1>3. CASE pc[v] = "recorded"
  BY <1>1, <1>3 DEF FInv, FileOfHandler
<1> QED
  BY <1>2, <1>3 DEF Merging

(* A step of one handler that leaves the sessions alone: what remains is   *)
(* the handler's own request and the files shared.                         *)
LEMMA OneHandlerKeepsOnce ==
  ASSUME TInv, OInv, NEW w \in Workers, NEW label, NEW r, Step(w, label, r),
         UNCHANGED <<meta, parts, sent, asked, early>>,
         \/ label = "idle"
         \/ /\ label \in Completing /\ pc[w] \in Completing
            /\ r.session = req[w].session,
         \A v \in Workers : v # w /\ pc[v] \in {"merging", "merged", "recorded"} =>
                            pieces'[req[v].blob] = pieces[req[v].blob],
         label # "idle" => MergeOnce(w)' /\ CompleteOnce(w)',
         cut \subseteq cut',
         pc[w] = "recorded" => Gone(req[w].session) \/ req[w].session \in cut',
         \/ rows' = rows
         \/ \A b \in Blobs : rows'[b] = rows[b] \/ AllArrived(rows'[b].session),
         \A b \in Blobs : SharedOnce(b)'
  PROVE  OInv'
<1>1. /\ pc'[w] = label /\ req'[w] = r
      /\ \A v \in Workers : v # w => pc'[v] = pc[v] /\ req'[v] = req[v]
  BY StepEffect DEF TInv
<1>2. \A v \in Workers :
        /\ pc'[v] \in Chunking => v # w /\ pc[v] \in Chunking /\ req'[v] = req[v]
        /\ pc'[v] \in Completing => pc[v] \in Completing /\ req'[v].session = req[v].session
  BY <1>1, Labels
<1>3. ASSUME NEW v \in Workers PROVE ChunkOnce(v)' /\ MergeOnce(v)' /\ CompleteOnce(v)'
  <2>1. ChunkOnce(v) /\ MergeOnce(v) /\ CompleteOnce(v)
    BY DEF OInv
  <2>2. ChunkOnce(v)'
    BY <1>1, <1>2, <2>1 DEF ChunkOnce
  <2>3. CASE v = w /\ label = "idle"
    BY <1>1, <2>2, <2>3, Labels DEF MergeOnce, CompleteOnce
  <2>4. CASE v = w /\ label # "idle"
    BY <2>2, <2>4
  <2>5. CASE v # w
    <3>1. pc'[v] = pc[v] /\ req'[v] = req[v]
      BY <1>1, <2>5
    <3>2. pc[v] \in {"merging", "merged", "recorded"} => pieces'[req[v].blob] = pieces[req[v].blob]
      BY <2>5
    <3>3. MergeOnce(v)'
      BY <2>1, <3>1, <3>2 DEF MergeOnce
    <3>4. CompleteOnce(v)'
      BY <2>1, <3>1, <3>2 DEF CompleteOnce
    <3> QED
      BY <2>2, <3>3, <3>4
  <2> QED
    BY <2>3, <2>4, <2>5
<1>4. AlonePerPart' /\ AlonePerSession'
  BY <1>2 DEF OInv, AlonePerPart, AlonePerSession
<1>5. ASSUME NEW u \in Sessions PROVE PartsOnce(u)'
  <2>1. ASSUME meta[u] = 0, parts[u] # Nothing, u \notin cut' PROVE BeingRemoved(u)'
    <3>1. PICK v \in Workers : pc[v] = "recorded" /\ req[v].session = u
      BY <2>1 DEF OInv, PartsOnce, BeingRemoved
    <3>2. v # w
      BY <2>1, <3>1 DEF Gone
    <3> QED
      BY <1>1, <3>1, <3>2 DEF BeingRemoved
  <2> QED
    BY <2>1 DEF OInv, PartsOnce
<1>6. ASSUME NEW u \in Sessions PROVE Settled(u)'
  <2>1. AllArrived(u) => AllArrived(u)'
    BY <1>2 DEF AllArrived
  <2>2. SharedFrom(u)' => SharedFrom(u) \/ AllArrived(u)
    BY DEF SharedFrom
  <2> QED
    BY <2>1, <2>2 DEF OInv, Settled
<1> QED
  BY <1>3, <1>4, <1>5, <1>6 DEF OInv

LEMMA OnceInitially == Init => OInv
<1> SUFFICES ASSUME Init PROVE OInv
  OBVIOUS
<1>1. \A w \in Workers : pc[w] = "idle"
  BY DEF Init
<1>2. \A w \in Workers : ChunkOnce(w) /\ MergeOnce(w) /\ CompleteOnce(w)
  BY <1>1, Labels DEF ChunkOnce, MergeOnce, CompleteOnce
<1>3. \A u \in Sessions : PartsOnce(u) /\ Settled(u)
  BY DEF Init, PartsOnce, Settled, SharedFrom, Nothing, Written
<1>4. \A b \in Blobs : SharedOnce(b)
  BY DEF Init, SharedOnce
<1> QED
  BY <1>1, <1>2, <1>3, <1>4, Labels DEF OInv, AlonePerPart, AlonePerSession

(* A new session is unknown to everyone.                                   *)
LEMMA OnceByStart ==
  ASSUME TInv, CInv, OInv, NEW w \in Workers, NEW u \in Sessions, Start(w, u)
  PROVE  OInv'
<1>1. /\ sent[u] = {} /\ meta[u] = 0
      /\ UNCHANGED <<parts, pieces, rows, pc, req, sent, asked, early, cut>>
      /\ \A s \in Sessions : s # u => meta'[s] = meta[s]
  BY DEF Start, client, TInv, DiskOK
<1>2. /\ \A v \in Workers : pc[v] \in Chunking \/ pc[v] \in Completing =>
           req[v].session # u /\ req[v].session \in Sessions
      /\ u \notin asked
  <2>1. u \notin asked
    BY <1>1 DEF CInv
  <2>2. ASSUME NEW v \in Workers, pc[v] \in Chunking
        PROVE  req[v].session # u /\ req[v].session \in Sessions
    BY <1>1, <2>2, RequestIs DEF CInv, ChunkRequest, TInv
  <2>3. ASSUME NEW v \in Workers, pc[v] \in Completing
        PROVE  req[v].session # u /\ req[v].session \in Sessions
    BY <2>1, <2>3, RequestIs DEF CInv, CompleteRequest, TInv
  <2> QED
    BY <2>1, <2>2, <2>3
<1>3. ASSUME NEW v \in Workers PROVE ChunkOnce(v)' /\ MergeOnce(v)' /\ CompleteOnce(v)'
  <2>1. ChunkOnce(v) /\ MergeOnce(v) /\ CompleteOnce(v)
    BY DEF OInv
  <2>2. ChunkOnce(v)'
    BY <1>1, <1>2, <2>1 DEF ChunkOnce
  <2>3. MergeOnce(v)'
    BY <1>1, <2>1 DEF MergeOnce
  <2>4. CompleteOnce(v)'
    BY <1>1, <1>2, <2>1, Labels DEF CompleteOnce
  <2> QED
    BY <2>2, <2>3, <2>4
<1>4. AlonePerPart' /\ AlonePerSession'
  BY <1>1 DEF OInv, AlonePerPart, AlonePerSession
<1>5. ASSUME NEW s \in Sessions PROVE PartsOnce(s)' /\ Settled(s)'
  <2>1. PartsOnce(s) /\ Settled(s)
    BY DEF OInv
  <2>2. PartsOnce(s)'
    BY <1>1, <1>2, <2>1 DEF PartsOnce, BeingRemoved
  <2>3. Settled(s)'
    <3>1. CASE s = u
      <4>1. ~AllArrived(u)
        BY <1>1 DEF AllArrived
      <4>2. ~(u \in asked \ early \/ SharedFrom(u))
        BY <2>1, <3>1, <4>1 DEF Settled
      <4> QED
        BY <1>1, <3>1, <4>2 DEF Settled, SharedFrom
    <3>2. CASE s # u
      BY <1>1, <2>1, <3>2 DEF Settled, AllArrived, SharedFrom
    <3> QED
      BY <3>1, <3>2
  <2> QED
    BY <2>2, <2>3
<1>6. \A b \in Blobs : SharedOnce(b)'
  BY <1>1 DEF OInv, SharedOnce
<1> QED
  BY <1>3, <1>4, <1>5, <1>6 DEF OInv

(* A chunk sent for the first time: no handler has anything of it yet.     *)
LEMMA OnceByChunkArrives ==
  ASSUME TInv, CInv, OInv, NEW w \in Workers, NEW u \in Sessions, NEW i \in Index,
         ChunkArrives(w, u, i), resends' = 0
  PROVE  OInv'
<1>1. /\ Step(w, "admitted", [session |-> u, index |-> i, live |-> TRUE])
      /\ UNCHANGED disk
  BY ChunkArrivesEffect
<1>2. /\ pc'[w] = "admitted" /\ req'[w].session = u /\ req'[w].index = i /\ req'[w].live
      /\ \A v \in Workers : v # w => pc'[v] = pc[v] /\ req'[v] = req[v]
  BY <1>1, StepEffect DEF TInv
<1>3. /\ sent' = [sent EXCEPT ![u] = sent[u] \cup {i}]
      /\ UNCHANGED <<asked, early, meta, parts, pieces, rows, cut>>
      /\ meta[u] # 0 /\ i < meta[u] /\ i \notin sent[u] /\ pc[w] = "idle"
  <2>1. resends \in Nat /\ resends' = IF i \notin sent[u] THEN resends ELSE resends + 1
    BY BoundsAssumption DEF ChunkArrives, Send, TInv, HistoryOK
  <2>2. i \notin sent[u]
    BY <2>1
  <2> QED
    BY <1>1, <2>2 DEF ChunkArrives, disk
<1>4. \A s \in Sessions : sent[s] \subseteq sent'[s] /\ (s # u => sent'[s] = sent[s])
  BY <1>3 DEF TInv, HistoryOK
<1>5. parts[u][i] = Absent
  BY <1>3 DEF CInv
<1>6. \A v \in Workers : pc[v] \in Chunking => req[v].session # u \/ req[v].index # i
  BY <1>3 DEF CInv
<1>7. ~(u \in asked \ early \/ SharedFrom(u))
  <2> SUFFICES ASSUME AllArrived(u) PROVE FALSE
    BY DEF OInv, Settled
  <2>1. sent[u] = 0..(meta[u] - 1)
    BY <1>3 DEF AllArrived
  <2>2. i \in Nat /\ meta[u] \in Nat
    BY <1>3, IndexType, SizesAssumption DEF TInv, DiskOK
  <2> QED
    BY <1>3, <2>1, <2>2
<1>8. "admitted" \in Chunking /\ "admitted" \notin Completing
  BY DEF Chunking, Completing
<1>9. ASSUME NEW v \in Workers PROVE ChunkOnce(v)' /\ MergeOnce(v)' /\ CompleteOnce(v)'
  <2>1. ChunkOnce(v) /\ MergeOnce(v) /\ CompleteOnce(v)
    BY DEF OInv
  <2>2. CASE v = w
    BY <1>2, <1>3, <1>5, <1>8, <2>2, Labels DEF ChunkOnce, MergeOnce, CompleteOnce
  <2>3. CASE v # w
    <3>1. pc'[v] = pc[v] /\ req'[v] = req[v]
      BY <1>2, <2>3
    <3>2. ChunkOnce(v)'
      BY <1>3, <2>1, <3>1 DEF ChunkOnce
    <3>3. MergeOnce(v)'
      <4>1. pc[v] \in {"merging", "merged", "recorded"} => req[v].session \in Sessions
        BY RequestIs, Labels DEF TInv, CompleteRequest
      <4> QED
        BY <1>3, <1>4, <2>1, <3>1, <4>1 DEF MergeOnce
    <3>4. CompleteOnce(v)'
      BY <1>3, <2>1, <3>1 DEF CompleteOnce
    <3> QED
      BY <3>2, <3>3, <3>4
  <2> QED
    BY <2>2, <2>3
<1>10. AlonePerPart' /\ AlonePerSession'
  BY <1>2, <1>6, <1>8 DEF OInv, AlonePerPart, AlonePerSession
<1>11. ASSUME NEW s \in Sessions PROVE PartsOnce(s)' /\ Settled(s)'
  <2>1. PartsOnce(s) /\ Settled(s)
    BY DEF OInv
  <2>2. PartsOnce(s)'
    <3>1. BeingRemoved(s) => BeingRemoved(s)'
      BY <1>2, <1>3 DEF BeingRemoved
    <3> QED
      BY <1>3, <2>1, <3>1 DEF PartsOnce
  <2>3. Settled(s)'
    <3>1. s \in asked \ early \/ SharedFrom(s) => s # u /\ AllArrived(s)
      BY <1>7, <2>1 DEF Settled
    <3>2. s # u /\ AllArrived(s) => AllArrived(s)'
      BY <1>2, <1>3, <1>4 DEF AllArrived
    <3> QED
      BY <1>3, <3>1, <3>2 DEF Settled, SharedFrom
  <2> QED
    BY <2>2, <2>3
<1>12. \A b \in Blobs : SharedOnce(b)'
  BY <1>3 DEF OInv, SharedOnce
<1> QED
  BY <1>9, <1>10, <1>11, <1>12 DEF OInv

(* Completion asked for the first time.                                    *)
LEMMA OnceByCompleteArrives ==
  ASSUME TInv, CInv, OInv, NEW w \in Workers, NEW u \in Sessions,
         CompleteArrives(w, u), resends' = 0
  PROVE  OInv'
<1> DEFINE present == {i \in Index : parts[u][i] # Absent}
           r == [session |-> u, todo |-> present, size |-> meta[u],
                 sniffed |-> FALSE, blob |-> NoBlob]
<1>1. Step(w, "listed", r) /\ UNCHANGED disk
  BY CompleteArrivesEffect
<1>2. r.session = u /\ r.size = meta[u] /\ (parts[u][0] # Absent => 0 \in r.todo)
  BY ZeroIsIndex
<1> HIDE DEF r
<1>3. /\ pc'[w] = "listed" /\ req'[w] = r
      /\ \A v \in Workers : v # w => pc'[v] = pc[v] /\ req'[v] = req[v]
  BY <1>1, StepEffect DEF TInv
<1>4. /\ asked' = asked \cup {u}
      /\ early' = IF Waiting(u) THEN early \cup {u} ELSE early
      /\ UNCHANGED <<sent, meta, parts, pieces, rows, cut>>
      /\ u \notin asked /\ pc[w] = "idle" /\ meta[u] \in Sizes
  <2>1. resends \in Nat /\ resends' = IF u \notin asked THEN resends ELSE resends + 1
    BY BoundsAssumption DEF CompleteArrives, Send, TInv, HistoryOK
  <2>2. u \notin asked
    BY <2>1
  <2>3. meta[u] \in Sizes
    BY CompleteArrivesEffect
  <2> QED
    BY <1>1, <2>2, <2>3 DEF CompleteArrives, disk
<1>5. early \subseteq early'
  BY <1>4
<1>6. \A v \in Workers : pc'[v] \in Chunking => v # w /\ pc[v] \in Chunking /\ req'[v] = req[v]
  BY <1>3 DEF Chunking
<1>7. ASSUME NEW v \in Workers PROVE ChunkOnce(v)' /\ MergeOnce(v)' /\ CompleteOnce(v)'
  <2>1. ChunkOnce(v) /\ MergeOnce(v) /\ CompleteOnce(v)
    BY DEF OInv
  <2>2. ChunkOnce(v)'
    BY <1>3, <1>4, <1>6, <2>1 DEF ChunkOnce
  <2>3. CASE v = w
    BY <1>2, <1>3, <1>4, <2>2, <2>3 DEF MergeOnce, CompleteOnce
  <2>4. CASE v # w
    <3>1. pc'[v] = pc[v] /\ req'[v] = req[v]
      BY <1>3, <2>4
    <3>2. MergeOnce(v)'
      BY <1>4, <2>1, <3>1 DEF MergeOnce
    <3>3. CompleteOnce(v)'
      BY <1>4, <1>5, <2>1, <3>1 DEF CompleteOnce
    <3> QED
      BY <2>2, <3>2, <3>3
  <2> QED
    BY <2>3, <2>4
<1>8. AlonePerPart'
  BY <1>6 DEF OInv, AlonePerPart
<1>9. AlonePerSession'
  <2>1. \A v \in Workers : v # w /\ pc[v] \in Completing => req[v].session # u
    BY <1>4 DEF CInv
  <2> QED
    BY <1>2, <1>3, <2>1 DEF OInv, AlonePerSession
<1>10. ASSUME NEW s \in Sessions PROVE PartsOnce(s)' /\ Settled(s)'
  <2>1. PartsOnce(s) /\ Settled(s)
    BY DEF OInv
  <2>2. PartsOnce(s)'
    <3>1. BeingRemoved(s) => BeingRemoved(s)'
      BY <1>3, <1>4 DEF BeingRemoved
    <3> QED
      BY <1>4, <2>1, <3>1 DEF PartsOnce
  <2>3. AllArrived(s) => AllArrived(s)'
    BY <1>4, <1>6 DEF AllArrived
  <2>4. s = u /\ ~Waiting(u) => AllArrived(s)
    <3>1. 0 \in 0..(meta[u] - 1)
      BY <1>4, ZeroIsIndex
    <3> QED
      BY <3>1 DEF AllArrived, Waiting
  <2>5. s \in asked' \ early' => s \in asked \ early \/ (s = u /\ ~Waiting(u))
    BY <1>4
  <2>6. Settled(s)'
    BY <1>4, <2>1, <2>3, <2>4, <2>5 DEF Settled, SharedFrom
  <2> QED
    BY <2>2, <2>6
<1>11. \A b \in Blobs : SharedOnce(b)'
  BY <1>4, <1>5 DEF OInv, SharedOnce
<1> QED
  BY <1>7, <1>8, <1>9, <1>10, <1>11 DEF OInv

(* A handler writes the part it is alone with, and not one that a client   *)
(* who waited is merging.                                                  *)
LEMMA OnceByWrites ==
  ASSUME TInv, CInv, OInv, NEW w \in Workers, Writes(w)
  PROVE  OInv'
<1> DEFINE u == req[w].session
           i == req[w].index
<1>1. /\ pc[w] \in {"admitted", "opened", "half"}
      /\ \/ pc[w] = "admitted" /\ pc'[w] = "opened" /\ req'[w] = req[w]
         \/ pc[w] = "opened" /\ pc'[w] = "half" /\ req'[w] = req[w]
         \/ pc[w] = "half" /\ pc'[w] = "idle" /\ req'[w] = Idle
      /\ \A v \in Workers : v # w => pc'[v] = pc[v] /\ req'[v] = req[v]
      /\ UNCHANGED <<meta, pieces, rows, sent, asked, early, cut>>
  BY WritesEffect, StepEffect DEF TInv, Chunking, client
<1>2. /\ u \in Sessions /\ i \in Index
      /\ \A v \in Sessions, j \in Index : v # u \/ j # i => parts'[v][j] = parts[v][j]
      /\ parts' \in [Sessions -> [Index -> Content]]
  BY WritesPart
<1>3. /\ req[w].live /\ meta[u] # 0
      /\ pc[w] = "admitted" => parts[u][i] = Absent
      /\ pc[w] = "opened" => parts[u][i] = {}
      /\ pc[w] = "half" => parts[u][i] = {1}
  BY <1>1 DEF OInv, ChunkOnce, Chunking
<1>4. /\ pc[w] = "admitted" => parts'[u][i] = {}
      /\ pc[w] = "opened" => parts'[u][i] = {1}
      /\ pc[w] = "half" => parts'[u][i] = Whole
  <2>1. /\ pc[w] = "admitted" => parts'[u][i] = {}
        /\ pc[w] = "opened" => parts'[u][i] = {} \cup {1}
        /\ pc[w] = "half" => parts'[u][i] = {1} \cup {2}
    BY <1>3, WritesPart
  <2> QED
    BY <2>1 DEF Whole, Halves
<1>5. u \notin asked \ early
  BY <1>1, <1>2 DEF OInv, Settled, AllArrived, Chunking
<1>6. parts[u][i] # Whole
  BY <1>1, <1>3 DEF Whole, Halves, Absent
<1>7. \A v \in Workers : pc'[v] \in Chunking => pc[v] \in Chunking /\ req'[v] = req[v]
  BY <1>1 DEF Chunking
<1> HIDE DEF u, i
<1>8. ASSUME NEW v \in Workers PROVE ChunkOnce(v)' /\ MergeOnce(v)' /\ CompleteOnce(v)'
  <2>1. ChunkOnce(v) /\ MergeOnce(v) /\ CompleteOnce(v)
    BY DEF OInv
  <2>2. CASE v = w
    <3>1. MergeOnce(v)' /\ CompleteOnce(v)'
      BY <1>1, <2>2 DEF MergeOnce, CompleteOnce, Completing
    <3>2. ChunkOnce(v)'
      BY <1>1, <1>3, <1>4, <2>2, Labels DEF ChunkOnce, u, i
    <3> QED
      BY <3>1, <3>2
  <2>3. CASE v # w
    <3>1. pc'[v] = pc[v] /\ req'[v] = req[v]
      BY <1>1, <2>3
    <3>2. ChunkOnce(v)'
      <4> SUFFICES ASSUME pc[v] \in Chunking PROVE ChunkOnce(v)'
        BY <3>1 DEF ChunkOnce
      <4>1. req[v].session # u \/ req[v].index # i
        BY <1>1, <2>3 DEF OInv, AlonePerPart, Chunking, u, i
      <4>2. req[v].session \in Sessions /\ req[v].index \in Index
        BY RequestIs DEF TInv, ChunkRequest
      <4>3. parts'[req[v].session][req[v].index] = parts[req[v].session][req[v].index]
        BY <1>2, <4>1, <4>2
      <4> QED
        BY <1>1, <2>1, <3>1, <4>3 DEF ChunkOnce
    <3>3. MergeOnce(v)'
      <4> SUFFICES ASSUME pc[v] \in {"merging", "merged"}, NEW j \in Index,
                          pieces[req[v].blob][j] = Whole
                   PROVE  parts'[req[v].session][j] = Whole
        BY <1>1, <2>1, <3>1 DEF MergeOnce
      <4>1. parts[req[v].session][j] = Whole /\ req[v].session \in Sessions
        BY <2>1, RequestIs, Labels DEF TInv, CompleteRequest, MergeOnce
      <4>2. req[v].session # u \/ j # i
        BY <1>6, <4>1
      <4> QED
        BY <1>2, <4>1, <4>2
    <3>4. CompleteOnce(v)'
      <4> SUFFICES ASSUME pc[v] \in Completing PROVE CompleteOnce(v)'
        BY <3>1, Labels DEF CompleteOnce
      <4>1. req[v].session \in asked /\ req[v].session \in Sessions
        BY RequestIs DEF TInv, CompleteRequest, CInv
      <4>2. req[v].session \notin early => parts'[req[v].session][0] = parts[req[v].session][0]
        BY <1>2, <1>5, <4>1, ZeroIsIndex
      <4> QED
        BY <1>1, <2>1, <3>1, <4>2 DEF CompleteOnce
    <3> QED
      BY <3>2, <3>3, <3>4
  <2> QED
    BY <2>2, <2>3
<1>9. AlonePerPart'
  BY <1>7 DEF OInv, AlonePerPart
<1>10. AlonePerSession'
  <2>1. \A v \in Workers : pc'[v] \in Completing => pc[v] \in Completing /\ req'[v] = req[v]
    BY <1>1 DEF Completing
  <2> QED
    BY <2>1 DEF OInv, AlonePerSession
<1>11. ASSUME NEW s \in Sessions PROVE PartsOnce(s)' /\ Settled(s)'
  <2>1. PartsOnce(s) /\ Settled(s)
    BY DEF OInv
  <2>2. Settled(s)'
    BY <1>1, <1>7, <2>1 DEF Settled, AllArrived, SharedFrom
  <2>3. PartsOnce(s)'
    <3>1. ASSUME NEW j \in Index PROVE parts'[s][j] \in Written
      <4>1. CASE s = u /\ j = i
        BY <1>1, <1>4, <4>1 DEF Written
      <4>2. CASE s # u \/ j # i
        BY <1>2, <2>1, <4>2 DEF PartsOnce
      <4> QED
        BY <4>1, <4>2
    <3>2. ASSUME meta'[s] = 0, s \notin cut', ~BeingRemoved(s)' PROVE parts'[s] = Nothing
      <4>1. s # u /\ meta[s] = 0
        BY <1>1, <1>3, <3>2
      <4>2. parts[s] = Nothing
        <5>1. ~BeingRemoved(s)
          BY <1>1, <3>2 DEF BeingRemoved
        <5> QED
          BY <1>1, <2>1, <3>2, <4>1, <5>1 DEF PartsOnce
      <4>3. \A j \in Index : parts'[s][j] = parts[s][j]
        BY <1>2, <4>1
      <4>4. parts'[s] \in [Index -> Content] /\ parts[s] \in [Index -> Content]
        BY <1>2 DEF TInv, DiskOK
      <4>5. parts'[s] = parts[s]
        BY <4>3, <4>4
      <4> QED
        BY <4>2, <4>5
    <3> QED
      BY <3>1, <3>2 DEF PartsOnce
  <2> QED
    BY <2>2, <2>3
<1>12. \A b \in Blobs : SharedOnce(b)'
  BY <1>1 DEF OInv, SharedOnce
<1> QED
  BY <1>8, <1>9, <1>10, <1>11, <1>12 DEF OInv

(* Chunk 0, when it is there, is the first part listed.                    *)
LEMMA OnceBySniff ==
  ASSUME TInv, OInv, NEW w \in Workers, Sniff(w)
  PROVE  OInv'
<1> DEFINE i == FirstPart(req[w].todo)
           x == (i = 0 /\ 1 \in parts[req[w].session][i])
           q == [req[w] EXCEPT !.sniffed = x]
<1>1. /\ pc[w] = "listed" /\ req[w] \in CompleteRequest
      /\ Step(w, "sniffed", q)
      /\ UNCHANGED <<disk, client, cut>>
  BY SniffEffect
<1>2. /\ q.session = req[w].session /\ q.size = req[w].size /\ q.sniffed = x
  <2>1. x \in BOOLEAN
    OBVIOUS
  <2> HIDE DEF x
  <2> QED
    BY <1>1, <2>1, WithSniffed
<1>3. pc'[w] = "sniffed" /\ req'[w] = q
  BY <1>1, StepEffect DEF TInv
<1>4. ASSUME req[w].session \notin early, 1 \in parts[req[w].session][0]
      PROVE  x
  <2>1. 0 \in req[w].todo /\ req[w].todo \subseteq Nat
    <3>1. parts[req[w].session][0] # Absent
      BY <1>4 DEF Absent
    <3>2. 0 \in req[w].todo
      BY <1>1, <1>4, <3>1, Labels DEF OInv, CompleteOnce, Completing
    <3> QED
      BY <1>1, <3>2, IndexType DEF CompleteRequest
  <2>2. i \in Nat /\ i <= 0
    BY <2>1, MinIsLeast DEF FirstPart
  <2>3. i = 0
    BY <2>2
  <2> QED
    BY <1>4, <2>3
<1> HIDE DEF x, q
<1>5. CompleteOnce(w)'
  <2>1. meta[req[w].session] = req[w].size
    BY <1>1 DEF OInv, CompleteOnce, Completing
  <2> QED
    BY <1>1, <1>2, <1>3, <1>4, <2>1 DEF CompleteOnce, disk, client
<1>6. MergeOnce(w)'
  BY <1>3 DEF MergeOnce
<1>7. \A b \in Blobs : SharedOnce(b)'
  BY <1>1 DEF OInv, SharedOnce, disk, client
<1> QED
  BY <1>1, <1>2, <1>5, <1>6, <1>7, OneHandlerKeepsOnce DEF disk, client, Completing

LEMMA OnceByCreateFinal ==
  ASSUME FInv, OInv, NEW w \in Workers, CreateFinal(w)
  PROVE  OInv'
<1>1. PICK b \in Blobs \ stored :
        LET q == [req[w] EXCEPT !.blob = b]
        IN  /\ pc[w] = "sniffed" /\ req[w] \in CompleteRequest
            /\ Step(w, "merging", q)
            /\ UNCHANGED <<meta, parts, pieces, rows, client, cut>>
  BY CreateFinalEffect DEF FInv
<1> DEFINE q == [req[w] EXCEPT !.blob = b]
<1>2. /\ q.session = req[w].session /\ q.size = req[w].size /\ q.sniffed = req[w].sniffed
      /\ q.blob = b
  BY <1>1, WithBlob
<1>3. pc'[w] = "merging" /\ req'[w] = q
  BY <1>1, StepEffect DEF FInv, TInv
<1>4. Step(w, "merging", q)
  BY <1>1
<1> HIDE DEF q
<1>5. pieces'[b] = Nothing
  BY <1>1 DEF FInv
<1>6. MergeOnce(w)'
  BY <1>2, <1>3, <1>5 DEF MergeOnce, Nothing, Written, Absent, Whole, Halves
<1>7. CompleteOnce(w)'
  <2>1. CompleteOnce(w)
    BY DEF OInv
  <2> QED
    BY <1>1, <1>2, <1>3, <2>1 DEF CompleteOnce, Completing, client
<1>8. \A c \in Blobs : SharedOnce(c)'
  BY <1>1 DEF OInv, SharedOnce, client
<1> QED
  BY <1>1, <1>2, <1>4, <1>6, <1>7, <1>8, OneHandlerKeepsOnce DEF FInv, client, Completing

(* What is copied was sent, was written in order, and is still there.      *)
LEMMA OnceByAppendPart ==
  ASSUME FInv, CInv, OInv, NEW w \in Workers, AppendPart(w)
  PROVE  OInv'
<1>1. PICK i \in Index :
        LET r == req[w]
            q == [r EXCEPT !.todo = r.todo \ {i}]
        IN  /\ pc[w] = "merging" /\ r \in CompleteRequest /\ r.blob \in Blobs
            /\ parts[r.session][i] # Absent
            /\ pieces' = [pieces EXCEPT ![r.blob][i] = parts[r.session][i]]
            /\ Step(w, "merging", q)
            /\ UNCHANGED <<meta, parts, rows, client, cut>>
  BY AppendPartEffect DEF FInv
<1> DEFINE r == req[w]
           u == r.session
           q == [r EXCEPT !.todo = r.todo \ {i}]
<1>2. /\ q.session = u /\ q.size = r.size /\ q.sniffed = r.sniffed /\ q.blob = r.blob
      /\ u \in Sessions
  <2>1. r.todo \ {i} \in SUBSET Index /\ u \in Sessions
    BY <1>1 DEF CompleteRequest
  <2> QED
    BY <1>1, <2>1, WithTodo
<1>3. Step(w, "merging", q) /\ Merging(w)
  BY <1>1 DEF Merging
<1> HIDE DEF q
<1>4. pc'[w] = "merging" /\ req'[w] = q
  BY <1>3, StepEffect DEF FInv, TInv
<1>5. /\ \A j \in Index : pieces'[r.blob][j] = IF j = i THEN parts[u][i] ELSE pieces[r.blob][j]
      /\ \A b \in Blobs : b # r.blob => pieces'[b] = pieces[b]
  BY <1>1 DEF FInv, TInv, DiskOK
<1>6. MergeOnce(w)'
  <2> SUFFICES ASSUME NEW j \in Index
               PROVE  /\ pieces'[r.blob][j] \in Written
                      /\ pieces'[r.blob][j] # Absent => j \in sent[u]
                      /\ pieces'[r.blob][j] = Whole => parts[u][j] = Whole
    BY <1>1, <1>2, <1>4 DEF MergeOnce, client
  <2>1. CASE j = i
    <3>1. parts[u][i] \in Written /\ i \in sent[u]
      BY <1>1, <1>2 DEF OInv, PartsOnce, CInv
    <3> QED
      BY <1>5, <2>1, <3>1
  <2>2. CASE j # i
    BY <1>1, <1>5, <2>2 DEF OInv, MergeOnce
  <2> QED
    BY <2>1, <2>2
<1>7. CompleteOnce(w)'
  <2>1. CompleteOnce(w)
    BY DEF OInv
  <2> QED
    BY <1>1, <1>2, <1>4, <2>1 DEF CompleteOnce, Completing, client
<1>8. ASSUME NEW b \in Blobs PROVE SharedOnce(b)'
  <2>1. SharedOnce(b) /\ rows' = rows /\ early' = early
    BY <1>1 DEF OInv, client
  <2>2. rows[b] # NoRow => pieces'[b] = pieces[b]
    BY <1>3, <1>5 DEF FInv, FileOfHandler
  <2> QED
    BY <2>1, <2>2 DEF SharedOnce
<1>9. \A v \in Workers : v # w /\ pc[v] \in {"merging", "merged", "recorded"} =>
                         pieces'[req[v].blob] = pieces[req[v].blob]
  BY <1>3, <1>5, OthersFiles
<1> QED
  BY <1>1, <1>2, <1>3, <1>6, <1>7, <1>8, <1>9, OneHandlerKeepsOnce DEF FInv, client, Completing

(* The size is right, so every part was whole when it was copied.          *)
LEMMA OnceBySizeOK ==
  ASSUME FInv, CInv, OInv, NEW w \in Workers, SizeOK(w)
  PROVE  OInv'
<1> DEFINE r == req[w]
<1>1. /\ pc[w] = "merging" /\ r \in CompleteRequest /\ r.blob \in Blobs
      /\ SizeIs(pieces[r.blob], r.size)
      /\ Step(w, "merged", r)
      /\ UNCHANGED <<disk, client, cut>>
  BY SizeOKEffect DEF FInv
<1>2. r.session \in Sessions /\ r.size \in Sizes /\ r.size # 0
  BY <1>1, ZeroIsIndex DEF CompleteRequest
<1>3. /\ MergeOnce(w) /\ CompleteOnce(w)
      /\ pc'[w] = "merged" /\ req'[w] = r
  BY <1>1, StepEffect DEF FInv, TInv, OInv
<1>4. AllWhole(pieces[r.blob], r.size)
  <2>1. meta[r.session] = r.size
    BY <1>1, <1>3 DEF CompleteOnce, Completing
  <2>2. sent[r.session] \subseteq 0..(r.size - 1)
    BY <1>2, <2>1 DEF CInv
  <2>3. \A i \in Index : /\ pieces[r.blob][i] \in Written
                         /\ pieces[r.blob][i] # Absent => i \in 0..(r.size - 1)
    BY <1>1, <1>3, <2>2 DEF MergeOnce
  <2>4. pieces[r.blob] \in [Index -> Content]
    BY <1>1 DEF FInv, TInv, DiskOK
  <2> QED
    BY <1>1, <1>2, <2>3, <2>4, FullSizeIsWhole
<1>5. MergeOnce(w)'
  BY <1>1, <1>3 DEF MergeOnce, disk, client
<1>6. CompleteOnce(w)'
  BY <1>1, <1>3, <1>4 DEF CompleteOnce, AllWhole, Completing, disk, client
<1>7. \A b \in Blobs : SharedOnce(b)'
  BY <1>1 DEF OInv, SharedOnce, AllWhole, disk, client
<1> QED
  BY <1>1, <1>5, <1>6, <1>7, OneHandlerKeepsOnce DEF FInv, disk, client, Completing

(* All parts that were merged are whole, so no handler is writing one and  *)
(* no chunk is still to be sent.                                           *)
LEMMA MergedHasArrived ==
  ASSUME TInv, CInv, OInv, NEW w \in Workers, pc[w] = "merged"
  PROVE  AllArrived(req[w].session)
<1> DEFINE r == req[w]
           u == r.session
<1>1. r \in CompleteRequest /\ u \in Sessions /\ r.size \in Sizes
  BY RequestIs, Labels DEF TInv, CompleteRequest
<1>2. /\ meta[u] = r.size /\ AllWhole(pieces[r.blob], r.size)
      /\ \A i \in Index : pieces[r.blob][i] = Whole => parts[u][i] = Whole
  BY DEF OInv, CompleteOnce, MergeOnce
<1>3. \A i \in Index : i < meta[u] => parts[u][i] = Whole
  BY <1>2 DEF AllWhole
<1>4. meta[u] \in Nat /\ meta[u] > 0 /\ 0..(meta[u] - 1) \subseteq Index
  BY <1>1, <1>2, ZeroIsIndex
<1>5. ASSUME NEW v \in Workers, pc[v] \in Chunking, req[v].session = u PROVE FALSE
  <2>1. /\ req[v].index \in sent[u] /\ req[v].index \in Index
        /\ parts[u][req[v].index] # Whole
    BY <1>5, RequestIs DEF TInv, ChunkRequest, OInv, ChunkOnce, CInv, Chunking, Whole, Absent,
                           Halves
  <2>2. req[v].index \in 0..(meta[u] - 1)
    BY <1>1, <1>4, <2>1 DEF CInv
  <2>3. req[v].index < meta[u]
    BY <1>4, <2>2
  <2> QED
    BY <1>3, <2>1, <2>3
<1>6. sent[u] = 0..(meta[u] - 1)
  <2>1. ASSUME NEW i \in 0..(meta[u] - 1) PROVE i \in sent[u]
    <3>1. i \in Index /\ i < meta[u]
      BY <1>4
    <3>2. parts[u][i] # Absent
      BY <1>3, <3>1 DEF Whole, Halves, Absent
    <3> QED
      BY <1>1, <3>1, <3>2 DEF CInv
  <2>2. sent[u] \subseteq 0..(meta[u] - 1)
    BY <1>1, <1>4 DEF CInv
  <2> QED
    BY <2>1, <2>2
<1>7. sent[u] # {}
  BY <1>4, <1>6
<1> QED
  BY <1>5, <1>6, <1>7 DEF AllArrived

(* The type was read from chunk 0 if it was there: it is, being whole.     *)
LEMMA OnceByInsertRow ==
  ASSUME FInv, CInv, OInv, NEW w \in Workers, InsertRow(w)
  PROVE  OInv'
<1> DEFINE r == req[w]
           row == [session |-> r.session, size |-> r.size, sniffed |-> r.sniffed]
<1>1. /\ pc[w] = "merged" /\ r \in CompleteRequest /\ r.blob \in Blobs
      /\ rows' = [rows EXCEPT ![r.blob] = row]
      /\ Step(w, "recorded", r)
      /\ UNCHANGED <<meta, parts, pieces, client, cut>>
  BY InsertRowEffect DEF FInv
<1>2. row.session = r.session /\ row.size = r.size /\ row.sniffed = r.sniffed
  OBVIOUS
<1> HIDE DEF row
<1>3. /\ MergeOnce(w) /\ CompleteOnce(w)
      /\ pc'[w] = "recorded" /\ req'[w] = r
  BY <1>1, StepEffect DEF FInv, TInv, OInv
<1>4. AllWhole(pieces[r.blob], r.size)
  BY <1>1, <1>3 DEF CompleteOnce, Completing
<1>5. r.session \notin early => r.sniffed
  <2>1. pieces[r.blob][0] = Whole
    BY <1>1, <1>4, ZeroIsIndex DEF AllWhole, CompleteRequest
  <2>2. parts[r.session][0] = Whole
    BY <1>1, <1>3, <2>1, ZeroIsIndex DEF MergeOnce
  <2>3. 1 \in parts[r.session][0]
    BY <2>2 DEF Whole, Halves
  <2> QED
    BY <1>1, <1>3, <2>3 DEF CompleteOnce, Completing
<1>6. MergeOnce(w)' /\ CompleteOnce(w)'
  BY <1>3 DEF MergeOnce, CompleteOnce
<1>7. AllArrived(r.session)
  BY <1>1, MergedHasArrived DEF FInv
<1>8. ASSUME NEW b \in Blobs PROVE SharedOnce(b)'
  <2>1. SharedOnce(b) /\ pieces' = pieces /\ early' = early
    BY <1>1 DEF OInv, client
  <2>2. rows'[b] = IF b = r.blob THEN row ELSE rows[b]
    BY <1>1 DEF FInv, TInv, DiskOK
  <2> QED
    BY <1>2, <1>4, <1>5, <2>1, <2>2 DEF SharedOnce, AllWhole
<1>9. \A b \in Blobs : rows'[b] = rows[b] \/ AllArrived(rows'[b].session)
  <2>1. \A b \in Blobs : rows'[b] = IF b = r.blob THEN row ELSE rows[b]
    BY <1>1 DEF FInv, TInv, DiskOK
  <2>2. AllArrived(row.session)
    BY <1>2, <1>7
  <2> QED
    BY <2>1, <2>2
<1> QED
  BY <1>1, <1>6, <1>8, <1>9, OneHandlerKeepsOnce DEF FInv, client, Completing

LEMMA OnceByEnding ==
  ASSUME FInv, OInv, NEW w \in Workers, Gives(w) \/ Drops(w)
  PROVE  OInv'
<1>1. /\ Step(w, "idle", Idle) /\ UNCHANGED <<meta, parts, rows, client>>
      /\ \/ pieces' = pieces
         \/ Merging(w) /\ pieces' = [pieces EXCEPT ![req[w].blob] = Nothing]
  BY GivesEffect, DropsEffect DEF FInv, disk
<1>4. /\ cut \subseteq cut'
      /\ pc[w] = "recorded" => Gone(req[w].session) \/ req[w].session \in cut'
  <2>1. CASE RemoveEnds(w) \/ RemoveFails(w)
    BY <2>1 DEF RemoveEnds, RemoveFails
  <2>2. CASE ~(RemoveEnds(w) \/ RemoveFails(w))
    BY <2>2 DEF Gives, Drops, ChunkFails, RefuseComplete, AppendFails, SizeMismatch, InsertFails,
                Chunking
  <2> QED
    BY <2>1, <2>2
<1>2. \A v \in Workers : v # w /\ pc[v] \in {"merging", "merged", "recorded"} =>
                         pieces'[req[v].blob] = pieces[req[v].blob]
  BY <1>1, OthersFiles DEF FInv, TInv, DiskOK
<1>3. ASSUME NEW b \in Blobs PROVE SharedOnce(b)'
  <2>1. SharedOnce(b) /\ rows' = rows /\ early' = early
    BY <1>1 DEF OInv, client
  <2>2. rows[b] # NoRow => pieces'[b] = pieces[b]
    BY <1>1 DEF FInv, FileOfHandler, TInv, DiskOK
  <2> QED
    BY <2>1, <2>2 DEF SharedOnce
<1> QED
  BY <1>1, <1>2, <1>3, <1>4, OneHandlerKeepsOnce DEF FInv, client

(* Nobody but the handler that removes it is at work on a merged session,  *)
(* and none of its chunks is still to come.                                *)
LEMMA RemovalIsAlone ==
  ASSUME FInv, OInv, NEW w \in Workers, pc[w] = "recorded"
  PROVE  LET u == req[w].session
         IN  /\ \A v \in Workers : pc[v] \in Chunking => req[v].session # u
             /\ \A v \in Workers : pc[v] \in Completing /\ v # w => req[v].session # u
<1> DEFINE u == req[w].session
<1>1. u \in Sessions
  BY RequestIs, Labels DEF FInv, TInv, CompleteRequest
<1>2. SharedFrom(u)
  BY DEF FInv, FileOfHandler, SharedFrom
<1>3. AllArrived(u)
  BY <1>1, <1>2 DEF OInv, Settled
<1> QED
  BY <1>3, Labels DEF AllArrived, OInv, AlonePerSession

(* A step of that handler on its session leaves the other sessions' alone. *)
LEMMA OnceByRemoval ==
  ASSUME FInv, OInv, NEW w \in Workers, pc[w] = "recorded",
         UNCHANGED <<pieces, rows, pc, sent, asked, early, cut>>,
         \A v \in Workers : pc[v] \notin Chunking \/ req[v].session # req[w].session =>
                            req'[v] = req[v],
         \A s \in Sessions : s # req[w].session => meta'[s] = meta[s] /\ parts'[s] = parts[s],
         meta'[req[w].session] \in {meta[req[w].session], 0},
         \A i \in Index : parts'[req[w].session][i] \in {parts[req[w].session][i], Absent}
  PROVE  OInv'
<1> DEFINE u == req[w].session
<1>1. /\ \A v \in Workers : pc[v] \in Chunking => req[v].session # u
      /\ \A v \in Workers : pc[v] \in Completing /\ v # w => req[v].session # u
  BY RemovalIsAlone
<1>2. req' = req \/ \A v \in Workers : req'[v] = req[v]
  BY <1>1
<1>3. \A v \in Workers : pc[v] \in Chunking \/ (pc[v] \in Completing /\ v # w) =>
        /\ req[v].session \in Sessions
        /\ meta'[req[v].session] = meta[req[v].session]
        /\ parts'[req[v].session] = parts[req[v].session]
  BY <1>1, RequestIs DEF FInv, TInv, ChunkRequest, CompleteRequest
<1>4. \A v \in Workers : req'[v] = req[v]
  BY <1>2
<1>5. u \in Sessions
  BY RequestIs, Labels DEF FInv, TInv, CompleteRequest
<1> HIDE DEF u
<1>6. ASSUME NEW v \in Workers PROVE ChunkOnce(v)' /\ MergeOnce(v)' /\ CompleteOnce(v)'
  <2>1. ChunkOnce(v) /\ MergeOnce(v) /\ CompleteOnce(v)
    BY DEF OInv
  <2>2. ChunkOnce(v)'
    BY <1>3, <1>4, <2>1 DEF ChunkOnce
  <2>3. MergeOnce(v)'
    BY <1>3, <1>4, <2>1, Labels DEF MergeOnce
  <2>4. CompleteOnce(v)'
    BY <1>3, <1>4, <2>1, Labels DEF CompleteOnce, Completing
  <2> QED
    BY <2>2, <2>3, <2>4
<1>7. AlonePerPart' /\ AlonePerSession'
  BY <1>4 DEF OInv, AlonePerPart, AlonePerSession
<1>8. ASSUME NEW s \in Sessions PROVE PartsOnce(s)' /\ Settled(s)'
  <2>1. PartsOnce(s) /\ Settled(s)
    BY DEF OInv
  <2>2. PartsOnce(s)'
    <3>1. BeingRemoved(s) => BeingRemoved(s)'
      BY <1>4 DEF BeingRemoved
    <3>2. s = u => BeingRemoved(s)'
      BY <1>4 DEF BeingRemoved, u
    <3>3. CASE s = u
      <4>1. \A i \in Index : parts'[s][i] \in Written
        BY <2>1, <3>3 DEF PartsOnce, Written, u
      <4> QED
        BY <3>2, <3>3, <4>1 DEF PartsOnce
    <3>4. CASE s # u
      BY <2>1, <3>1, <3>4 DEF PartsOnce, u
    <3> QED
      BY <3>3, <3>4
  <2>3. Settled(s)'
    <3>1. meta'[s] = meta[s] \/ meta'[s] = 0
      BY DEF u
    <3> QED
      BY <1>4, <2>1, <3>1 DEF Settled, AllArrived, SharedFrom
  <2> QED
    BY <2>2, <2>3
<1>9. \A b \in Blobs : SharedOnce(b)'
  BY DEF OInv, SharedOnce
<1> QED
  BY <1>6, <1>7, <1>8, <1>9 DEF OInv

LEMMA OnceByRemoveMeta ==
  ASSUME FInv, OInv, NEW w \in Workers, RemoveMeta(w)
  PROVE  OInv'
<1>1. /\ pc[w] = "recorded" /\ req[w].session \in Sessions
      /\ meta' = [meta EXCEPT ![req[w].session] = 0]
      /\ UNCHANGED <<parts, pieces, rows, pc, req, sent, asked, early, cut>>
  BY RemoveMetaEffect DEF FInv, client
<1>2. /\ \A s \in Sessions : s # req[w].session => meta'[s] = meta[s]
      /\ meta'[req[w].session] = 0
  BY <1>1 DEF FInv, TInv, DiskOK
<1> QED
  BY <1>1, <1>2, OnceByRemoval

LEMMA OnceByRemovePart ==
  ASSUME FInv, OInv, NEW w \in Workers, NEW i \in Index, RemovePart(w, i)
  PROVE  OInv'
<1>1. /\ pc[w] = "recorded" /\ req[w].session \in Sessions
      /\ parts' = [parts EXCEPT ![req[w].session][i] = Absent]
      /\ UNCHANGED <<meta, pieces, rows, pc, sent, asked, early, cut>>
  BY RemovePartEffect DEF FInv, client
<1>2. \A v \in Workers : pc[v] \notin Chunking \/ req[v].session # req[w].session =>
                         req'[v] = req[v]
  BY RemovePartEffect DEF FInv, Chunking
<1>3. /\ \A s \in Sessions : s # req[w].session => parts'[s] = parts[s]
      /\ \A j \in Index : parts'[req[w].session][j] \in {parts[req[w].session][j], Absent}
  BY <1>1 DEF FInv, TInv, DiskOK
<1> QED
  BY <1>1, <1>2, <1>3, OnceByRemoval

LEMMA OnceByCrash ==
  ASSUME TInv, OInv, Crash
  PROVE  OInv'
<1>1. /\ \A w \in Workers : pc'[w] = "idle"
      /\ UNCHANGED <<meta, parts, pieces, rows, sent, asked, early>>
  BY CrashEffect DEF disk, client
<1>2. \A w \in Workers : ChunkOnce(w)' /\ MergeOnce(w)' /\ CompleteOnce(w)'
  BY <1>1, Labels DEF ChunkOnce, MergeOnce, CompleteOnce
<1>3. AlonePerPart' /\ AlonePerSession'
  BY <1>1, Labels DEF AlonePerPart, AlonePerSession
<1>4. ASSUME NEW s \in Sessions PROVE PartsOnce(s)' /\ Settled(s)'
  <2>1. PartsOnce(s) /\ Settled(s)
    BY DEF OInv
  <2>2. BeingRemoved(s) \/ s \in cut => s \in cut'
    BY CrashEffect DEF BeingRemoved
  <2>3. PartsOnce(s)'
    BY <1>1, <2>1, <2>2 DEF PartsOnce
  <2>4. Settled(s)'
    BY <1>1, <2>1, Labels DEF Settled, AllArrived, SharedFrom
  <2> QED
    BY <2>3, <2>4
<1>5. \A b \in Blobs : SharedOnce(b)'
  BY <1>1 DEF OInv, SharedOnce
<1> QED
  BY <1>2, <1>3, <1>4, <1>5 DEF OInv

(* What was sent again stays counted.                                      *)
LEMMA ResendsOnlyGrow == TInv /\ [Next]_vars /\ resends' = 0 => resends = 0
<1> SUFFICES ASSUME TInv, [Next]_vars PROVE resends' = resends \/ resends' = resends + 1
  BY DEF TInv, HistoryOK
<1>1. ASSUME NEW w \in Workers, NEW u \in Sessions, Start(w, u) PROVE resends' = resends
  BY <1>1 DEF Start, client
<1>2. ASSUME NEW w \in Workers, NEW u \in Sessions, NEW i \in Index, ChunkArrives(w, u, i)
      PROVE  resends' = resends \/ resends' = resends + 1
  BY <1>2 DEF ChunkArrives, Send
<1>3. ASSUME NEW w \in Workers, NEW u \in Sessions, CompleteArrives(w, u)
      PROVE  resends' = resends \/ resends' = resends + 1
  BY <1>3 DEF CompleteArrives, Send
<1>4. ASSUME NEW w \in Workers, ChunkStep(w) PROVE resends' = resends
  BY <1>4 DEF ChunkStep, CreatePart, CopyFirstHalf, CopySecondHalf, ChunkFails, client
<1>5. ASSUME NEW w \in Workers, CompleteStep(w) PROVE resends' = resends
  BY <1>5 DEF CompleteStep, Sniff, RefuseComplete, CreateFinal, AppendPart, AppendFails,
              SizeOK, SizeMismatch, InsertRow, InsertFails, RemoveMeta, RemovePart, RemoveEnds,
              RemoveFails, client
<1>6. CASE Crash
  BY <1>6 DEF Crash, client
<1>7. CASE UNCHANGED vars
  BY <1>7 DEF vars, client
<1> QED
  BY <1>1, <1>2, <1>3, <1>4, <1>5, <1>6, <1>7 DEF Next

LEMMA OnceKept == FInv /\ CInv /\ Once /\ [Next]_vars => Once'
<1> SUFFICES ASSUME FInv, CInv, Once, [Next]_vars, resends' = 0 PROVE OInv'
  BY DEF Once
<1>1. TInv /\ OInv
  BY ResendsOnlyGrow DEF FInv, Once
<1>2. CASE UNCHANGED vars
  BY <1>1, <1>2 DEF vars, disk, client, OInv, ChunkOnce, MergeOnce, CompleteOnce, AlonePerPart,
     AlonePerSession, PartsOnce, BeingRemoved, Settled, AllArrived, SharedFrom, SharedOnce, AllWhole
<1> QED
  BY <1>1, <1>2, OnceByStart, OnceByChunkArrives, OnceByCompleteArrives, OnceByWrites,
     OnceBySniff, OnceByCreateFinal, OnceByAppendPart, OnceBySizeOK, OnceByInsertRow,
     OnceByEnding, OnceByRemoveMeta, OnceByRemovePart, OnceByCrash
     DEF Next, ChunkStep, CompleteStep, Writes, Gives, Drops

LEMMA OnceHolds == Spec => [](FInv /\ CInv /\ Once)
<1>1. FInv => TInv
  BY DEF FInv
<1>2. Init => Once
  BY OnceInitially DEF Once
<1> QED
  BY <1>1, <1>2, FilesInitially, FilesKept, SessionsInitially, SessionsKept, OnceKept, PTL
     DEF Spec

(* While every request is sent once, a shared file is whole, whatever the  *)
(* order and the timing of its chunks and of the request for completion.   *)
THEOREM FilesSentOnceAreComplete == Spec => []SharedIsComplete
<1>1. FInv /\ Once => SharedIsComplete
  BY DEF FInv, Once, OInv, SharedOnce, AllWhole, SharedIsComplete, Complete, SharedHasItsSize
<1> QED
  BY <1>1, OnceHolds, PTL

(* While every request is sent once, a part without meta.json is one that  *)
(* os.RemoveAll is at or gave up: no late chunk brings one up again.       *)
THEOREM PartsSentOnceHaveSession == Spec => []PartsHaveSession
<1>1. Once => PartsHaveSession
  BY DEF Once, OInv, PartsOnce, BeingRemoved, PartsHaveSession
<1> QED
  BY <1>1, OnceHolds, PTL

(* A client that sends everything once and waits for its chunks has the    *)
(* type of its file read from the beginning of the file.                   *)
THEOREM TypeIsReadFromFile == Spec => []TypeReadFromFile
<1>1. Once => TypeReadFromFile
  BY DEF Once, OInv, SharedOnce, TypeReadFromFile
<1> QED
  BY <1>1, OnceHolds, PTL

-----------------------------------------------------------------------------
(* The promise                                                             *)

LEMMA TicketsKept ==
  ASSUME \A v \in Workers :
           /\ MayShare(v)' <=> MayShare(v)
           /\ MayShare(v) => req'[v].session = req[v].session /\ req'[v].size = req[v].size
  PROVE  Ticket' = Ticket
BY DEF Ticket

(* A handler that stops gives its ticket up, the others keep theirs.       *)
LEMMA TicketsGivenUp ==
  ASSUME NEW H \in SUBSET Workers,
         \A h \in H : ~MayShare(h)',
         \A v \in Workers \ H :
           /\ MayShare(v)' <=> MayShare(v)
           /\ MayShare(v) => req'[v].session = req[v].session /\ req'[v].size = req[v].size
  PROVE  Ticket' = [v \in Workers |-> IF v \in H THEN NoSession ELSE Ticket[v]]
BY DEF Ticket

(* The same when one handler goes on with its request.                     *)
LEMMA OneHandlerKeepsTickets ==
  ASSUME HandlersOK, NEW w \in Workers, NEW label, NEW r, Step(w, label, r),
         label \in {"listed", "sniffed", "merging", "merged"} <=> MayShare(w),
         MayShare(w) => r.session = req[w].session /\ r.size = req[w].size
  PROVE  Ticket' = Ticket
<1>1. /\ pc'[w] = label /\ req'[w] = r
      /\ \A v \in Workers : v # w => pc'[v] = pc[v] /\ req'[v] = req[v]
  BY StepEffect
<1>2. ASSUME NEW v \in Workers
      PROVE  /\ MayShare(v)' <=> MayShare(v)
             /\ MayShare(v) => req'[v].session = req[v].session /\ req'[v].size = req[v].size
  BY <1>1 DEF MayShare
<1> QED
  BY <1>2, TicketsKept

LEMMA SharesAndTickets ==
  ASSUME TInv
  PROVE  /\ \A w \in Workers : (Ticket[w] # NoSession) <=> MayShare(w)
         /\ \A b \in Blobs : (Shares[b] # NoRow) <=> (rows[b] # NoRow)
<1>1. ASSUME NEW w \in Workers, MayShare(w)
      PROVE  [session |-> req[w].session, size |-> req[w].size] # NoSession
  <2>1. req[w] \in CompleteRequest
    BY <1>1, RequestIs DEF MayShare, TInv, Completing
  <2> QED
    BY <2>1, SentinelAssumption DEF CompleteRequest
<1>2. ASSUME NEW b \in Blobs, rows[b] # NoRow
      PROVE  [session |-> rows[b].session, size |-> rows[b].size] # NoRow
  <2>1. rows[b] \in Row
    BY <1>2 DEF TInv, DiskOK
  <2> QED
    BY <2>1, SentinelAssumption DEF Row
<1> QED
  BY <1>1, <1>2 DEF Ticket, Shares

LEMMA PromiseInitially == Init => Promise!Init
<1> SUFFICES ASSUME Init PROVE Promise!Init
  OBVIOUS
<1>1. Closed = {} /\ Ticket = [w \in Workers |-> NoSession]
  BY DEF Init, Closed, Ticket, MayShare
<1>2. Shares = [b \in Blobs |-> NoRow]
  BY DEF Init, Shares
<1> QED
  BY <1>1, <1>2 DEF Init, Promise!Init

(* Start announces a session nobody asked about yet.                       *)
LEMMA StartAnnounces ==
  ASSUME TInv, CInv, NEW w \in Workers, NEW u \in Sessions, Start(w, u)
  PROVE  \E size \in Sizes : Promise!Announce(u, size)
<1>1. /\ meta[u] = 0 /\ sent[u] = {}
      /\ \E size \in Sizes : meta' = [meta EXCEPT ![u] = size]
      /\ UNCHANGED <<rows, pc, req, asked>>
  BY DEF Start, client
<1>2. u \notin asked
  BY <1>1 DEF CInv
<1>3. Closed' = Closed /\ u \notin Closed
  <2>1. \A v \in Sessions : v # u => meta'[v] = meta[v]
    BY <1>1 DEF TInv, DiskOK
  <2> QED
    BY <1>1, <1>2, <2>1 DEF Closed, TInv, HistoryOK
<1>4. Ticket' = Ticket /\ Shares' = Shares
  BY <1>1 DEF Ticket, MayShare, Shares
<1> QED
  BY <1>1, <1>3, <1>4 DEF Promise!Announce

(* A completion that finds the session gets a ticket for one share.        *)
LEMMA CompleteArrivesAsks ==
  ASSUME TInv, NEW w \in Workers, NEW u \in Sessions, CompleteArrives(w, u)
  PROVE  Promise!Ask(w, u)
<1> DEFINE present == {i \in Index : parts[u][i] # Absent}
           r == [session |-> u, todo |-> present, size |-> meta[u],
                 sniffed |-> FALSE, blob |-> NoBlob]
<1>1. Step(w, "listed", r) /\ UNCHANGED disk
  BY CompleteArrivesEffect
<1>2. r.session = u /\ r.size = meta[u]
  OBVIOUS
<1> HIDE DEF r
<1>3. /\ pc'[w] = "listed" /\ req'[w] = r
      /\ \A v \in Workers : v # w => pc'[v] = pc[v] /\ req'[v] = req[v]
  BY <1>1, StepEffect DEF TInv
<1>4. pc[w] = "idle" /\ meta[u] # 0 /\ asked' = asked \cup {u}
  BY DEF CompleteArrives
<1>5. Ticket[w] = NoSession
  BY <1>4 DEF Ticket, MayShare
<1>6. Ticket' = [Ticket EXCEPT ![w] = [session |-> u, size |-> meta[u]]]
  <2>1. \A v \in Workers : Ticket'[v] = IF v = w THEN [session |-> u, size |-> meta[u]] ELSE Ticket[v]
    BY <1>2, <1>3 DEF Ticket, MayShare
  <2>2. Ticket' = [v \in Workers |-> Ticket'[v]] /\ Ticket = [v \in Workers |-> Ticket[v]]
    BY DEF Ticket
  <2> QED
    BY <2>1, <2>2
<1>7. Closed' = Closed /\ Shares' = Shares /\ meta' = meta
  BY <1>1, <1>4 DEF disk, Closed, Shares
<1> QED
  BY <1>4, <1>5, <1>6, <1>7 DEF Promise!Ask

(* The row uses the ticket up, under a name nothing was shared under.      *)
LEMMA InsertRowShares ==
  ASSUME FInv, NEW w \in Workers, InsertRow(w)
  PROVE  \E b \in Blobs : Promise!Share(w, b)
<1> DEFINE b == req[w].blob
           row == [session |-> req[w].session, size |-> req[w].size, sniffed |-> req[w].sniffed]
<1>1. /\ pc[w] = "merged" /\ b \in Blobs
      /\ row # NoRow /\ rows' = [rows EXCEPT ![b] = row]
      /\ Step(w, "recorded", req[w])
      /\ UNCHANGED <<meta, client>>
  BY InsertRowEffect DEF FInv
<1>2. row.session = req[w].session /\ row.size = req[w].size
  OBVIOUS
<1>3. rows[b] = NoRow
  BY <1>1 DEF FInv, FileOfHandler, Merging
<1> HIDE DEF b, row
<1>4. /\ pc'[w] = "recorded"
      /\ \A v \in Workers : v # w => pc'[v] = pc[v] /\ req'[v] = req[v]
  BY <1>1, StepEffect DEF FInv, TInv
<1>5. /\ Ticket[w] # NoSession
      /\ Ticket[w] = [session |-> req[w].session, size |-> req[w].size]
      /\ Shares[b] = NoRow
  BY <1>1, <1>3, SharesAndTickets DEF FInv, MayShare, Ticket, Shares
<1>6. Shares' = [Shares EXCEPT ![b] = Ticket[w]]
  <2>1. \A c \in Blobs : rows'[c] = IF c = b THEN row ELSE rows[c]
    BY <1>1 DEF FInv, TInv, DiskOK
  <2>2. \A c \in Blobs : Shares'[c] = IF c = b THEN Ticket[w] ELSE Shares[c]
    BY <1>1, <1>2, <1>5, <2>1 DEF Shares
  <2>3. Shares' = [c \in Blobs |-> Shares'[c]] /\ Shares = [c \in Blobs |-> Shares[c]]
    BY DEF Shares
  <2> QED
    BY <2>2, <2>3
<1>7. Ticket' = [Ticket EXCEPT ![w] = NoSession]
  <2>1. \A v \in Workers : Ticket'[v] = IF v = w THEN NoSession ELSE Ticket[v]
    BY <1>4 DEF Ticket, MayShare
  <2>2. Ticket' = [v \in Workers |-> Ticket'[v]] /\ Ticket = [v \in Workers |-> Ticket[v]]
    BY DEF Ticket
  <2> QED
    BY <2>1, <2>2
<1>8. Closed' = Closed /\ meta' = meta
  BY <1>1 DEF client, Closed
<1> QED
  BY <1>1, <1>5, <1>6, <1>7, <1>8 DEF Promise!Share

(* A session loses its meta.json after its file was recorded; the          *)
(* completions that found it keep their tickets.                           *)
LEMMA RemoveMetaCloses ==
  ASSUME FInv, CInv, NEW w \in Workers, RemoveMeta(w)
  PROVE  \E u \in Sessions : Promise!Close(u)
<1> DEFINE u == req[w].session
<1>1. /\ pc[w] = "recorded" /\ u \in Sessions /\ meta[u] # 0
      /\ meta' = [meta EXCEPT ![u] = 0]
      /\ UNCHANGED <<rows, pc, req, asked>>
  BY RemoveMetaEffect DEF FInv, client
<1>2. u \in asked
  BY <1>1, Labels DEF CInv
<1>3. \E b \in Blobs : Shares[b] # NoRow /\ Shares[b].session = u
  <2>1. req[w].blob \in Blobs /\ rows[req[w].blob] # NoRow /\ rows[req[w].blob].session = u
    BY <1>1 DEF FInv, FileOfHandler
  <2> QED
    BY <2>1, SharesAndTickets DEF FInv, Shares
<1>4. Ticket' = Ticket /\ Shares' = Shares
  BY <1>1 DEF Ticket, MayShare, Shares
<1>5. Closed' = Closed \cup {u}
  <2>1. \A v \in Sessions : meta'[v] = IF v = u THEN 0 ELSE meta[v]
    BY <1>1 DEF FInv, TInv, DiskOK
  <2> QED
    BY <1>1, <1>2, <2>1 DEF Closed, FInv, TInv, HistoryOK
<1> HIDE DEF u
<1> QED
  BY <1>1, <1>3, <1>4, <1>5 DEF Promise!Close

(* A handler that fails, or all of them at once, keep what was shared.     *)
LEMMA StoppingGivesUp ==
  ASSUME NEW H \in SUBSET Workers,
         \A h \in H : pc'[h] = "idle",
         \A v \in Workers \ H : pc'[v] = pc[v] /\ req'[v] = req[v],
         UNCHANGED <<meta, rows, asked>>
  PROVE  \E G \in SUBSET Workers : Promise!GiveUp(G)
<1>1. Ticket' = [v \in Workers |-> IF v \in H THEN NoSession ELSE Ticket[v]]
  <2>1. \A h \in H : ~MayShare(h)'
    BY DEF MayShare
  <2>2. \A v \in Workers \ H : MayShare(v)' <=> MayShare(v)
    BY DEF MayShare
  <2> QED
    BY <2>1, <2>2, TicketsGivenUp
<1>2. Closed' = Closed /\ Shares' = Shares
  BY DEF Closed, Shares
<1> QED
  BY <1>1, <1>2 DEF Promise!GiveUp

LEMMA StepKeepsPromise == FInv /\ CInv /\ [Next]_vars => [Promise!Next]_(Promise!vars)
<1> SUFFICES ASSUME FInv, CInv, [Next]_vars PROVE Promise!Next \/ UNCHANGED Promise!vars
  OBVIOUS
<1>0. TInv /\ HandlersOK
  BY DEF FInv, TInv
<1>1. ASSUME UNCHANGED <<meta, rows, asked>>, Ticket' = Ticket PROVE UNCHANGED Promise!vars
  BY <1>1 DEF Promise!vars, Closed, Shares
<1>2. ASSUME NEW w \in Workers, NEW u \in Sessions, Start(w, u) PROVE Promise!Next
  BY <1>0, <1>2, StartAnnounces DEF Promise!Next
<1>3. ASSUME NEW w \in Workers, NEW u \in Sessions, NEW i \in Index, ChunkArrives(w, u, i)
      PROVE  UNCHANGED Promise!vars
  <2>1. /\ Step(w, "admitted", [session |-> u, index |-> i, live |-> TRUE])
        /\ UNCHANGED disk
    BY <1>0, <1>3, ChunkArrivesEffect
  <2>2. pc[w] = "idle" /\ UNCHANGED asked
    BY <1>3 DEF ChunkArrives
  <2>3. Ticket' = Ticket
    BY <1>0, <2>1, <2>2, OneHandlerKeepsTickets DEF MayShare
  <2> QED
    BY <1>1, <2>1, <2>2, <2>3 DEF disk
<1>4. ASSUME NEW w \in Workers, NEW u \in Sessions, CompleteArrives(w, u) PROVE Promise!Next
  BY <1>0, <1>4, CompleteArrivesAsks DEF Promise!Next
<1>5. ASSUME NEW w \in Workers, Writes(w) PROVE UNCHANGED Promise!vars
  <2>1. /\ pc[w] \in Chunking
        /\ \E label \in {"opened", "half", "idle"} : \E r : Step(w, label, r)
        /\ UNCHANGED <<meta, rows, client>>
    BY <1>0, <1>5, WritesEffect
  <2>2. Ticket' = Ticket
    BY <1>0, <2>1, OneHandlerKeepsTickets DEF MayShare, Chunking
  <2> QED
    BY <1>1, <2>1, <2>2 DEF client
<1>6. ASSUME NEW w \in Workers, Gives(w) \/ Drops(w) PROVE Promise!Next
  <2>1. Step(w, "idle", Idle) /\ UNCHANGED <<meta, rows, client>>
    BY <1>0, <1>6, GivesEffect, DropsEffect DEF disk
  <2>2. /\ pc'[w] = "idle"
        /\ \A v \in Workers : v # w => pc'[v] = pc[v] /\ req'[v] = req[v]
    BY <1>0, <2>1, StepEffect
  <2>3. \E G \in SUBSET Workers : Promise!GiveUp(G)
    <3>1. {w} \in SUBSET Workers
      OBVIOUS
    <3> QED
      BY <2>1, <2>2, <3>1, StoppingGivesUp DEF client
  <2> QED
    BY <2>3 DEF Promise!Next
<1>7. ASSUME NEW w \in Workers, Sniff(w) PROVE UNCHANGED Promise!vars
  <2> DEFINE x == FirstPart(req[w].todo) = 0 /\ 1 \in parts[req[w].session][FirstPart(req[w].todo)]
             q == [req[w] EXCEPT !.sniffed = x]
  <2>1. /\ pc[w] = "listed" /\ req[w] \in CompleteRequest /\ Step(w, "sniffed", q)
        /\ UNCHANGED <<disk, client>>
    BY <1>0, <1>7, SniffEffect
  <2>2. x \in BOOLEAN
    OBVIOUS
  <2> HIDE DEF x
  <2>3. q.session = req[w].session /\ q.size = req[w].size
    BY <2>1, <2>2, WithSniffed
  <2> HIDE DEF q
  <2>4. Ticket' = Ticket
    BY <1>0, <2>1, <2>3, OneHandlerKeepsTickets DEF MayShare
  <2> QED
    BY <1>1, <2>1, <2>4 DEF disk, client
<1>8. ASSUME NEW w \in Workers, CreateFinal(w) PROVE UNCHANGED Promise!vars
  <2>1. PICK b \in Blobs :
          /\ pc[w] = "sniffed" /\ req[w] \in CompleteRequest
          /\ Step(w, "merging", [req[w] EXCEPT !.blob = b])
          /\ UNCHANGED <<meta, rows, client>>
    BY <1>0, <1>8, CreateFinalEffect
  <2> DEFINE q == [req[w] EXCEPT !.blob = b]
  <2>2. q.session = req[w].session /\ q.size = req[w].size /\ Step(w, "merging", q)
    BY <2>1, WithBlob
  <2> HIDE DEF q
  <2>3. Ticket' = Ticket
    BY <1>0, <2>1, <2>2, OneHandlerKeepsTickets DEF MayShare
  <2> QED
    BY <1>1, <2>1, <2>3 DEF client
<1>9. ASSUME NEW w \in Workers, AppendPart(w) PROVE UNCHANGED Promise!vars
  <2>1. PICK i \in Index :
          /\ pc[w] = "merging" /\ req[w] \in CompleteRequest
          /\ Step(w, "merging", [req[w] EXCEPT !.todo = req[w].todo \ {i}])
          /\ UNCHANGED <<meta, rows, client>>
    BY <1>0, <1>9, AppendPartEffect
  <2> DEFINE q == [req[w] EXCEPT !.todo = req[w].todo \ {i}]
  <2>2. q.session = req[w].session /\ q.size = req[w].size /\ Step(w, "merging", q)
    <3>1. req[w].todo \ {i} \in SUBSET Index
      BY <2>1 DEF CompleteRequest
    <3> QED
      BY <2>1, <3>1, WithTodo
  <2> HIDE DEF q
  <2>3. Ticket' = Ticket
    BY <1>0, <2>1, <2>2, OneHandlerKeepsTickets DEF MayShare
  <2> QED
    BY <1>1, <2>1, <2>3 DEF client
<1>10. ASSUME NEW w \in Workers, SizeOK(w) PROVE UNCHANGED Promise!vars
  <2>1. pc[w] = "merging" /\ Step(w, "merged", req[w]) /\ UNCHANGED <<disk, client>>
    BY <1>0, <1>10, SizeOKEffect
  <2>2. Ticket' = Ticket
    BY <1>0, <2>1, OneHandlerKeepsTickets DEF MayShare
  <2> QED
    BY <1>1, <2>1, <2>2 DEF disk, client
<1>11. ASSUME NEW w \in Workers, InsertRow(w) PROVE Promise!Next
  BY <1>11, InsertRowShares DEF Promise!Next
<1>12. ASSUME NEW w \in Workers, RemoveMeta(w) PROVE Promise!Next
  BY <1>12, RemoveMetaCloses DEF Promise!Next
<1>13. ASSUME NEW w \in Workers, NEW i \in Index, RemovePart(w, i) PROVE UNCHANGED Promise!vars
  <2>1. /\ UNCHANGED <<meta, rows, pc, client>>
        /\ \A v \in Workers : pc[v] \notin {"opened", "half"} => req'[v] = req[v]
    BY <1>0, <1>13, RemovePartEffect
  <2>2. Ticket' = Ticket
    BY <2>1, TicketsKept DEF MayShare
  <2> QED
    BY <1>1, <2>1, <2>2 DEF client
<1>14. CASE Crash
  <2>1. /\ \A v \in Workers : pc'[v] = "idle"
        /\ UNCHANGED <<disk, client>>
    BY <1>0, <1>14, CrashEffect
  <2>2. \E G \in SUBSET Workers : Promise!GiveUp(G)
    <3>1. Workers \in SUBSET Workers
      OBVIOUS
    <3> QED
      BY <2>1, <3>1, StoppingGivesUp DEF disk, client
  <2> QED
    BY <2>2 DEF Promise!Next
<1>15. CASE UNCHANGED vars
  <2>1. UNCHANGED <<meta, rows, asked, pc, req>>
    BY <1>15 DEF vars, disk, client
  <2>2. Ticket' = Ticket
    BY <2>1 DEF Ticket, MayShare
  <2> QED
    BY <1>1, <2>1, <2>2
<1> QED
  BY <1>2, <1>3, <1>4, <1>5, <1>6, <1>7, <1>8, <1>9, <1>10, <1>11, <1>12, <1>13, <1>14, <1>15
     DEF Next, ChunkStep, CompleteStep, Writes, Gives, Drops

(* Chunked uploads implement UploadPromise: whatever is sent again, late   *)
(* or too early, and however a completion is cut short, a session shares   *)
(* at most one file per completion that found it, all of its size, and     *)
(* stays closed once it was removed.                                       *)
THEOREM UploadImplementsPromise == Spec => KeepsPromise
<1>1. Init => Promise!Init
  BY PromiseInitially
<1>2. FInv /\ CInv /\ [Next]_vars => [Promise!Next]_(Promise!vars)
  BY StepKeepsPromise
<1> QED
  BY <1>1, <1>2, SessionsHold, PTL DEF Spec, KeepsPromise, Promise!Spec

=============================================================================
