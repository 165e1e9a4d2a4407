----------------------------- MODULE ShareStore -----------------------------
(***************************************************************************)
(* The store behind go-mega's share links: the shared_files table, the     *)
(* files under storage/uploads, and everything that changes them: direct   *)
(* upload, the consuming download, the owner's delete, the background      *)
(* cleanup and a crash with restart.                                       *)
(*                                                                         *)
(* A handler runs in its own goroutine; every database call and every file *)
(* operation of it is one step here, so the steps of all handlers and of   *)
(* the cleanup interleave as they do in the server.  Database calls go     *)
(* through a pool of MaxOpenConns connections (db.go sets 1).  A call      *)
(* returns its connection before it finishes, except the cleanup's query,  *)
(* which keeps one until its result set is closed.                         *)
(*                                                                         *)
(* A definition whose name extends that of the one right below it          *)
(* (ActiveOffByOne above Active) is a plausible bug in that definition;    *)
(* nothing uses it, and substituting it must break a property below.       *)
(***************************************************************************)
EXTENDS Integers, FiniteSets

CONSTANTS
  Workers,          \* handler goroutines that can be in flight at once
  Users, Admins,    \* accounts, and those with role "admin"
  Shares,           \* download hashes rand.Read can return; each also names
                    \* the row and the storage key derived from it
  NoRow, NoShare,   \* SQL's "no rows" and a handler that holds no share
  SizeChoices, DownloadChoices, TtlChoices,  \* what upload forms carry
  Quota, Grace, MaxUpload,                   \* config.SecurityConfig
  MaxOpenConns,     \* db.SetMaxOpenConns
  Never,            \* the expiry stored for ttl_hours = 0: the year 9999
  MaxTime,          \* bound: the clock stops here
  MaxCount,         \* bound: no new download starts at a link counted this often
  MaxFaults         \* bound: crashes, failed DELETEs, failed removals of a
                    \* file and failed quota queries

(* One row of shared_files.  The columns nothing decides on (names,        *)
(* content type, timestamps) are left out.                                 *)
Row == [user : Users, size : Nat, maxDL : Nat, ttl : Nat,
        expires : Nat, count : Nat]

ASSUME WorkersAssumption == IsFiniteSet(Workers) /\ Workers # {}
ASSUME SentinelAssumption == NoRow \notin Row /\ NoShare \notin Shares
ASSUME AdminsAssumption == Admins \subseteq Users
ASSUME FormAssumption ==
  SizeChoices \subseteq Int /\ DownloadChoices \subseteq Int /\ TtlChoices \subseteq Int
ASSUME LimitsAssumption ==
  /\ Quota \in Nat /\ Grace \in Nat /\ MaxUpload \in Nat
  /\ MaxOpenConns \in Nat \ {0} /\ Never \in Nat
  /\ MaxTime \in Nat /\ MaxCount \in Nat /\ MaxFaults \in Nat

VARIABLES
  now,       \* wall clock, in the unit of ttl
  rows,      \* table shared_files, by share
  blobs,     \* files under storage/uploads: absent, partial or whole
  issued,    \* hashes generated so far (24 random bytes: never repeated)
  pc,        \* where each handler stands
  target,    \* the share a handler works on
  job,       \* the row an upload handler is about to insert
  sweepPc,   \* where the cleanup goroutine stands
  sweepRows, \* rows of the cleanup's open result set not yet visited
  sweepCur,  \* the row the cleanup is working on
  faults,    \* crashes, failed DELETEs, removals and quota queries so far
  tomb,      \* history: what a row held when it was deleted
  delivered, \* history: files served by the consuming download
  debris,    \* history: shares a fault left half created or half deleted
  kept       \* history: shares whose file a removal failed to remove

store == <<rows, blobs, issued>>
handler == <<pc, target, job>>
sweep == <<sweepPc, sweepRows, sweepCur>>
history == <<tomb, delivered, debris, kept>>
vars == <<now, store, handler, sweep, faults, history>>

PC == {"idle",
       "admitted", "copying", "copied",   \* upload, and "merging" if it was chunked
       "merging",
       "found", "granted",                \* consuming download
       "located", "unlinked"}             \* delete by the owner

TypeOK ==
  /\ now \in Nat
  /\ rows \in [Shares -> Row \cup {NoRow}]
  /\ blobs \in [Shares -> {"absent", "partial", "whole"}]
  /\ issued \subseteq Shares
  /\ pc \in [Workers -> PC]
  /\ target \in [Workers -> Shares \cup {NoShare}]
  /\ job \in [Workers -> Row \cup {NoRow}]
  /\ sweepPc \in {"waiting", "scanning", "unlinked"}
  /\ sweepRows \subseteq Shares
  /\ sweepCur \in Shares \cup {NoShare}
  /\ faults \in Nat
  /\ tomb \in [Shares -> Row \cup {NoRow}]
  /\ delivered \in [Shares -> Nat]
  /\ debris \subseteq Shares /\ kept \subseteq Shares

-----------------------------------------------------------------------------
(* Queries                                                                 *)

ActiveOffByOne(row) ==
  /\ row.maxDL = 0 \/ row.count <= row.maxDL
  /\ row.ttl = 0 \/ now < row.expires

Active(row) ==
  /\ row.maxDL = 0 \/ row.count < row.maxDL
  /\ row.ttl = 0 \/ now < row.expires

ReapableExpiredOnly(row) == row.ttl # 0 /\ row.expires <= now

ReapableIgnoresUnlimited(row) ==
  \/ row.ttl # 0 /\ row.expires <= now
  \/ row.count >= row.maxDL

(* The WHERE clause of cleanupExpired.                                     *)
Reapable(row) ==
  \/ row.ttl # 0 /\ row.expires <= now
  \/ row.maxDL # 0 /\ row.count >= row.maxDL

Listed(s) == rows[s] # NoRow

(* What a table of rows holds for a user, one element for each byte.       *)
Bytes(table, u) ==
  UNION {{x} \X (1..table[x].size) :
           x \in {y \in DOMAIN table : table[y] # NoRow /\ table[y].user = u}}

(* SELECT SUM(file_size)                                                   *)
StorageUsed(u) == Cardinality(Bytes(rows, u))

ConnFreeOffByOne == (IF sweepPc = "waiting" THEN 0 ELSE 1) <= MaxOpenConns
(* database/sql hands out a connection only below the pool's limit; the    *)
(* cleanup's result set pins one while it is open.                         *)
ConnFree == (IF sweepPc = "waiting" THEN 0 ELSE 1) < MaxOpenConns

(* Role limits of the upload form: only admins may ask for 0 (unlimited),  *)
(* and their negative values are read as 0.                                *)
LimitsOK(u, maxDL, ttl) == u \in Admins \/ (maxDL \in 1..100 /\ ttl \in 1..24)
ClampMissing(n) == n
Clamp(n) == IF n < 0 THEN 0 ELSE n

WithinQuotaIgnoresSize(u, size) == StorageUsed(u) <= Quota + Grace
WithinQuota(u, size) == StorageUsed(u) + size <= Quota + Grace

ExpiryOf(ttl) == IF ttl = 0 THEN Never ELSE now + ttl

-----------------------------------------------------------------------------
(* Control helpers                                                         *)

Goto(w, label) == pc' = [pc EXCEPT ![w] = label]

(* The handler returns: its locals are gone.                               *)
Finish(w) ==
  /\ pc' = [pc EXCEPT ![w] = "idle"]
  /\ target' = [target EXCEPT ![w] = NoShare]
  /\ job' = [job EXCEPT ![w] = NoRow]

WriteBlob(s, content) == blobs' = [blobs EXCEPT ![s] = content]

(* os.Remove, whose error every caller ignores: the file may stay.         *)
Unlink(s) ==
  \/ WriteBlob(s, "absent") /\ UNCHANGED <<faults, kept>>
  \/ /\ blobs[s] # "absent"
     /\ faults < MaxFaults
     /\ faults' = faults + 1
     /\ kept' = kept \cup {s}
     /\ UNCHANGED blobs

(* DELETE FROM shared_files WHERE id = ?; no row, no effect.               *)
DeleteRow(s) ==
  /\ rows' = [rows EXCEPT ![s] = NoRow]
  /\ tomb' = IF Listed(s) THEN [tomb EXCEPT ![s] = rows[s]] ELSE tomb

-----------------------------------------------------------------------------
(* Uploads: HandleUploadCreate with CreateSharedFileFromUpload, and the    *)
(* completion of a chunked one, which makes the same checks and inserts    *)
(* the same row (HandleUploadComplete; ChunkedUpload has its session).     *)

(* The share's terms are settled: the handler holds the row to insert.     *)
Admit(w, u, size, maxDL, ttl) ==
  /\ pc[w] = "idle"
  /\ ConnFree
  /\ LimitsOK(u, maxDL, ttl)
  /\ size > 0 /\ size <= MaxUpload
  /\ job' = [job EXCEPT ![w] = [user |-> u, size |-> size, maxDL |-> Clamp(maxDL),
                                ttl |-> Clamp(ttl), expires |-> 0, count |-> 0]]
  /\ Goto(w, "admitted")
  /\ UNCHANGED <<now, store, target, sweep, history>>

(* A request that fails a check changes nothing, so only accepted ones     *)
(* are steps.  The quota is read here, long before the row is inserted.    *)
AdmitUpload(w) ==
  \E u \in Users, size \in SizeChoices, maxDL \in DownloadChoices, ttl \in TtlChoices :
    /\ WithinQuota(u, size)
    /\ Admit(w, u, size, maxDL, ttl)
    /\ UNCHANGED faults

(* used, _ := u.StorageUsed(db): a failed query reads as nothing used.     *)
AdmitUnmetered(w) ==
  \E u \in Users, size \in SizeChoices, maxDL \in DownloadChoices, ttl \in TtlChoices :
    /\ size <= Quota + Grace
    /\ faults < MaxFaults
    /\ Admit(w, u, size, maxDL, ttl)
    /\ faults' = faults + 1

CreateBlobNamedByFile(w) ==
  /\ pc[w] = "admitted"
  /\ \E s \in Shares :
       /\ issued' = issued \cup {s}
       /\ WriteBlob(s, "partial")
       /\ target' = [target EXCEPT ![w] = s]
  /\ job' = [job EXCEPT ![w].expires = ExpiryOf(job[w].ttl)]
  /\ Goto(w, "copying")
  /\ UNCHANGED <<now, rows, sweep, faults, history>>

(* Generate the hash, read the clock for the expiry, create the file.      *)
CreateBlob(w) ==
  /\ pc[w] = "admitted"
  /\ \E s \in Shares \ issued :
       /\ issued' = issued \cup {s}
       /\ WriteBlob(s, "partial")
       /\ target' = [target EXCEPT ![w] = s]
  /\ job' = [job EXCEPT ![w].expires = ExpiryOf(job[w].ttl)]
  /\ Goto(w, "copying")
  /\ UNCHANGED <<now, rows, sweep, faults, history>>

(* rand.Read, MkdirAll or Create failed: nothing was written.              *)
AbandonUpload(w) ==
  /\ pc[w] = "admitted"
  /\ Finish(w)
  /\ UNCHANGED <<now, store, sweep, faults, history>>

CopyBlob(w) ==
  /\ pc[w] = "copying"
  /\ WriteBlob(target[w], "whole")
  /\ Goto(w, "copied")
  /\ UNCHANGED <<now, rows, issued, target, job, sweep, faults, history>>

(* The copy fails, or the parts have not the announced size.               *)
CopyFails(w) ==
  /\ pc[w] \in {"copying", "merging"}
  /\ Unlink(target[w])
  /\ Finish(w)
  /\ UNCHANGED <<now, rows, issued, sweep, tomb, delivered, debris>>

(* The completion of a chunked upload creates its file and reads the clock *)
(* when the parts are merged.                                              *)
CreateFinal(w) ==
  /\ pc[w] = "admitted"
  /\ \E s \in Shares \ issued :
       /\ issued' = issued \cup {s}
       /\ WriteBlob(s, "partial")
       /\ target' = [target EXCEPT ![w] = s]
  /\ Goto(w, "merging")
  /\ UNCHANGED <<now, rows, job, sweep, faults, history>>

MergeParts(w) ==
  /\ pc[w] = "merging"
  /\ WriteBlob(target[w], "whole")
  /\ job' = [job EXCEPT ![w].expires = ExpiryOf(job[w].ttl)]
  /\ Goto(w, "copied")
  /\ UNCHANGED <<now, rows, issued, target, sweep, faults, history>>

(* A part cannot be opened or copied: the file stays as it is.             *)
MergeFails(w) ==
  /\ pc[w] = "merging"
  /\ debris' = debris \cup {target[w]}
  /\ Finish(w)
  /\ UNCHANGED <<now, store, sweep, faults, tomb, delivered, kept>>

InsertRowBeforeCopy(w) ==
  /\ pc[w] \in {"copying", "copied"}
  /\ ConnFree
  /\ rows' = [rows EXCEPT ![target[w]] = job[w]]
  /\ Finish(w)
  /\ UNCHANGED <<now, blobs, issued, sweep, faults, history>>

InsertRow(w) ==
  /\ pc[w] = "copied"
  /\ ConnFree
  /\ rows' = [rows EXCEPT ![target[w]] = job[w]]
  /\ Finish(w)
  /\ UNCHANGED <<now, blobs, issued, sweep, faults, history>>

InsertFailsKeepingBlob(w) ==
  /\ pc[w] = "copied"
  /\ ConnFree
  /\ Finish(w)
  /\ UNCHANGED <<now, store, sweep, faults, history>>

InsertFails(w) ==
  /\ pc[w] = "copied"
  /\ ConnFree
  /\ Unlink(target[w])
  /\ Finish(w)
  /\ UNCHANGED <<now, rows, issued, sweep, tomb, delivered, debris>>

-----------------------------------------------------------------------------
(* Consuming download: HandleDownloadConsume.  Its ban check is left out:  *)
(* nothing in the program sets banned_at (see Accounts in the README).     *)

LookUp(w, s) ==
  /\ pc[w] = "idle"
  /\ ConnFree
  /\ Listed(s)
  /\ rows[s].count < MaxCount
  /\ target' = [target EXCEPT ![w] = s]
  /\ Goto(w, "found")
  /\ UNCHANGED <<now, store, job, sweep, faults, history>>

GrantDownloadUnchecked(w) ==
  /\ pc[w] = "found"
  /\ ConnFree
  /\ Listed(target[w])
  /\ rows' = [rows EXCEPT ![target[w]].count = @ + 1]
  /\ Goto(w, "granted")
  /\ UNCHANGED <<now, blobs, issued, target, job, sweep, faults, history>>

(* One UPDATE checks the terms again and counts the download.              *)
GrantDownload(w) ==
  /\ pc[w] = "found"
  /\ ConnFree
  /\ Listed(target[w])
  /\ Active(rows[target[w]])
  /\ rows' = [rows EXCEPT ![target[w]].count = @ + 1]
  /\ Goto(w, "granted")
  /\ UNCHANGED <<now, blobs, issued, target, job, sweep, faults, history>>

RefuseDownloadRetrying(w) ==
  /\ pc[w] = "found"
  /\ ConnFree
  /\ Listed(target[w])
  /\ Finish(w)
  /\ UNCHANGED <<now, store, sweep, faults, history>>

(* The UPDATE matched no row, or failed: the handler answers "expired" to  *)
(* both.                                                                   *)
RefuseDownload(w) ==
  /\ pc[w] = "found"
  /\ ConnFree
  /\ Finish(w)
  /\ UNCHANGED <<now, store, sweep, faults, history>>

(* os.Open succeeded: from here on the file is served even if unlinked.    *)
OpenBlob(w) ==
  /\ pc[w] = "granted"
  /\ blobs[target[w]] # "absent"
  /\ delivered' = [delivered EXCEPT ![target[w]] = @ + 1]
  /\ Finish(w)
  /\ UNCHANGED <<now, store, sweep, faults, tomb, debris, kept>>

FileMissing(w) ==
  /\ pc[w] = "granted"
  /\ blobs[target[w]] = "absent"
  /\ Finish(w)
  /\ UNCHANGED <<now, store, sweep, faults, history>>

-----------------------------------------------------------------------------
(* Delete by the owner: HandleUploadDelete and SharedFile.Delete           *)

FindOwned(w, s) ==
  /\ pc[w] = "idle"
  /\ ConnFree
  /\ Listed(s)
  /\ target' = [target EXCEPT ![w] = s]
  /\ Goto(w, "located")
  /\ UNCHANGED <<now, store, job, sweep, faults, history>>

UnlinkBlob(w) ==
  /\ pc[w] = "located"
  /\ Unlink(target[w])
  /\ Goto(w, "unlinked")
  /\ UNCHANGED <<now, rows, issued, target, job, sweep, tomb, delivered, debris>>

DeleteShare(w) ==
  /\ pc[w] = "unlinked"
  /\ ConnFree
  /\ DeleteRow(target[w])
  /\ Finish(w)
  /\ UNCHANGED <<now, blobs, issued, sweep, faults, delivered, debris, kept>>

(* The row stays, and the file is gone unless its removal failed too.      *)
DeleteFails(w) ==
  /\ pc[w] = "unlinked"
  /\ ConnFree
  /\ faults < MaxFaults
  /\ faults' = faults + 1
  /\ debris' = debris \cup {target[w]}
  /\ Finish(w)
  /\ UNCHANGED <<now, store, sweep, tomb, delivered, kept>>

-----------------------------------------------------------------------------
(* The cleanup goroutine: runCleanup and cleanupExpired.  A round that     *)
(* finds no row changes nothing here.                                      *)

StartSweep ==
  /\ sweepPc = "waiting"
  /\ ConnFree
  /\ sweepRows' = {s \in Shares : Listed(s) /\ Reapable(rows[s])}
  /\ sweepRows' # {}
  /\ sweepPc' = "scanning"
  /\ UNCHANGED <<now, store, handler, sweepCur, faults, history>>

(* rows.Next and os.Remove.                                                *)
SweepUnlink ==
  /\ sweepPc = "scanning"
  /\ \E s \in sweepRows :
       /\ sweepCur' = s
       /\ sweepRows' = sweepRows \ {s}
       /\ Unlink(s)
  /\ sweepPc' = "unlinked"
  /\ UNCHANGED <<now, rows, issued, handler, tomb, delivered, debris>>

(* sqlDB.Exec asks the pool for a second connection: the result set of     *)
(* the query is still open.                                                *)
SweepDelete ==
  /\ sweepPc = "unlinked"
  /\ ConnFree
  /\ DeleteRow(sweepCur)
  /\ sweepPc' = "scanning"
  /\ sweepCur' = NoShare
  /\ UNCHANGED <<now, blobs, issued, handler, sweepRows, faults, delivered, debris, kept>>

SweepDeleteFails ==
  /\ sweepPc = "unlinked"
  /\ ConnFree
  /\ faults < MaxFaults
  /\ faults' = faults + 1
  /\ debris' = debris \cup {sweepCur}
  /\ sweepPc' = "scanning"
  /\ sweepCur' = NoShare
  /\ UNCHANGED <<now, store, handler, sweepRows, tomb, delivered, kept>>

(* The result set is exhausted, which closes it.                           *)
EndSweep ==
  /\ sweepPc = "scanning"
  /\ sweepRows = {}
  /\ sweepPc' = "waiting"
  /\ UNCHANGED <<now, store, handler, sweepRows, sweepCur, faults, history>>

-----------------------------------------------------------------------------
(* The server stops between any two steps and starts again: srv.Close cuts *)
(* every handler, the database and the files survive.                      *)

Uploading(w) == pc[w] \in {"copying", "merging", "copied"}

CutShort ==
  {target[w] : w \in {v \in Workers : Uploading(v) \/ pc[v] = "unlinked"}}
    \cup (IF sweepPc = "unlinked" THEN {sweepCur} ELSE {})

Crash ==
  /\ faults < MaxFaults
  /\ faults' = faults + 1
  /\ pc' = [w \in Workers |-> "idle"]
  /\ target' = [w \in Workers |-> NoShare]
  /\ job' = [w \in Workers |-> NoRow]
  /\ sweepPc' = "waiting"
  /\ sweepRows' = {}
  /\ sweepCur' = NoShare
  /\ debris' = debris \cup CutShort
  /\ UNCHANGED <<now, store, tomb, delivered, kept>>

Tick ==
  /\ now < MaxTime
  /\ now' = now + 1
  /\ UNCHANGED <<store, handler, sweep, faults, history>>

-----------------------------------------------------------------------------
Init ==
  /\ now = 0
  /\ rows = [s \in Shares |-> NoRow]
  /\ blobs = [s \in Shares |-> "absent"]
  /\ issued = {}
  /\ pc = [w \in Workers |-> "idle"]
  /\ target = [w \in Workers |-> NoShare]
  /\ job = [w \in Workers |-> NoRow]
  /\ sweepPc = "waiting"
  /\ sweepRows = {}
  /\ sweepCur = NoShare
  /\ faults = 0
  /\ tomb = [s \in Shares |-> NoRow]
  /\ delivered = [s \in Shares |-> 0]
  /\ debris = {} /\ kept = {}

(* A new request arrives.                                                  *)
Arrival(w) ==
  \/ AdmitUpload(w) \/ AdmitUnmetered(w)
  \/ \E s \in Shares : LookUp(w, s) \/ FindOwned(w, s)

(* A handler in flight goes on.                                            *)
HandlerStep(w) ==
  \/ CreateBlob(w) \/ AbandonUpload(w)
  \/ CopyBlob(w) \/ CopyFails(w)
  \/ CreateFinal(w) \/ MergeParts(w) \/ MergeFails(w)
  \/ InsertRow(w) \/ InsertFails(w)
  \/ GrantDownload(w) \/ RefuseDownload(w)
  \/ OpenBlob(w) \/ FileMissing(w)
  \/ UnlinkBlob(w) \/ DeleteShare(w) \/ DeleteFails(w)

SweepStep ==
  \/ StartSweep \/ SweepUnlink
  \/ SweepDelete \/ SweepDeleteFails
  \/ EndSweep

Next ==
  \/ \E w \in Workers : Arrival(w) \/ HandlerStep(w)
  \/ SweepStep
  \/ Crash
  \/ Tick

Spec == Init /\ [][Next]_vars

(* The Go scheduler runs every goroutine that can go on, and the ticker    *)
(* starts a cleanup every 15 minutes.  Nobody owes the server a request.   *)
Fairness ==
  /\ \A w \in Workers : WF_vars(HandlerStep(w))
  /\ WF_vars(SweepStep)

FairSpec == Spec /\ Fairness

-----------------------------------------------------------------------------
(* Safety                                                                  *)

(* A handler or the cleanup is between os.Remove and DELETE on this share. *)
BeingDeleted(s) ==
  \/ \E w \in Workers : pc[w] = "unlinked" /\ target[w] = s
  \/ sweepPc = "unlinked" /\ sweepCur = s

(* No visitor can find a row whose file is half written, and a row without *)
(* a file is one somebody is deleting, or one that a crash or a failed     *)
(* DELETE interrupted (the write order of CreateSharedFileFromUpload       *)
(* against the delete order of SharedFile.Delete and cleanupExpired).      *)
RowsHaveWholeFiles ==
  \A s \in Shares : Listed(s) =>
    \/ blobs[s] = "whole"
    \/ blobs[s] = "absent" /\ (BeingDeleted(s) \/ s \in debris)

(* A file on disk that no row leads to is one being uploaded, one that a   *)
(* crash or a failed merge left behind, or one whose removal failed.  The  *)
(* last is for ever: the row of such a file is deleted all the same, and   *)
(* nothing else knows its name.  Every other order of steps leaves none.   *)
FilesHaveRows ==
  \A s \in Shares : blobs[s] # "absent" =>
    \/ Listed(s)
    \/ \E w \in Workers : Uploading(w) /\ target[w] = s
    \/ s \in debris \cup kept

(* The last known row of a share, deleted or not.                          *)
LastRow(s) == IF Listed(s) THEN rows[s] ELSE tomb[s]

InTransit(s) == {w \in Workers : pc[w] = "granted" /\ target[w] = s}

(* However downloads, deletes and the cleanup interleave, a share is       *)
(* served at most as often as it was counted, and counted at most as often *)
(* as its limit allows (IncrementDownload before os.Open).                 *)
DownloadsWithinLimit ==
  \A s \in Shares : LastRow(s) # NoRow =>
    /\ delivered[s] + Cardinality(InTransit(s)) <= LastRow(s).count
    /\ LastRow(s).maxDL # 0 => LastRow(s).count <= LastRow(s).maxDL

(* The cleanup works from a snapshot that handlers outrun; what it is      *)
(* still going to unlink and delete is never a link visitors may use.      *)
SweepSparesActive ==
  \A s \in sweepRows \cup {sweepCur} :
    s \in Shares /\ Listed(s) => ~Active(rows[s])

InFlightSize(u) == Cardinality(Bytes(job, u))

(* Uploads are checked against a quota read before they are written; each  *)
(* other handler, and each failed quota query, can add one upload on top.  *)
QuotaOvershootBounded ==
  \A u \in Users :
    StorageUsed(u) + InFlightSize(u)
      <= Quota + Grace + (Cardinality(Workers) - 1 + faults) * MaxUpload

(* With the pool of one connection that db.go configures, no row changes   *)
(* while a cleanup that found work is at it: it holds the connection, and  *)
(* its own DELETE waits for another.                                       *)
SweepFreezesRows ==
  [][MaxOpenConns = 1 /\ sweepPc # "waiting" => UNCHANGED rows]_vars

-----------------------------------------------------------------------------
(* What the store promises of a link                                       *)

AbsLink == [s \in Shares |->
  IF LastRow(s) = NoRow THEN NoRow
  ELSE [open |-> Listed(s), maxDL |-> LastRow(s).maxDL, ttl |-> LastRow(s).ttl,
        expires |-> LastRow(s).expires, granted |-> LastRow(s).count,
        delivered |-> delivered[s]]]

Promise == INSTANCE ShareLink WITH link <- AbsLink, Unpublished <- NoRow

ASSUME UnpublishedAssumption == NoRow \notin Promise!Link

(* Rows, files and handlers together behave like a table of links that are *)
(* published once, granted within their terms, delivered at most as often  *)
(* as granted and withdrawn for good (ShareLink).                          *)
KeepsPromise == Promise!LinkSpec

-----------------------------------------------------------------------------
(* Liveness, under FairSpec                                                *)

(* A link that expired or is used up is eventually cleaned up.             *)
DeadRowsReaped ==
  \A s \in Shares : Listed(s) /\ ~Active(rows[s]) ~> ~Listed(s)

(* Every request is eventually answered, unless a cleanup that found work  *)
(* keeps the only connection to itself.                                    *)
AnsweredUnlessSweeping ==
  \A w \in Workers : pc[w] # "idle" ~> pc[w] = "idle" \/ sweepPc # "waiting"

-----------------------------------------------------------------------------
(* The inductive invariant behind the safety properties                    *)

(* What a handler may rely on between two of its steps.                    *)
HandlersKnow ==
  \A w \in Workers :
    /\ pc[w] = "idle" => target[w] = NoShare
    /\ pc[w] = "admitted" =>
         job[w] \in Row /\ job[w].count = 0 /\ target[w] = NoShare
    /\ Uploading(w) =>
         /\ target[w] \in issued
         /\ LastRow(target[w]) = NoRow
         /\ delivered[target[w]] = 0
         /\ job[w] \in Row /\ job[w].count = 0
    /\ pc[w] = "copied" => blobs[target[w]] = "whole"
    /\ pc[w] \in {"found", "granted", "located", "unlinked"} =>
         target[w] \in Shares /\ LastRow(target[w]) # NoRow
    /\ pc[w] = "unlinked" => blobs[target[w]] = "absent" \/ target[w] \in kept

(* A hash belongs to one upload.                                           *)
UploadsDisjoint ==
  \A v, w \in Workers :
    Uploading(v) /\ Uploading(w) /\ target[v] = target[w] => v = w

(* Nothing exists yet under a hash that was never generated.               *)
FreshIsUnused ==
  \A s \in Shares \ issued :
    LastRow(s) = NoRow /\ blobs[s] = "absent" /\ delivered[s] = 0

(* What the cleanup may rely on while its result set is open.              *)
SweepKnows ==
  /\ \A s \in sweepRows : LastRow(s) # NoRow /\ (Listed(s) => ~Active(rows[s]))
  /\ sweepPc = "unlinked" =>
       /\ sweepCur \in Shares
       /\ LastRow(sweepCur) # NoRow
       /\ Listed(sweepCur) => ~Active(rows[sweepCur])
       /\ blobs[sweepCur] = "absent" \/ sweepCur \in kept
  /\ sweepPc # "unlinked" => sweepCur = NoShare

IInv ==
  /\ TypeOK
  /\ HandlersKnow
  /\ UploadsDisjoint
  /\ FreshIsUnused
  /\ SweepKnows
  /\ RowsHaveWholeFiles
  /\ FilesHaveRows
  /\ DownloadsWithinLimit

-----------------------------------------------------------------------------
(* What the documentation says and the code does not keep                  *)

(* "atomic consume" (README.md): a download that was counted is served.    *)
CountedDownloadIsServable ==
  \A w \in Workers : pc[w] = "granted" => blobs[target[w]] = "whole"

=============================================================================
