----------------------------- MODULE QuotaProofs -----------------------------
(***************************************************************************)
(* TLAPS proof that uploads admitted side by side exceed a user's quota by *)
(* at most one upload for every other handler and one for every failed     *)
(* query, for every number of handlers, accounts and shares.               *)
(*                                                                         *)
(* The bound speaks of what is stored plus what is in flight.  A step      *)
(* either takes bytes away from the two together, or moves the bytes of    *)
(* one upload from the handler to the table (INSERT), or admits an upload: *)
(* then the check of the quota bounds what is stored plus the new upload,  *)
(* and each other handler carries one upload at most.                      *)
(***************************************************************************)
EXTENDS ShareStoreProofs

(* The inductive invariant: what a handler carries passed the limit of the *)
(* form, and what a user stores is a finite number of bytes.               *)
JobsWithinLimit ==
  \A w \in Workers : job[w] # NoRow => job[w].size <= MaxUpload

StoredIsFinite == \A u \in Users : IsFiniteSet(Bytes(rows, u))

QInv == IInv /\ JobsWithinLimit /\ StoredIsFinite /\ QuotaOvershootBounded

-----------------------------------------------------------------------------
(* Numbers                                                                 *)

(* More uploads of the same size are more bytes, one more is size more.    *)
LEMMA Uploads ==
  ASSUME NEW a \in Int, NEW b \in Int, NEW m \in Nat
  PROVE  /\ a * m \in Int
         /\ a <= b => a * m <= b * m
         /\ (a + 1) * m = a * m + m
<1>1. a * m \in Int /\ (a + 1) * m = a * m + m
  OBVIOUS
<1>2. ASSUME a <= b PROVE a * m <= b * m
  <2>1. PICK d \in Nat : b = a + d
    BY <1>2
  <2>2. d * m >= 0
    OBVIOUS
  <2>3. b * m = a * m + d * m
    BY <2>1
  <2> QED
    BY <2>2, <2>3
<1> QED
  BY <1>1, <1>2

-----------------------------------------------------------------------------
(* Tables of rows and their bytes                                          *)

(* A byte belongs to a row of the user and lies within its size.           *)
LEMMA BytesAre ==
  ASSUME NEW table, NEW u, NEW p
  PROVE  p \in Bytes(table, u) <=>
           \E x \in DOMAIN table, i \in Int :
             /\ p = <<x, i>> /\ i \in 1..table[x].size
             /\ table[x] # NoRow /\ table[x].user = u
  BY DEF Bytes

(* A table that lost rows holds no byte it did not hold before.            *)
Lessened(before, after) ==
  /\ DOMAIN after = DOMAIN before
  /\ \A x \in DOMAIN after : after[x] # NoRow =>
       /\ before[x] # NoRow
       /\ after[x].user = before[x].user /\ after[x].size = before[x].size

LEMMA LessenedHoldsLess ==
  ASSUME NEW before, NEW after, Lessened(before, after), NEW u
  PROVE  Bytes(after, u) \subseteq Bytes(before, u)
<1> SUFFICES ASSUME NEW p \in Bytes(after, u) PROVE p \in Bytes(before, u)
  OBVIOUS
<1>1. PICK x \in DOMAIN after, i \in Int :
      p = <<x, i>> /\ i \in 1..after[x].size /\ after[x] # NoRow /\ after[x].user = u
  BY BytesAre
<1>2. x \in DOMAIN before /\ before[x] # NoRow /\ before[x].user = u /\ i \in 1..before[x].size
  BY <1>1 DEF Lessened
<1> QED
  BY <1>1, <1>2, BytesAre

(* n bytes of one entry.                                                   *)
LEMMA EntryBytes ==
  ASSUME NEW x, NEW n \in Nat
  PROVE  IsFiniteSet({x} \X (1..n)) /\ Cardinality({x} \X (1..n)) = n
<1>1. IsFiniteSet({x}) /\ Cardinality({x}) = 1
  BY FS_Singleton
<1>2. IsFiniteSet(1..n) /\ Cardinality(1..n) = n
  <2>1. \A a, b \in Int : IsFiniteSet(a..b) /\ Cardinality(a..b) = IF a > b THEN 0 ELSE b - a + 1
    BY FS_Interval
  <2> QED
    BY <2>1
<1> DEFINE entry == {x}
           bytes == 1..n
<1> HIDE DEF entry, bytes
<1>3. IsFiniteSet(entry \X bytes) /\ Cardinality(entry \X bytes) = Cardinality(entry) * Cardinality(bytes)
  BY <1>1, <1>2, FS_Product DEF entry, bytes
<1>4. Cardinality(entry) * Cardinality(bytes) = n
  BY <1>1, <1>2 DEF entry, bytes
<1> QED
  BY <1>3, <1>4 DEF entry, bytes

(* The table after a row is written to an entry that had none.             *)
Filled(before, after, x, r) ==
  /\ x \in DOMAIN before /\ before[x] = NoRow
  /\ DOMAIN after = DOMAIN before
  /\ after[x] = r
  /\ \A y \in DOMAIN before : y # x => after[y] = before[y]

(* A row in an entry that had none adds its size to its user.              *)
LEMMA EntryAddsItsSize ==
  ASSUME NEW table, NEW filled, NEW x, NEW r \in Row, Filled(table, filled, x, r), NEW u
  PROVE  /\ r.user # u => Bytes(filled, u) = Bytes(table, u)
         /\ r.user = u => Bytes(filled, u) = Bytes(table, u) \cup ({x} \X (1..r.size))
         /\ Bytes(table, u) \cap ({x} \X (1..r.size)) = {}
<1>1. /\ r # NoRow /\ DOMAIN filled = DOMAIN table /\ filled[x] = r
      /\ x \in DOMAIN table /\ table[x] = NoRow
  BY SentinelAssumption DEF Filled
<1>2. \A y \in DOMAIN table : y # x => filled[y] = table[y]
  BY DEF Filled
<1>3. ASSUME NEW p PROVE p \in Bytes(filled, u) <=>
        p \in Bytes(table, u) \/ (r.user = u /\ p \in {x} \X (1..r.size))
  <2>1. ASSUME p \in Bytes(filled, u)
        PROVE  p \in Bytes(table, u) \/ (r.user = u /\ p \in {x} \X (1..r.size))
    <3>1. PICK y \in DOMAIN filled, i \in Int :
          p = <<y, i>> /\ i \in 1..filled[y].size /\ filled[y] # NoRow /\ filled[y].user = u
      BY <2>1, BytesAre
    <3>2. CASE y = x
      BY <1>1, <3>1, <3>2
    <3>3. CASE y # x
      <4>1. y \in DOMAIN table /\ filled[y] = table[y]
        BY <1>1, <1>2, <3>1, <3>3
      <4> QED
        BY <3>1, <4>1, BytesAre
    <3> QED
      BY <3>2, <3>3
  <2>2. ASSUME p \in Bytes(table, u) PROVE p \in Bytes(filled, u)
    <3>1. PICK y \in DOMAIN table, i \in Int :
          p = <<y, i>> /\ i \in 1..table[y].size /\ table[y] # NoRow /\ table[y].user = u
      BY <2>2, BytesAre
    <3>2. y # x /\ y \in DOMAIN filled /\ filled[y] = table[y]
      BY <1>1, <1>2, <3>1
    <3> QED
      BY <3>1, <3>2, BytesAre
  <2>3. ASSUME r.user = u, p \in {x} \X (1..r.size) PROVE p \in Bytes(filled, u)
    <3>1. PICK i \in 1..r.size : p = <<x, i>>
      BY <2>3
    <3>2. i \in Int /\ i \in 1..filled[x].size /\ filled[x] # NoRow /\ filled[x].user = u
      BY <1>1, <2>3, <3>1
    <3> QED
      BY <1>1, <3>1, <3>2, BytesAre
  <2> QED
    BY <2>1, <2>2, <2>3
<1>4. ASSUME NEW p \in Bytes(table, u) PROVE p \notin {x} \X (1..r.size)
  <2>1. PICK y \in DOMAIN table, i \in Int :
        p = <<y, i>> /\ i \in 1..table[y].size /\ table[y] # NoRow /\ table[y].user = u
    BY BytesAre
  <2> QED
    BY <1>1, <2>1
<1> QED
  <2>1. Bytes(table, u) \cap ({x} \X (1..r.size)) = {}
    BY <1>4
  <2>2. r.user # u => Bytes(filled, u) = Bytes(table, u)
    BY <1>3
  <2>3. r.user = u => Bytes(filled, u) = Bytes(table, u) \cup ({x} \X (1..r.size))
    BY <1>3
  <2> QED
    BY <2>1, <2>2, <2>3

(* The same, counted.                                                      *)
LEMMA EntryCounts ==
  ASSUME NEW table, NEW filled, NEW x, NEW r \in Row, Filled(table, filled, x, r), NEW u,
         IsFiniteSet(Bytes(table, u))
  PROVE  /\ IsFiniteSet(Bytes(filled, u))
         /\ Cardinality(Bytes(filled, u)) =
              Cardinality(Bytes(table, u)) + (IF r.user = u THEN r.size ELSE 0)
<1>1. Cardinality(Bytes(table, u)) \in Nat
  BY FS_CardinalityType
<1>2. CASE r.user # u
  <2>1. Bytes(filled, u) = Bytes(table, u)
    BY <1>2, EntryAddsItsSize
  <2> QED
    BY <1>1, <1>2, <2>1
<1>3. CASE r.user = u
  <2> DEFINE old == Bytes(table, u)
             new == {x} \X (1..r.size)
  <2>1. r.size \in Nat /\ IsFiniteSet(new) /\ Cardinality(new) = r.size
    BY EntryBytes DEF Row
  <2>2. Bytes(filled, u) = old \cup new /\ old \cap new = {}
    BY <1>3, EntryAddsItsSize
  <2> HIDE DEF old, new
  <2>3. IsFiniteSet(old)
    BY DEF old
  <2>4. /\ IsFiniteSet(old \cup new)
        /\ Cardinality(old \cup new) = Cardinality(old) + Cardinality(new) - Cardinality(old \cap new)
    BY <2>1, <2>3, FS_Union
  <2>5. Cardinality(old \cap new) = 0
    BY <2>2, FS_EmptySet
  <2>6. Cardinality(old) \in Nat /\ old = Bytes(table, u)
    BY <1>1 DEF old
  <2> QED
    BY <1>3, <2>1, <2>2, <2>4, <2>5, <2>6
<1> QED
  BY <1>2, <1>3

(* Handlers that carry one upload each carry so much at most.              *)
LEMMA CarriedAtMost ==
  ASSUME NEW jobs, NEW W \in SUBSET Workers, NEW u, NEW carried, carried \subseteq Bytes(jobs, u),
         \A p \in carried : \E w \in W, i \in Nat : p = <<w, i>>,
         \A w \in W : w \in DOMAIN jobs /\ (jobs[w] # NoRow => jobs[w] \in Row /\ jobs[w].size <= MaxUpload)
  PROVE  /\ IsFiniteSet(carried) /\ Cardinality(carried) \in Nat
         /\ Cardinality(carried) <= Cardinality(W) * MaxUpload
<1> DEFINE bound == W \X (1..MaxUpload)
<1>1. carried \subseteq bound
  <2> SUFFICES ASSUME NEW p \in carried PROVE p \in bound
    OBVIOUS
  <2>1. PICK w \in W, i \in Nat : p = <<w, i>>
    OBVIOUS
  <2>2. PICK x \in DOMAIN jobs, j \in Int :
        p = <<x, j>> /\ j \in 1..jobs[x].size /\ jobs[x] # NoRow
    BY BytesAre
  <2>3. x = w /\ j = i
    BY <2>1, <2>2
  <2>4. jobs[w].size \in Nat /\ jobs[w].size <= MaxUpload /\ i \in 1..jobs[w].size
    BY <2>2, <2>3 DEF Row
  <2>5. i \in 1..MaxUpload
    BY <2>4, LimitsAssumption
  <2> QED
    BY <2>1, <2>5
<1>2. IsFiniteSet(W)
  BY WorkersAssumption, FS_Subset
<1>3. IsFiniteSet(1..MaxUpload) /\ Cardinality(1..MaxUpload) = MaxUpload
  <2>1. \A a, b \in Int : IsFiniteSet(a..b) /\ Cardinality(a..b) = IF a > b THEN 0 ELSE b - a + 1
    BY FS_Interval
  <2> QED
    BY <2>1, LimitsAssumption
<1>4. IsFiniteSet(bound) /\ Cardinality(bound) = Cardinality(W) * MaxUpload
  BY <1>2, <1>3, FS_Product
<1>5. IsFiniteSet(carried) /\ Cardinality(carried) <= Cardinality(bound)
  BY <1>1, <1>4, FS_Subset
<1> QED
  BY <1>4, <1>5, FS_CardinalityType

(* What all handlers carry for a user is a finite number of bytes.         *)
LEMMA InFlightIsFinite ==
  ASSUME TypeOK, JobsWithinLimit, NEW u
  PROVE  IsFiniteSet(Bytes(job, u)) /\ Cardinality(Bytes(job, u)) \in Nat
<1>1. \A p \in Bytes(job, u) : \E w \in Workers, i \in Nat : p = <<w, i>>
  <2> SUFFICES ASSUME NEW p \in Bytes(job, u)
               PROVE  \E w \in Workers, i \in Nat : p = <<w, i>>
    OBVIOUS
  <2>1. PICK x \in DOMAIN job, i \in Int :
        p = <<x, i>> /\ i \in 1..job[x].size /\ job[x] # NoRow
    BY BytesAre
  <2>2. x \in Workers /\ job[x] \in Row
    BY <2>1 DEF TypeOK
  <2>3. i \in Nat
    BY <2>1, <2>2 DEF Row
  <2> QED
    BY <2>1, <2>2, <2>3
<1>2. \A w \in Workers :
        w \in DOMAIN job /\ (job[w] # NoRow => job[w] \in Row /\ job[w].size <= MaxUpload)
  BY DEF TypeOK, JobsWithinLimit
<1>3. Workers \in SUBSET Workers
  OBVIOUS
<1> QED
  BY <1>1, <1>2, <1>3, CarriedAtMost

-----------------------------------------------------------------------------
(* The steps                                                               *)

(* Table and handlers hold no more than before, and no fault is forgotten. *)
Lighter ==
  /\ Lessened(rows, rows')
  /\ Lessened(job, job')
  /\ faults <= faults'

(* Only inserting a row and admitting an upload are not of this kind: the  *)
(* row that is counted or dated keeps its user and its size.               *)
LEMMA OnlyUploadsWeigh ==
  IInv /\ IInv' /\ [Next]_vars =>
    Lighter \/ \E w \in Workers : InsertRow(w) \/ AdmitUpload(w) \/ AdmitUnmetered(w)
<1> SUFFICES ASSUME IInv, IInv', [Next]_vars,
                    ~\E w \in Workers : InsertRow(w) \/ AdmitUpload(w) \/ AdmitUnmetered(w)
             PROVE  Lighter
  OBVIOUS
<1>1. /\ DOMAIN rows = Shares /\ DOMAIN rows' = Shares
      /\ DOMAIN job = Workers /\ DOMAIN job' = Workers
      /\ faults \in Nat /\ faults' \in Nat
  BY DEF IInv, TypeOK
<1>2. rows' = rows => Lessened(rows, rows')
  BY DEF Lessened
<1>3. job' = job => Lessened(job, job')
  BY DEF Lessened
<1>4. ASSUME NEW w \in Workers, Finish(w) PROVE Lessened(job, job')
  BY <1>1, <1>4 DEF Finish, Lessened
<1>5. ASSUME NEW s, DeleteRow(s) PROVE Lessened(rows, rows')
  BY <1>1, <1>5 DEF DeleteRow, Lessened
<1>6. ASSUME NEW w \in Workers, NEW e, job[w] \in Row, job' = [job EXCEPT ![w].expires = e]
      PROVE  Lessened(job, job')
  <2> DEFINE dated == [job[w] EXCEPT !.expires = e]
  <2>1. dated.user = job[w].user /\ dated.size = job[w].size /\ job[w] # NoRow
    BY <1>6, SentinelAssumption DEF Row
  <2>2. job' = [job EXCEPT ![w] = dated]
    BY <1>6
  <2> HIDE DEF dated
  <2> QED
    BY <1>1, <2>1, <2>2 DEF Lessened
<1> USE SentinelAssumption DEF store, handler, sweep, history
<1>7. ASSUME NEW w \in Workers, NEW s \in Shares, LookUp(w, s) \/ FindOwned(w, s) PROVE Lighter
  BY <1>1, <1>2, <1>3, <1>7 DEF LookUp, FindOwned, Lighter
<1>8. ASSUME NEW w \in Workers, CreateBlob(w) PROVE Lighter
  <2>1. job[w] \in Row
    BY <1>8 DEF CreateBlob, IInv, HandlersKnow
  <2>2. job' = [job EXCEPT ![w].expires = ExpiryOf(job[w].ttl)] /\ rows' = rows /\ faults' = faults
    BY <1>8 DEF CreateBlob
  <2>3. PICK e : e = ExpiryOf(job[w].ttl)
    OBVIOUS
  <2>4. job' = [job EXCEPT ![w].expires = e]
    BY <2>2, <2>3
  <2>5. Lessened(job, job')
    BY <1>6, <2>1, <2>4
  <2> QED
    BY <1>1, <1>2, <2>2, <2>5 DEF Lighter
<1>9. ASSUME NEW w \in Workers, MergeParts(w) PROVE Lighter
  <2>1. job[w] \in Row
    BY <1>9 DEF MergeParts, IInv, HandlersKnow, Uploading
  <2>2. job' = [job EXCEPT ![w].expires = ExpiryOf(job[w].ttl)] /\ rows' = rows /\ faults' = faults
    BY <1>9 DEF MergeParts
  <2>3. PICK e : e = ExpiryOf(job[w].ttl)
    OBVIOUS
  <2>4. job' = [job EXCEPT ![w].expires = e]
    BY <2>2, <2>3
  <2>5. Lessened(job, job')
    BY <1>6, <2>1, <2>4
  <2> QED
    BY <1>1, <1>2, <2>2, <2>5 DEF Lighter
<1>10. ASSUME NEW w \in Workers, CopyBlob(w) \/ CreateFinal(w) \/ UnlinkBlob(w) PROVE Lighter
  BY <1>1, <1>2, <1>3, <1>10 DEF CopyBlob, CreateFinal, UnlinkBlob, Unlink, WriteBlob, Lighter
<1>11. ASSUME NEW w \in Workers,
              \/ AbandonUpload(w) \/ CopyFails(w) \/ MergeFails(w) \/ InsertFails(w)
              \/ RefuseDownload(w) \/ OpenBlob(w) \/ FileMissing(w) \/ DeleteFails(w)
       PROVE  Lighter
  <2>1. Finish(w) /\ rows' = rows /\ faults <= faults'
    BY <1>1, <1>11 DEF AbandonUpload, CopyFails, MergeFails, InsertFails, Unlink,
       RefuseDownload, OpenBlob, FileMissing, DeleteFails
  <2> QED
    BY <1>2, <1>4, <2>1 DEF Lighter
<1>12. ASSUME NEW w \in Workers, GrantDownload(w) PROVE Lighter
  <2>1. PICK t \in Shares : t = target[w] /\ rows[t] \in Row
    BY <1>12 DEF GrantDownload, IInv, TypeOK, HandlersKnow, Listed
  <2> DEFINE counted == [rows[t] EXCEPT !.count = @ + 1]
  <2>2. counted.user = rows[t].user /\ counted.size = rows[t].size /\ rows[t] # NoRow
    BY <2>1 DEF Row
  <2>3. rows' = [rows EXCEPT ![t] = counted] /\ job' = job /\ faults' = faults
    BY <1>12, <2>1 DEF GrantDownload
  <2> HIDE DEF counted
  <2>4. Lessened(rows, rows')
    BY <1>1, <2>2, <2>3 DEF Lessened
  <2> QED
    BY <1>1, <1>3, <2>3, <2>4 DEF Lighter
<1>13. ASSUME NEW w \in Workers, DeleteShare(w) PROVE Lighter
  <2>1. DeleteRow(target[w]) /\ Finish(w) /\ faults' = faults
    BY <1>13 DEF DeleteShare
  <2> QED
    BY <1>1, <1>4, <1>5, <2>1 DEF Lighter
<1>14. CASE SweepDelete
  <2>1. DeleteRow(sweepCur) /\ job' = job /\ faults' = faults
    BY <1>14 DEF SweepDelete
  <2> QED
    BY <1>1, <1>3, <1>5, <2>1 DEF Lighter
<1>15. CASE StartSweep \/ SweepUnlink \/ SweepDeleteFails \/ EndSweep
  BY <1>1, <1>2, <1>3, <1>15 DEF StartSweep, SweepUnlink, Unlink, SweepDeleteFails, EndSweep, Lighter
<1>16. CASE Crash
  <2>1. rows' = rows /\ faults <= faults' /\ job' = [w \in Workers |-> NoRow]
    BY <1>1, <1>16 DEF Crash
  <2>2. Lessened(job, job')
    BY <1>1, <2>1 DEF Lessened
  <2> QED
    BY <1>2, <2>1, <2>2 DEF Lighter
<1>17. CASE Tick \/ UNCHANGED vars
  BY <1>1, <1>2, <1>3, <1>17 DEF Tick, vars, Lighter
<1> QED
  BY <1>7, <1>8, <1>9, <1>10, <1>11, <1>12, <1>13, <1>14, <1>15, <1>16, <1>17
  DEF Next, Arrival, HandlerStep, SweepStep

(* What may be stored and in flight at once, as the bound counts it.       *)
Slots == Cardinality(Workers) - 1 + faults

LEMMA SlotsCount ==
  ASSUME IInv
  PROVE  /\ Slots \in Int /\ faults \in Nat
         /\ Cardinality(Workers) - 1 \in Nat /\ Slots >= Cardinality(Workers) - 1
<1>1. Cardinality(Workers) \in Nat /\ Cardinality(Workers) # 0
  BY WorkersAssumption, FS_CardinalityType, FS_EmptySet
<1> QED
  BY <1>1 DEF IInv, TypeOK, Slots

(* Bytes taken away leave the bound as it was.                             *)
LEMMA LighterKeepsQuota ==
  ASSUME QInv, IInv', Lighter
  PROVE  JobsWithinLimit' /\ StoredIsFinite' /\ QuotaOvershootBounded'
<1>1. JobsWithinLimit'
  BY DEF QInv, JobsWithinLimit, Lighter, Lessened, IInv, TypeOK
<1>2. ASSUME NEW u \in Users
      PROVE  /\ IsFiniteSet(Bytes(rows', u))
             /\ Cardinality(Bytes(rows', u)) + Cardinality(Bytes(job', u))
                  <= Quota + Grace + (Cardinality(Workers) - 1 + faults') * MaxUpload
  <2>1. Bytes(rows', u) \subseteq Bytes(rows, u) /\ Bytes(job', u) \subseteq Bytes(job, u)
    BY LessenedHoldsLess DEF Lighter
  <2>2. IsFiniteSet(Bytes(rows, u)) /\ IsFiniteSet(Bytes(job, u))
    BY InFlightIsFinite DEF QInv, IInv, StoredIsFinite
  <2>3. /\ IsFiniteSet(Bytes(rows', u)) /\ Cardinality(Bytes(rows', u)) <= Cardinality(Bytes(rows, u))
        /\ IsFiniteSet(Bytes(job', u)) /\ Cardinality(Bytes(job', u)) <= Cardinality(Bytes(job, u))
    BY <2>1, <2>2, FS_Subset
  <2>4. /\ Cardinality(Bytes(rows, u)) \in Nat /\ Cardinality(Bytes(job, u)) \in Nat
        /\ Cardinality(Bytes(rows', u)) \in Nat /\ Cardinality(Bytes(job', u)) \in Nat
    BY <2>2, <2>3, FS_CardinalityType
  <2>5. Cardinality(Bytes(rows, u)) + Cardinality(Bytes(job, u)) <= Quota + Grace + Slots * MaxUpload
    BY DEF QInv, QuotaOvershootBounded, StorageUsed, InFlightSize, Slots
  <2> DEFINE later == Cardinality(Workers) - 1 + faults'
  <2>6. later \in Int /\ Slots \in Int /\ Slots <= later
    BY SlotsCount DEF QInv, IInv, TypeOK, Slots, Lighter
  <2> HIDE DEF later
  <2>7. Slots * MaxUpload <= later * MaxUpload /\ Slots * MaxUpload \in Int /\ later * MaxUpload \in Int
    BY <2>6, Uploads, LimitsAssumption
  <2>8. Cardinality(Bytes(rows', u)) + Cardinality(Bytes(job', u)) <= Quota + Grace + later * MaxUpload
    BY <2>3, <2>4, <2>5, <2>7, LimitsAssumption
  <2> QED
    BY <2>3, <2>8 DEF later
<1> QED
  BY <1>1, <1>2 DEF StoredIsFinite, QuotaOvershootBounded, StorageUsed, InFlightSize

(* INSERT moves an upload from its handler to the table, byte for byte.    *)
LEMMA InsertMovesBytes ==
  ASSUME QInv, IInv', NEW w \in Workers, InsertRow(w)
  PROVE  JobsWithinLimit' /\ StoredIsFinite' /\ QuotaOvershootBounded'
<1>1. PICK t \in Shares : t = target[w] /\ rows[t] = NoRow /\ job[w] \in Row
  BY DEF InsertRow, QInv, IInv, TypeOK, HandlersKnow, Uploading, LastRow, Listed
<1>2. /\ rows' = [rows EXCEPT ![t] = job[w]]
      /\ job' = [job EXCEPT ![w] = NoRow]
      /\ faults' = faults
  BY <1>1 DEF InsertRow, Finish
<1>3. JobsWithinLimit'
  BY <1>2 DEF QInv, IInv, TypeOK, JobsWithinLimit
<1>4. Filled(rows, rows', t, job[w])
  BY <1>1, <1>2 DEF Filled, QInv, IInv, TypeOK
<1>5. Filled(job', job, w, job[w])
  BY <1>1, <1>2 DEF Filled, QInv, IInv, TypeOK
<1>6. ASSUME NEW u \in Users
      PROVE  /\ IsFiniteSet(Bytes(rows', u))
             /\ Cardinality(Bytes(rows', u)) + Cardinality(Bytes(job', u))
                  = Cardinality(Bytes(rows, u)) + Cardinality(Bytes(job, u))
  <2>1. IsFiniteSet(Bytes(rows, u)) /\ IsFiniteSet(Bytes(job, u))
    BY InFlightIsFinite DEF QInv, IInv, StoredIsFinite
  <2>2. Lessened(job, job')
    BY <1>1, <1>2 DEF Lessened, QInv, IInv, TypeOK
  <2>3. IsFiniteSet(Bytes(job', u))
    BY <2>1, <2>2, LessenedHoldsLess, FS_Subset
  <2>4. /\ IsFiniteSet(Bytes(rows', u))
        /\ Cardinality(Bytes(rows', u)) =
             Cardinality(Bytes(rows, u)) + (IF job[w].user = u THEN job[w].size ELSE 0)
    BY <1>1, <1>4, <2>1, EntryCounts
  <2>5. Cardinality(Bytes(job, u)) =
          Cardinality(Bytes(job', u)) + (IF job[w].user = u THEN job[w].size ELSE 0)
    BY <1>1, <1>5, <2>3, EntryCounts
  <2>6. /\ Cardinality(Bytes(rows, u)) \in Nat /\ Cardinality(Bytes(job', u)) \in Nat
        /\ job[w].size \in Nat
    BY <1>1, <2>1, <2>3, FS_CardinalityType DEF Row
  <2> QED
    BY <2>4, <2>5, <2>6
<1> QED
  BY <1>2, <1>3, <1>6 DEF QInv, StoredIsFinite, QuotaOvershootBounded, StorageUsed, InFlightSize

(* What an admission changes: one handler carries an upload within the     *)
(* limit of the form, of the user whose quota was read.                    *)
Admitted(w, u, size) ==
  /\ size \in Nat /\ size <= MaxUpload
  /\ rows' = rows
  /\ DOMAIN job' = DOMAIN job
  /\ job'[w] \in Row /\ job'[w].user = u /\ job'[w].size = size
  /\ \A v \in Workers : v # w => job'[v] = job[v]

LEMMA AdmitAdmits ==
  ASSUME IInv, IInv', NEW w \in Workers, NEW u \in Users, NEW size \in SizeChoices,
         NEW maxDL, NEW ttl, Admit(w, u, size, maxDL, ttl)
  PROVE  Admitted(w, u, size)
<1>1. size \in Nat /\ size <= MaxUpload
  BY FormAssumption, LimitsAssumption DEF Admit
<1>2. rows' = rows
  BY DEF Admit, store
<1> DEFINE row == [user |-> u, size |-> size, maxDL |-> Clamp(maxDL),
                   ttl |-> Clamp(ttl), expires |-> 0, count |-> 0]
<1>3. job' = [job EXCEPT ![w] = row]
  BY DEF Admit
<1>4. row.user = u /\ row.size = size /\ "user" \in DOMAIN row
  OBVIOUS
<1>5. DOMAIN job = Workers
  BY DEF IInv, TypeOK
<1>6. pc'[w] = "admitted"
  BY DEF Admit, Goto, IInv, TypeOK
<1>7. job'[w] \in Row
  BY <1>6 DEF IInv, HandlersKnow
<1> HIDE DEF row
<1> QED
  BY <1>1, <1>2, <1>3, <1>4, <1>5, <1>7 DEF Admitted

(* The limit of the form covers the new upload, and the table is as it was.*)
LEMMA AdmissionKeepsLimits ==
  ASSUME QInv, NEW w \in Workers, NEW u \in Users, NEW size, Admitted(w, u, size)
  PROVE  JobsWithinLimit' /\ StoredIsFinite'
<1>1. JobsWithinLimit'
  <2> SUFFICES ASSUME NEW v \in Workers, job'[v] # NoRow PROVE job'[v].size <= MaxUpload
    BY DEF JobsWithinLimit
  <2>1. CASE v = w
    BY <2>1 DEF Admitted
  <2>2. CASE v # w
    BY <2>2 DEF Admitted, QInv, JobsWithinLimit
  <2> QED
    BY <2>1, <2>2
<1>2. StoredIsFinite'
  BY DEF Admitted, QInv, StoredIsFinite
<1> QED
  BY <1>1, <1>2

(* The bytes in flight after an admission are those of the new upload and  *)
(* those the other handlers carried.                                       *)
LEMMA InFlightAfterAdmission ==
  ASSUME QInv, NEW w \in Workers, NEW u \in Users, NEW size, Admitted(w, u, size),
         NEW o \in Users
  PROVE  Bytes(job', o) = (IF o = u THEN {w} \X (1..size) ELSE {})
                            \cup {p \in Bytes(job, o) : \E v \in Workers \ {w}, i \in Nat : p = <<v, i>>}
<1>1. DOMAIN job = Workers /\ DOMAIN job' = Workers
      /\ \A v \in Workers : job[v] # NoRow => job[v] \in Row
  BY DEF QInv, IInv, TypeOK, Admitted
<1> DEFINE own == IF o = u THEN {w} \X (1..size) ELSE {}
           rest == {p \in Bytes(job, o) : \E v \in Workers \ {w}, i \in Nat : p = <<v, i>>}
<1>2. ASSUME NEW p \in Bytes(job', o) PROVE p \in own \cup rest
  <2>1. PICK x \in DOMAIN job', i \in Int :
          p = <<x, i>> /\ i \in 1..job'[x].size /\ job'[x] # NoRow /\ job'[x].user = o
    BY BytesAre
  <2>2. CASE x = w
    <3>1. o = u /\ i \in 1..size
      BY <2>1, <2>2 DEF Admitted
    <3> QED
      BY <2>1, <2>2, <3>1
  <2>3. CASE x # w
    <3>1. x \in Workers \ {w} /\ job'[x] = job[x] /\ job[x] \in Row
      BY <1>1, <2>1, <2>3 DEF Admitted
    <3>2. p \in Bytes(job, o) /\ i \in Nat
      BY <1>1, <2>1, <3>1, BytesAre DEF Row
    <3> QED
      BY <2>1, <3>1, <3>2
  <2> QED
    BY <2>2, <2>3
<1>3. ASSUME NEW p \in own PROVE p \in Bytes(job', o)
  <2>1. o = u
    BY <1>3
  <2>2. PICK i \in 1..size : p = <<w, i>>
    BY <1>3, <2>1
  <2>3. i \in Int /\ i \in 1..job'[w].size /\ job'[w] # NoRow /\ job'[w].user = o
    BY <2>1, <2>2, SentinelAssumption DEF Admitted
  <2> QED
    BY <1>1, <2>2, <2>3, BytesAre
<1>4. ASSUME NEW p \in rest PROVE p \in Bytes(job', o)
  <2>1. PICK x \in DOMAIN job, i \in Int :
          p = <<x, i>> /\ i \in 1..job[x].size /\ job[x] # NoRow /\ job[x].user = o
    BY <1>4, BytesAre
  <2>2. x # w
    BY <1>4, <2>1
  <2>3. job'[x] = job[x]
    BY <1>1, <2>1, <2>2 DEF Admitted
  <2> QED
    BY <1>1, <2>1, <2>3, BytesAre
<1> HIDE DEF own, rest
<1>5. Bytes(job', o) = own \cup rest
  BY <1>2, <1>3, <1>4
<1> QED
  BY <1>5 DEF own, rest

(* The other handlers carry one upload each at most.                       *)
LEMMA OthersCarry ==
  ASSUME QInv, NEW w \in Workers, NEW o,
         NEW rest, rest = {p \in Bytes(job, o) : \E v \in Workers \ {w}, i \in Nat : p = <<v, i>>}
  PROVE  /\ IsFiniteSet(rest) /\ Cardinality(rest) \in Nat
         /\ Cardinality(rest) <= (Cardinality(Workers) - 1) * MaxUpload
         /\ Cardinality(rest) <= Cardinality(Bytes(job, o))
<1>1. rest \subseteq Bytes(job, o) /\ Workers \ {w} \in SUBSET Workers
  OBVIOUS
<1>2. \A p \in rest : \E v \in Workers \ {w}, i \in Nat : p = <<v, i>>
  OBVIOUS
<1>3. \A v \in Workers \ {w} :
        v \in DOMAIN job /\ (job[v] # NoRow => job[v] \in Row /\ job[v].size <= MaxUpload)
  BY DEF QInv, IInv, TypeOK, JobsWithinLimit
<1>4. /\ IsFiniteSet(rest) /\ Cardinality(rest) \in Nat
      /\ Cardinality(rest) <= Cardinality(Workers \ {w}) * MaxUpload
  BY <1>1, <1>2, <1>3, CarriedAtMost
<1>5. Cardinality(Workers \ {w}) = Cardinality(Workers) - 1
  BY WorkersAssumption, FS_RemoveElement
<1>6. Cardinality(rest) <= Cardinality(Bytes(job, o))
  BY <1>1, InFlightIsFinite, FS_Subset DEF QInv, IInv
<1> QED
  BY <1>4, <1>5, <1>6

(* What is stored and in flight after an admission, counted: of the user   *)
(* the new upload and the others' uploads, of anybody else no more than    *)
(* before.                                                                 *)
LEMMA AdmissionCounts ==
  ASSUME QInv, NEW w \in Workers, NEW u \in Users, NEW size, Admitted(w, u, size),
         NEW o \in Users
  PROVE  /\ Cardinality(Bytes(job', o)) \in Nat
         /\ o # u => Cardinality(Bytes(job', o)) <= Cardinality(Bytes(job, o))
         /\ o = u => /\ Cardinality(Bytes(job', o)) <= size + Cardinality(Bytes(job, o))
                     /\ Cardinality(Bytes(job', o)) <= size + (Cardinality(Workers) - 1) * MaxUpload
<1> DEFINE own == IF o = u THEN {w} \X (1..size) ELSE {}
<1>1. PICK rest :
        rest = {p \in Bytes(job, o) : \E v \in Workers \ {w}, i \in Nat : p = <<v, i>>}
  OBVIOUS
<1>2. /\ IsFiniteSet(rest) /\ Cardinality(rest) \in Nat
      /\ Cardinality(rest) <= (Cardinality(Workers) - 1) * MaxUpload
      /\ Cardinality(rest) <= Cardinality(Bytes(job, o))
  BY <1>1, OthersCarry
<1>3. size \in Nat
  BY DEF Admitted
<1>4. IsFiniteSet(own) /\ Cardinality(own) = (IF o = u THEN size ELSE 0)
  <2>1. IsFiniteSet({w} \X (1..size)) /\ Cardinality({w} \X (1..size)) = size
    BY <1>3, EntryBytes
  <2>2. IsFiniteSet({}) /\ Cardinality({}) = 0
    BY FS_EmptySet
  <2> QED
    BY <2>1, <2>2
<1>5. Bytes(job', o) = own \cup rest
  BY <1>1, InFlightAfterAdmission
<1> HIDE DEF own
<1>6. /\ IsFiniteSet(own \cup rest) /\ IsFiniteSet(own \cap rest)
      /\ Cardinality(own \cup rest) = Cardinality(own) + Cardinality(rest) - Cardinality(own \cap rest)
  <2>1. own \cap rest \in SUBSET own
    OBVIOUS
  <2> QED
    BY <1>2, <1>4, <2>1, FS_Union, FS_Subset
<1>7. Cardinality(own \cup rest) \in Nat /\ Cardinality(own \cap rest) \in Nat
  BY <1>6, FS_CardinalityType
<1>8. Cardinality(Bytes(job, o)) \in Nat /\ (Cardinality(Workers) - 1) * MaxUpload \in Int
  <2>1. Cardinality(Bytes(job, o)) \in Nat
    BY InFlightIsFinite DEF QInv, IInv
  <2>2. (Cardinality(Workers) - 1) * MaxUpload \in Int
    BY SlotsCount, Uploads, LimitsAssumption DEF QInv
  <2> QED
    BY <2>1, <2>2
<1>9. Cardinality(Bytes(job', o)) <= (IF o = u THEN size ELSE 0) + Cardinality(rest)
  BY <1>2, <1>3, <1>4, <1>5, <1>6, <1>7
<1> QED
  BY <1>2, <1>3, <1>5, <1>7, <1>8, <1>9

(* An admission within the quota: what is stored plus the new upload is    *)
(* what the check allowed, and the other handlers add theirs.              *)
LEMMA MeteredKeepsQuota ==
  ASSUME QInv, IInv', NEW w \in Workers, AdmitUpload(w)
  PROVE  JobsWithinLimit' /\ StoredIsFinite' /\ QuotaOvershootBounded'
<1>1. PICK u \in Users, size \in SizeChoices, maxDL \in DownloadChoices, ttl \in TtlChoices :
        WithinQuota(u, size) /\ Admit(w, u, size, maxDL, ttl) /\ faults' = faults
  BY DEF AdmitUpload
<1>2. Admitted(w, u, size)
  BY <1>1, AdmitAdmits DEF QInv
<1>3. JobsWithinLimit' /\ StoredIsFinite'
  BY <1>2, AdmissionKeepsLimits
<1> DEFINE others == (Cardinality(Workers) - 1) * MaxUpload
           slots == Slots * MaxUpload
<1>4. others \in Int /\ slots \in Int /\ others <= slots
  BY SlotsCount, Uploads, LimitsAssumption DEF QInv
<1> HIDE DEF others, slots
<1>5. ASSUME NEW o \in Users
      PROVE  Cardinality(Bytes(rows', o)) + Cardinality(Bytes(job', o)) <= Quota + Grace + slots
  <2>1. rows' = rows
    BY <1>2 DEF Admitted
  <2>2. /\ Cardinality(Bytes(rows, o)) \in Nat /\ Cardinality(Bytes(job, o)) \in Nat
        /\ Cardinality(Bytes(job', o)) \in Nat
    BY <1>2, AdmissionCounts, InFlightIsFinite, FS_CardinalityType DEF QInv, IInv, StoredIsFinite
  <2>3. size \in Nat
    BY <1>2 DEF Admitted
  <2>4. CASE o # u
    <3>1. Cardinality(Bytes(job', o)) <= Cardinality(Bytes(job, o))
      BY <1>2, <2>4, AdmissionCounts
    <3>2. Cardinality(Bytes(rows, o)) + Cardinality(Bytes(job, o)) <= Quota + Grace + slots
      BY DEF QInv, QuotaOvershootBounded, StorageUsed, InFlightSize, Slots, slots
    <3> QED
      BY <1>4, <2>1, <2>2, <3>1, <3>2, LimitsAssumption
  <2>5. CASE o = u
    <3>1. Cardinality(Bytes(job', o)) <= size + others
      BY <1>2, <2>5, AdmissionCounts DEF others
    <3>2. Cardinality(Bytes(rows, o)) + size <= Quota + Grace
      BY <1>1, <2>5 DEF WithinQuota, StorageUsed
    <3> QED
      BY <1>4, <2>1, <2>2, <2>3, <3>1, <3>2, LimitsAssumption
  <2> QED
    BY <2>4, <2>5
<1> QED
  BY <1>1, <1>3, <1>5 DEF QuotaOvershootBounded, StorageUsed, InFlightSize, Slots, slots

(* A failed query lets one more upload in, and counts as one fault.        *)
LEMMA UnmeteredKeepsQuota ==
  ASSUME QInv, IInv', NEW w \in Workers, AdmitUnmetered(w)
  PROVE  JobsWithinLimit' /\ StoredIsFinite' /\ QuotaOvershootBounded'
<1>1. PICK u \in Users, size \in SizeChoices, maxDL \in DownloadChoices, ttl \in TtlChoices :
        Admit(w, u, size, maxDL, ttl) /\ faults' = faults + 1
  BY DEF AdmitUnmetered
<1>2. Admitted(w, u, size)
  BY <1>1, AdmitAdmits DEF QInv
<1>3. JobsWithinLimit' /\ StoredIsFinite'
  BY <1>2, AdmissionKeepsLimits
<1> DEFINE slots == Slots * MaxUpload
           later == (Cardinality(Workers) - 1 + faults') * MaxUpload
<1>4. slots \in Int /\ later = slots + MaxUpload
  <2>1. Slots \in Int /\ Cardinality(Workers) - 1 + faults' = Slots + 1
    BY <1>1, SlotsCount DEF QInv, Slots
  <2> QED
    BY <2>1, Uploads, LimitsAssumption
<1> HIDE DEF slots, later
<1>5. ASSUME NEW o \in Users
      PROVE  Cardinality(Bytes(rows', o)) + Cardinality(Bytes(job', o)) <= Quota + Grace + later
  <2>1. rows' = rows
    BY <1>2 DEF Admitted
  <2>2. /\ Cardinality(Bytes(rows, o)) \in Nat /\ Cardinality(Bytes(job, o)) \in Nat
        /\ Cardinality(Bytes(job', o)) \in Nat
    BY <1>2, AdmissionCounts, InFlightIsFinite, FS_CardinalityType DEF QInv, IInv, StoredIsFinite
  <2>3. size \in Nat /\ size <= MaxUpload
    BY <1>2 DEF Admitted
  <2>4. Cardinality(Bytes(job', o)) <= size + Cardinality(Bytes(job, o))
    BY <1>2, <2>2, <2>3, AdmissionCounts
  <2>5. Cardinality(Bytes(rows, o)) + Cardinality(Bytes(job, o)) <= Quota + Grace + slots
    BY DEF QInv, QuotaOvershootBounded, StorageUsed, InFlightSize, Slots, slots
  <2> QED
    BY <1>4, <2>1, <2>2, <2>3, <2>4, <2>5, LimitsAssumption
<1> QED
  BY <1>3, <1>5 DEF QuotaOvershootBounded, StorageUsed, InFlightSize, later

-----------------------------------------------------------------------------
(* The theorem                                                             *)

(* An empty table and idle handlers hold nothing.                          *)
LEMMA QuotaInitially == Init => QInv
<1> SUFFICES ASSUME Init PROVE QInv
  OBVIOUS
<1>1. IInv
  BY InitEstablishes
<1>2. JobsWithinLimit
  BY DEF Init, JobsWithinLimit
<1>3. \A u : Bytes(rows, u) = {} /\ Bytes(job, u) = {}
  BY DEF Init, Bytes
<1>4. IsFiniteSet({}) /\ Cardinality({}) = 0
  BY FS_EmptySet
<1>5. StoredIsFinite
  BY <1>3, <1>4 DEF StoredIsFinite
<1>6. Slots \in Nat
  BY <1>1, SlotsCount
<1>7. 0 * MaxUpload <= Slots * MaxUpload /\ Slots * MaxUpload \in Int
  BY <1>6, Uploads, LimitsAssumption
<1> DEFINE slots == Slots * MaxUpload
<1>8. slots \in Int /\ 0 <= slots
  BY <1>7, LimitsAssumption
<1> HIDE DEF slots
<1>9. 0 + 0 <= Quota + Grace + slots
  BY <1>8, LimitsAssumption
<1>10. QuotaOvershootBounded
  BY <1>3, <1>4, <1>9 DEF QuotaOvershootBounded, StorageUsed, InFlightSize, Slots, slots
<1> QED
  BY <1>1, <1>2, <1>5, <1>10 DEF QInv

LEMMA QuotaKept == QInv /\ [Next]_vars => QInv'
<1> SUFFICES ASSUME QInv, [Next]_vars PROVE QInv'
  OBVIOUS
<1>1. IInv'
  BY TypePreserved, HandlersKnowPreserved, UploadsDisjointPreserved, FreshIsUnusedPreserved,
     SweepKnowsPreserved, RowsHaveWholeFilesPreserved, FilesHaveRowsPreserved,
     DownloadsWithinLimitPreserved DEF QInv, IInv
<1>2. JobsWithinLimit' /\ StoredIsFinite' /\ QuotaOvershootBounded'
  BY <1>1, OnlyUploadsWeigh, LighterKeepsQuota, InsertMovesBytes, MeteredKeepsQuota,
     UnmeteredKeepsQuota DEF QInv
<1> QED
  BY <1>1, <1>2 DEF QInv

(* However uploads interleave between the check of the quota and their     *)
(* INSERT, and whichever quota queries fail, what a user stores and has in *)
(* flight exceeds the quota and its grace by at most one upload for every  *)
(* other handler and every fault.                                          *)
THEOREM QuotaOvershootLimited == Spec => []QuotaOvershootBounded
<1>1. QInv => QuotaOvershootBounded
  BY DEF QInv
<1> QED
  BY <1>1, QuotaInitially, QuotaKept, PTL DEF Spec

=============================================================================
