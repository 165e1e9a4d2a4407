--------------------------- MODULE ShareStoreProofs ---------------------------
(***************************************************************************)
(* TLAPS proofs about ShareStore for every number of handlers, accounts    *)
(* and shares, every limit and every pool size.  IInv is shown inductive   *)
(* one conjunct at a time (a lemma each, one step per action); the safety  *)
(* properties and the refinement of ShareLink follow from it.              *)
(***************************************************************************)
EXTENDS ShareStore, FiniteSetTheorems, TLAPS

-----------------------------------------------------------------------------
(* Records                                                                 *)

(* The UPDATE of IncrementDownload leaves a row of the table.              *)
LEMMA CountingKeepsRow ==
  ASSUME NEW r \in Row
  PROVE  LET c == [r EXCEPT !.count = @ + 1]
         IN  /\ c \in Row /\ c # NoRow
             /\ c.count = r.count + 1 /\ c.maxDL = r.maxDL /\ c.ttl = r.ttl
             /\ c.expires = r.expires
  BY SentinelAssumption DEF Row

(* Setting the expiry leaves a row that can be inserted.                   *)
LEMMA DatingKeepsRow ==
  ASSUME TypeOK, NEW r \in Row
  PROVE  LET d == [r EXCEPT !.expires = ExpiryOf(r.ttl)]
         IN  d \in Row /\ d.count = r.count
<1>1. ExpiryOf(r.ttl) \in Nat
  BY LimitsAssumption DEF ExpiryOf, TypeOK, Row
<1> QED
  BY <1>1 DEF Row

(* Only a later look at the clock, or one more download, separates two     *)
(* looks at a row: what was not active stays so.                           *)
LEMMA InactiveIsReapable ==
  ASSUME TypeOK, NEW r \in Row
  PROVE  Reapable(r) <=> ~Active(r)
  BY DEF Reapable, Active, TypeOK, Row

-----------------------------------------------------------------------------
(* The inductive invariant                                                 *)

(* A fresh database and an empty uploads directory satisfy it.             *)
LEMMA InitEstablishes == Init => IInv
<1> SUFFICES ASSUME Init PROVE IInv
  OBVIOUS
<1> USE DEF Init
<1>1. TypeOK
  BY DEF TypeOK, PC
<1>2. HandlersKnow /\ UploadsDisjoint
  BY DEF HandlersKnow, UploadsDisjoint, Uploading
<1>3. FreshIsUnused /\ SweepKnows
  BY DEF FreshIsUnused, SweepKnows, LastRow, Listed
<1>4. RowsHaveWholeFiles /\ FilesHaveRows
  BY DEF RowsHaveWholeFiles, FilesHaveRows, Listed
<1>5. DownloadsWithinLimit
  BY DEF DownloadsWithinLimit, LastRow, Listed
<1> QED
  BY <1>1, <1>2, <1>3, <1>4, <1>5 DEF IInv

(* Every step writes values of the declared types.                         *)
LEMMA TypePreserved == IInv /\ [Next]_vars => TypeOK'
<1> SUFFICES ASSUME IInv, [Next]_vars PROVE TypeOK'
  OBVIOUS
<1> USE SentinelAssumption, LimitsAssumption, FormAssumption DEF store, handler, sweep, history, Goto, Finish, WriteBlob, Unlink,
             DeleteRow, IInv, TypeOK, PC, HandlersKnow
<1>1. ASSUME NEW w \in Workers, AdmitUpload(w) PROVE TypeOK'
  BY <1>1 DEF AdmitUpload, Admit, Clamp, Row
<1>2. ASSUME NEW w \in Workers, AdmitUnmetered(w) PROVE TypeOK'
  BY <1>2 DEF AdmitUnmetered, Admit, Clamp, Row
<1>3. ASSUME NEW w \in Workers, CreateBlob(w) PROVE TypeOK'
  <2> DEFINE dated == [job[w] EXCEPT !.expires = ExpiryOf(job[w].ttl)]
  <2>1. job[w] \in Row /\ job[w].count = 0
    BY <1>3 DEF CreateBlob, HandlersKnow
  <2>2. dated \in Row /\ dated.count = 0
    BY <2>1, DatingKeepsRow
  <2>3. job' = [job EXCEPT ![w] = dated]
    BY <1>3 DEF CreateBlob
  <2> HIDE DEF dated
  <2> QED
    BY <1>3, <2>1, <2>2, <2>3 DEF CreateBlob
<1>4. ASSUME NEW w \in Workers, AbandonUpload(w) PROVE TypeOK'
  BY <1>4 DEF AbandonUpload
<1>5. ASSUME NEW w \in Workers, CopyBlob(w) PROVE TypeOK'
  BY <1>5 DEF CopyBlob
<1>6. ASSUME NEW w \in Workers, CopyFails(w) PROVE TypeOK'
  BY <1>6 DEF CopyFails, Uploading
<1>7. ASSUME NEW w \in Workers, InsertRow(w) PROVE TypeOK'
  BY <1>7 DEF InsertRow
<1>8. ASSUME NEW w \in Workers, InsertFails(w) PROVE TypeOK'
  BY <1>8 DEF InsertFails, Uploading
<1>9. ASSUME NEW w \in Workers, NEW s \in Shares, LookUp(w, s) PROVE TypeOK'
  BY <1>9 DEF LookUp
<1>10. ASSUME NEW w \in Workers, GrantDownload(w) PROVE TypeOK'
  <2> DEFINE row == [rows[target[w]] EXCEPT !.count = @ + 1]
  <2>1. rows[target[w]] \in Row /\ target[w] \in Shares
    BY <1>10 DEF GrantDownload, HandlersKnow, Listed
  <2>2. row \in Row /\ row # NoRow
    BY <2>1, CountingKeepsRow
  <2>3. rows' = [rows EXCEPT ![target[w]] = row]
    BY <1>10 DEF GrantDownload
  <2> HIDE DEF row
  <2> QED
    BY <1>10, <2>1, <2>2, <2>3 DEF GrantDownload
<1>11. ASSUME NEW w \in Workers, RefuseDownload(w) PROVE TypeOK'
  BY <1>11 DEF RefuseDownload
<1>12. ASSUME NEW w \in Workers, OpenBlob(w) PROVE TypeOK'
  BY <1>12 DEF OpenBlob
<1>13. ASSUME NEW w \in Workers, FileMissing(w) PROVE TypeOK'
  BY <1>13 DEF FileMissing
<1>14. ASSUME NEW w \in Workers, NEW s \in Shares, FindOwned(w, s) PROVE TypeOK'
  BY <1>14 DEF FindOwned
<1>15. ASSUME NEW w \in Workers, UnlinkBlob(w) PROVE TypeOK'
  BY <1>15 DEF UnlinkBlob
<1>16. ASSUME NEW w \in Workers, DeleteShare(w) PROVE TypeOK'
  BY <1>16 DEF DeleteShare
<1>17. ASSUME NEW w \in Workers, DeleteFails(w) PROVE TypeOK'
  BY <1>17 DEF DeleteFails
<1>18. ASSUME StartSweep PROVE TypeOK'
  BY <1>18 DEF StartSweep
<1>19. ASSUME SweepUnlink PROVE TypeOK'
  BY <1>19 DEF SweepUnlink
<1>20. ASSUME SweepDelete PROVE TypeOK'
  BY <1>20 DEF SweepDelete
<1>21. ASSUME SweepDeleteFails PROVE TypeOK'
  BY <1>21 DEF SweepDeleteFails, SweepKnows
<1>22. ASSUME EndSweep PROVE TypeOK'
  BY <1>22 DEF EndSweep
<1>23. ASSUME Crash PROVE TypeOK'
  BY <1>23 DEF Crash, CutShort, Uploading, SweepKnows
<1>24. ASSUME Tick PROVE TypeOK'
  BY <1>24 DEF Tick
<1>25. CASE UNCHANGED vars
  BY <1>25 DEF vars
<1>26. ASSUME NEW w \in Workers, CreateFinal(w) PROVE TypeOK'
  BY <1>26 DEF CreateFinal
<1>27. ASSUME NEW w \in Workers, MergeParts(w) PROVE TypeOK'
  <2> DEFINE dated == [job[w] EXCEPT !.expires = ExpiryOf(job[w].ttl)]
  <2>1. job[w] \in Row /\ job[w].count = 0
    BY <1>27 DEF MergeParts, HandlersKnow, Uploading
  <2>2. dated \in Row /\ dated.count = 0
    BY <2>1, DatingKeepsRow
  <2>3. job' = [job EXCEPT ![w] = dated]
    BY <1>27 DEF MergeParts
  <2> HIDE DEF dated
  <2> QED
    BY <1>27, <2>1, <2>2, <2>3 DEF MergeParts, Uploading
<1>28. ASSUME NEW w \in Workers, MergeFails(w) PROVE TypeOK'
  BY <1>28 DEF MergeFails, Uploading
<1> QED
  BY <1>1, <1>2, <1>3, <1>4, <1>5, <1>6, <1>7, <1>8, <1>9, <1>10, <1>11, <1>12,
     <1>13, <1>14, <1>15, <1>16, <1>17, <1>18, <1>19, <1>20, <1>21, <1>22, <1>23, <1>24,
     <1>25, <1>26, <1>27, <1>28 DEF Next, Arrival, HandlerStep, SweepStep

(* No other handler, and not the cleanup, takes away what a handler relies *)
(* on between two of its steps.                                            *)
LEMMA HandlersKnowPreserved == IInv /\ [Next]_vars => HandlersKnow'
<1> SUFFICES ASSUME IInv, [Next]_vars PROVE HandlersKnow'
  OBVIOUS
<1> USE SentinelAssumption, LimitsAssumption, FormAssumption DEF store, handler, sweep, history, Goto, Finish, WriteBlob, Unlink,
             DeleteRow, IInv, TypeOK, PC, HandlersKnow,
             UploadsDisjoint, FreshIsUnused, SweepKnows, Uploading, LastRow, Listed
<1>1. ASSUME NEW w \in Workers, AdmitUpload(w) PROVE HandlersKnow'
  BY <1>1 DEF AdmitUpload, Admit, Clamp, Row
<1>2. ASSUME NEW w \in Workers, AdmitUnmetered(w) PROVE HandlersKnow'
  BY <1>2 DEF AdmitUnmetered, Admit, Clamp, Row
<1>3. ASSUME NEW w \in Workers, CreateBlob(w) PROVE HandlersKnow'
  <2> DEFINE dated == [job[w] EXCEPT !.expires = ExpiryOf(job[w].ttl)]
  <2>1. job[w] \in Row /\ job[w].count = 0
    BY <1>3 DEF CreateBlob, HandlersKnow
  <2>2. dated \in Row /\ dated.count = 0
    BY <2>1, DatingKeepsRow
  <2>3. job' = [job EXCEPT ![w] = dated]
    BY <1>3 DEF CreateBlob
  <2> HIDE DEF dated
  <2> QED
    BY <1>3, <2>1, <2>2, <2>3 DEF CreateBlob
<1>4. ASSUME NEW w \in Workers, AbandonUpload(w) PROVE HandlersKnow'
  BY <1>4 DEF AbandonUpload
<1>5. ASSUME NEW w \in Workers, CopyBlob(w) PROVE HandlersKnow'
  BY <1>5 DEF CopyBlob
<1>6. ASSUME NEW w \in Workers, CopyFails(w) PROVE HandlersKnow'
  BY <1>6 DEF CopyFails
<1>7. ASSUME NEW w \in Workers, InsertRow(w) PROVE HandlersKnow'
  BY <1>7 DEF InsertRow
<1>8. ASSUME NEW w \in Workers, InsertFails(w) PROVE HandlersKnow'
  BY <1>8 DEF InsertFails
<1>9. ASSUME NEW w \in Workers, NEW s \in Shares, LookUp(w, s) PROVE HandlersKnow'
  BY <1>9 DEF LookUp
<1>10. ASSUME NEW w \in Workers, GrantDownload(w) PROVE HandlersKnow'
  <2> DEFINE row == [rows[target[w]] EXCEPT !.count = @ + 1]
  <2>1. rows[target[w]] \in Row /\ target[w] \in Shares
    BY <1>10 DEF GrantDownload, HandlersKnow, Listed
  <2>2. row \in Row /\ row # NoRow
    BY <2>1, CountingKeepsRow
  <2>3. rows' = [rows EXCEPT ![target[w]] = row]
    BY <1>10 DEF GrantDownload
  <2> HIDE DEF row
  <2> QED
    BY <1>10, <2>1, <2>2, <2>3 DEF GrantDownload
<1>11. ASSUME NEW w \in Workers, RefuseDownload(w) PROVE HandlersKnow'
  BY <1>11 DEF RefuseDownload
<1>12. ASSUME NEW w \in Workers, OpenBlob(w) PROVE HandlersKnow'
  BY <1>12 DEF OpenBlob
<1>13. ASSUME NEW w \in Workers, FileMissing(w) PROVE HandlersKnow'
  BY <1>13 DEF FileMissing
<1>14. ASSUME NEW w \in Workers, NEW s \in Shares, FindOwned(w, s) PROVE HandlersKnow'
  BY <1>14 DEF FindOwned
<1>15. ASSUME NEW w \in Workers, UnlinkBlob(w) PROVE HandlersKnow'
  BY <1>15 DEF UnlinkBlob
<1>16. ASSUME NEW w \in Workers, DeleteShare(w) PROVE HandlersKnow'
  BY <1>16 DEF DeleteShare
<1>17. ASSUME NEW w \in Workers, DeleteFails(w) PROVE HandlersKnow'
  BY <1>17 DEF DeleteFails
<1>18. ASSUME StartSweep PROVE HandlersKnow'
  BY <1>18 DEF StartSweep
<1>19. ASSUME SweepUnlink PROVE HandlersKnow'
  BY <1>19 DEF SweepUnlink
<1>20. ASSUME SweepDelete PROVE HandlersKnow'
  BY <1>20 DEF SweepDelete
<1>21. ASSUME SweepDeleteFails PROVE HandlersKnow'
  BY <1>21 DEF SweepDeleteFails
<1>22. ASSUME EndSweep PROVE HandlersKnow'
  BY <1>22 DEF EndSweep
<1>23. ASSUME Crash PROVE HandlersKnow'
  BY <1>23 DEF Crash
<1>24. ASSUME Tick PROVE HandlersKnow'
  BY <1>24 DEF Tick
<1>25. CASE UNCHANGED vars
  BY <1>25 DEF vars
<1>26. ASSUME NEW w \in Workers, CreateFinal(w) PROVE HandlersKnow'
  BY <1>26 DEF CreateFinal
<1>27. ASSUME NEW w \in Workers, MergeParts(w) PROVE HandlersKnow'
  <2> DEFINE dated == [job[w] EXCEPT !.expires = ExpiryOf(job[w].ttl)]
  <2>1. job[w] \in Row /\ job[w].count = 0
    BY <1>27 DEF MergeParts, HandlersKnow, Uploading
  <2>2. dated \in Row /\ dated.count = 0
    BY <2>1, DatingKeepsRow
  <2>3. job' = [job EXCEPT ![w] = dated]
    BY <1>27 DEF MergeParts
  <2> HIDE DEF dated
  <2> QED
    BY <1>27, <2>1, <2>2, <2>3 DEF MergeParts
<1>28. ASSUME NEW w \in Workers, MergeFails(w) PROVE HandlersKnow'
  BY <1>28 DEF MergeFails
<1> QED
  BY <1>1, <1>2, <1>3, <1>4, <1>5, <1>6, <1>7, <1>8, <1>9, <1>10, <1>11, <1>12,
     <1>13, <1>14, <1>15, <1>16, <1>17, <1>18, <1>19, <1>20, <1>21, <1>22, <1>23, <1>24,
     <1>25, <1>26, <1>27, <1>28 DEF Next, Arrival, HandlerStep, SweepStep

(* Only a fresh hash is handed to an upload.                               *)
LEMMA UploadsDisjointPreserved == IInv /\ [Next]_vars => UploadsDisjoint'
<1> SUFFICES ASSUME IInv, [Next]_vars PROVE UploadsDisjoint'
  OBVIOUS
<1> USE SentinelAssumption, LimitsAssumption, FormAssumption DEF store, handler, sweep, history, Goto, Finish, WriteBlob, Unlink,
             DeleteRow, IInv, TypeOK, PC, HandlersKnow,
             UploadsDisjoint, Uploading
<1>1. ASSUME NEW w \in Workers, AdmitUpload(w) PROVE UploadsDisjoint'
  BY <1>1 DEF AdmitUpload, Admit
<1>2. ASSUME NEW w \in Workers, AdmitUnmetered(w) PROVE UploadsDisjoint'
  BY <1>2 DEF AdmitUnmetered, Admit
<1>3. ASSUME NEW w \in Workers, CreateBlob(w) PROVE UploadsDisjoint'
  BY <1>3 DEF CreateBlob
<1>4. ASSUME NEW w \in Workers, AbandonUpload(w) PROVE UploadsDisjoint'
  BY <1>4 DEF AbandonUpload
<1>5. ASSUME NEW w \in Workers, CopyBlob(w) PROVE UploadsDisjoint'
  BY <1>5 DEF CopyBlob
<1>6. ASSUME NEW w \in Workers, CopyFails(w) PROVE UploadsDisjoint'
  BY <1>6 DEF CopyFails
<1>7. ASSUME NEW w \in Workers, InsertRow(w) PROVE UploadsDisjoint'
  BY <1>7 DEF InsertRow
<1>8. ASSUME NEW w \in Workers, InsertFails(w) PROVE UploadsDisjoint'
  BY <1>8 DEF InsertFails
<1>9. ASSUME NEW w \in Workers, NEW s \in Shares, LookUp(w, s) PROVE UploadsDisjoint'
  BY <1>9 DEF LookUp
<1>10. ASSUME NEW w \in Workers, GrantDownload(w) PROVE UploadsDisjoint'
  BY <1>10 DEF GrantDownload
<1>11. ASSUME NEW w \in Workers, RefuseDownload(w) PROVE UploadsDisjoint'
  BY <1>11 DEF RefuseDownload
<1>12. ASSUME NEW w \in Workers, OpenBlob(w) PROVE UploadsDisjoint'
  BY <1>12 DEF OpenBlob
<1>13. ASSUME NEW w \in Workers, FileMissing(w) PROVE UploadsDisjoint'
  BY <1>13 DEF FileMissing
<1>14. ASSUME NEW w \in Workers, NEW s \in Shares, FindOwned(w, s) PROVE UploadsDisjoint'
  BY <1>14 DEF FindOwned
<1>15. ASSUME NEW w \in Workers, UnlinkBlob(w) PROVE UploadsDisjoint'
  BY <1>15 DEF UnlinkBlob
<1>16. ASSUME NEW w \in Workers, DeleteShare(w) PROVE UploadsDisjoint'
  BY <1>16 DEF DeleteShare
<1>17. ASSUME NEW w \in Workers, DeleteFails(w) PROVE UploadsDisjoint'
  BY <1>17 DEF DeleteFails
<1>18. ASSUME StartSweep PROVE UploadsDisjoint'
  BY <1>18 DEF StartSweep
<1>19. ASSUME SweepUnlink PROVE UploadsDisjoint'
  BY <1>19 DEF SweepUnlink
<1>20. ASSUME SweepDelete PROVE UploadsDisjoint'
  BY <1>20 DEF SweepDelete
<1>21. ASSUME SweepDeleteFails PROVE UploadsDisjoint'
  BY <1>21 DEF SweepDeleteFails
<1>22. ASSUME EndSweep PROVE UploadsDisjoint'
  BY <1>22 DEF EndSweep
<1>23. ASSUME Crash PROVE UploadsDisjoint'
  BY <1>23 DEF Crash
<1>24. ASSUME Tick PROVE UploadsDisjoint'
  BY <1>24 DEF Tick
<1>25. CASE UNCHANGED vars
  BY <1>25 DEF vars
<1>26. ASSUME NEW w \in Workers, CreateFinal(w) PROVE UploadsDisjoint'
  BY <1>26 DEF CreateFinal
<1>27. ASSUME NEW w \in Workers, MergeParts(w) PROVE UploadsDisjoint'
  BY <1>27 DEF MergeParts
<1>28. ASSUME NEW w \in Workers, MergeFails(w) PROVE UploadsDisjoint'
  BY <1>28 DEF MergeFails
<1> QED
  BY <1>1, <1>2, <1>3, <1>4, <1>5, <1>6, <1>7, <1>8, <1>9, <1>10, <1>11, <1>12,
     <1>13, <1>14, <1>15, <1>16, <1>17, <1>18, <1>19, <1>20, <1>21, <1>22, <1>23, <1>24,
     <1>25, <1>26, <1>27, <1>28 DEF Next, Arrival, HandlerStep, SweepStep

(* Every row, file and delivery belongs to a generated hash.               *)
LEMMA FreshIsUnusedPreserved == IInv /\ [Next]_vars => FreshIsUnused'
<1> SUFFICES ASSUME IInv, [Next]_vars PROVE FreshIsUnused'
  OBVIOUS
<1> USE SentinelAssumption, LimitsAssumption, FormAssumption DEF store, handler, sweep, history, Goto, Finish, WriteBlob, Unlink,
             DeleteRow, IInv, TypeOK, PC, HandlersKnow,
             FreshIsUnused, SweepKnows, Uploading, LastRow, Listed
<1>1. ASSUME NEW w \in Workers, AdmitUpload(w) PROVE FreshIsUnused'
  BY <1>1 DEF AdmitUpload, Admit
<1>2. ASSUME NEW w \in Workers, AdmitUnmetered(w) PROVE FreshIsUnused'
  BY <1>2 DEF AdmitUnmetered, Admit
<1>3. ASSUME NEW w \in Workers, CreateBlob(w) PROVE FreshIsUnused'
  BY <1>3 DEF CreateBlob
<1>4. ASSUME NEW w \in Workers, AbandonUpload(w) PROVE FreshIsUnused'
  BY <1>4 DEF AbandonUpload
<1>5. ASSUME NEW w \in Workers, CopyBlob(w) PROVE FreshIsUnused'
  BY <1>5 DEF CopyBlob
<1>6. ASSUME NEW w \in Workers, CopyFails(w) PROVE FreshIsUnused'
  BY <1>6 DEF CopyFails
<1>7. ASSUME NEW w \in Workers, InsertRow(w) PROVE FreshIsUnused'
  BY <1>7 DEF InsertRow
<1>8. ASSUME NEW w \in Workers, InsertFails(w) PROVE FreshIsUnused'
  BY <1>8 DEF InsertFails
<1>9. ASSUME NEW w \in Workers, NEW s \in Shares, LookUp(w, s) PROVE FreshIsUnused'
  BY <1>9 DEF LookUp
<1>10. ASSUME NEW w \in Workers, GrantDownload(w) PROVE FreshIsUnused'
  <2> DEFINE row == [rows[target[w]] EXCEPT !.count = @ + 1]
  <2>1. rows[target[w]] \in Row /\ target[w] \in Shares
    BY <1>10 DEF GrantDownload, HandlersKnow, Listed
  <2>2. row \in Row /\ row # NoRow
    BY <2>1, CountingKeepsRow
  <2>3. rows' = [rows EXCEPT ![target[w]] = row]
    BY <1>10 DEF GrantDownload
  <2> HIDE DEF row
  <2> QED
    BY <1>10, <2>1, <2>2, <2>3 DEF GrantDownload
<1>11. ASSUME NEW w \in Workers, RefuseDownload(w) PROVE FreshIsUnused'
  BY <1>11 DEF RefuseDownload
<1>12. ASSUME NEW w \in Workers, OpenBlob(w) PROVE FreshIsUnused'
  BY <1>12 DEF OpenBlob
<1>13. ASSUME NEW w \in Workers, FileMissing(w) PROVE FreshIsUnused'
  BY <1>13 DEF FileMissing
<1>14. ASSUME NEW w \in Workers, NEW s \in Shares, FindOwned(w, s) PROVE FreshIsUnused'
  BY <1>14 DEF FindOwned
<1>15. ASSUME NEW w \in Workers, UnlinkBlob(w) PROVE FreshIsUnused'
  BY <1>15 DEF UnlinkBlob
<1>16. ASSUME NEW w \in Workers, DeleteShare(w) PROVE FreshIsUnused'
  BY <1>16 DEF DeleteShare
<1>17. ASSUME NEW w \in Workers, DeleteFails(w) PROVE FreshIsUnused'
  BY <1>17 DEF DeleteFails
<1>18. ASSUME StartSweep PROVE FreshIsUnused'
  BY <1>18 DEF StartSweep
<1>19. ASSUME SweepUnlink PROVE FreshIsUnused'
  BY <1>19 DEF SweepUnlink
<1>20. ASSUME SweepDelete PROVE FreshIsUnused'
  BY <1>20 DEF SweepDelete
<1>21. ASSUME SweepDeleteFails PROVE FreshIsUnused'
  BY <1>21 DEF SweepDeleteFails
<1>22. ASSUME EndSweep PROVE FreshIsUnused'
  BY <1>22 DEF EndSweep
<1>23. ASSUME Crash PROVE FreshIsUnused'
  BY <1>23 DEF Crash
<1>24. ASSUME Tick PROVE FreshIsUnused'
  BY <1>24 DEF Tick
<1>25. CASE UNCHANGED vars
  BY <1>25 DEF vars
<1>26. ASSUME NEW w \in Workers, CreateFinal(w) PROVE FreshIsUnused'
  BY <1>26 DEF CreateFinal
<1>27. ASSUME NEW w \in Workers, MergeParts(w) PROVE FreshIsUnused'
  BY <1>27 DEF MergeParts
<1>28. ASSUME NEW w \in Workers, MergeFails(w) PROVE FreshIsUnused'
  BY <1>28 DEF MergeFails
<1> QED
  BY <1>1, <1>2, <1>3, <1>4, <1>5, <1>6, <1>7, <1>8, <1>9, <1>10, <1>11, <1>12,
     <1>13, <1>14, <1>15, <1>16, <1>17, <1>18, <1>19, <1>20, <1>21, <1>22, <1>23, <1>24,
     <1>25, <1>26, <1>27, <1>28 DEF Next, Arrival, HandlerStep, SweepStep

(* The cleanup's snapshot ages well: a row in it never becomes active.     *)
LEMMA SweepKnowsPreserved == IInv /\ [Next]_vars => SweepKnows'
<1> SUFFICES ASSUME IInv, [Next]_vars PROVE SweepKnows'
  OBVIOUS
<1> USE SentinelAssumption, LimitsAssumption, FormAssumption DEF store, handler, sweep, history, Goto, Finish, WriteBlob, Unlink,
             DeleteRow, IInv, TypeOK, PC, HandlersKnow,
             FreshIsUnused, SweepKnows, Uploading, LastRow, Listed, Active, Reapable, Row
<1>1. ASSUME NEW w \in Workers, AdmitUpload(w) PROVE SweepKnows'
  BY <1>1 DEF AdmitUpload, Admit
<1>2. ASSUME NEW w \in Workers, AdmitUnmetered(w) PROVE SweepKnows'
  BY <1>2 DEF AdmitUnmetered, Admit
<1>3. ASSUME NEW w \in Workers, CreateBlob(w) PROVE SweepKnows'
  BY <1>3 DEF CreateBlob
<1>4. ASSUME NEW w \in Workers, AbandonUpload(w) PROVE SweepKnows'
  BY <1>4 DEF AbandonUpload
<1>5. ASSUME NEW w \in Workers, CopyBlob(w) PROVE SweepKnows'
  BY <1>5 DEF CopyBlob
<1>6. ASSUME NEW w \in Workers, CopyFails(w) PROVE SweepKnows'
  BY <1>6 DEF CopyFails
<1>7. ASSUME NEW w \in Workers, InsertRow(w) PROVE SweepKnows'
  BY <1>7 DEF InsertRow
<1>8. ASSUME NEW w \in Workers, InsertFails(w) PROVE SweepKnows'
  BY <1>8 DEF InsertFails
<1>9. ASSUME NEW w \in Workers, NEW s \in Shares, LookUp(w, s) PROVE SweepKnows'
  BY <1>9 DEF LookUp
<1>10. ASSUME NEW w \in Workers, GrantDownload(w) PROVE SweepKnows'
  BY <1>10 DEF GrantDownload
<1>11. ASSUME NEW w \in Workers, RefuseDownload(w) PROVE SweepKnows'
  BY <1>11 DEF RefuseDownload
<1>12. ASSUME NEW w \in Workers, OpenBlob(w) PROVE SweepKnows'
  BY <1>12 DEF OpenBlob
<1>13. ASSUME NEW w \in Workers, FileMissing(w) PROVE SweepKnows'
  BY <1>13 DEF FileMissing
<1>14. ASSUME NEW w \in Workers, NEW s \in Shares, FindOwned(w, s) PROVE SweepKnows'
  BY <1>14 DEF FindOwned
<1>15. ASSUME NEW w \in Workers, UnlinkBlob(w) PROVE SweepKnows'
  BY <1>15 DEF UnlinkBlob
<1>16. ASSUME NEW w \in Workers, DeleteShare(w) PROVE SweepKnows'
  BY <1>16 DEF DeleteShare
<1>17. ASSUME NEW w \in Workers, DeleteFails(w) PROVE SweepKnows'
  BY <1>17 DEF DeleteFails
<1>18. ASSUME StartSweep PROVE SweepKnows'
  BY <1>18 DEF StartSweep
<1>19. ASSUME SweepUnlink PROVE SweepKnows'
  BY <1>19 DEF SweepUnlink
<1>20. ASSUME SweepDelete PROVE SweepKnows'
  BY <1>20 DEF SweepDelete
<1>21. ASSUME SweepDeleteFails PROVE SweepKnows'
  BY <1>21 DEF SweepDeleteFails
<1>22. ASSUME EndSweep PROVE SweepKnows'
  BY <1>22 DEF EndSweep
<1>23. ASSUME Crash PROVE SweepKnows'
  BY <1>23 DEF Crash
<1>24. ASSUME Tick PROVE SweepKnows'
  BY <1>24 DEF Tick
<1>25. CASE UNCHANGED vars
  BY <1>25 DEF vars
<1>26. ASSUME NEW w \in Workers, CreateFinal(w) PROVE SweepKnows'
  BY <1>26 DEF CreateFinal
<1>27. ASSUME NEW w \in Workers, MergeParts(w) PROVE SweepKnows'
  BY <1>27 DEF MergeParts
<1>28. ASSUME NEW w \in Workers, MergeFails(w) PROVE SweepKnows'
  BY <1>28 DEF MergeFails
<1> QED
  BY <1>1, <1>2, <1>3, <1>4, <1>5, <1>6, <1>7, <1>8, <1>9, <1>10, <1>11, <1>12,
     <1>13, <1>14, <1>15, <1>16, <1>17, <1>18, <1>19, <1>20, <1>21, <1>22, <1>23, <1>24,
     <1>25, <1>26, <1>27, <1>28 DEF Next, Arrival, HandlerStep, SweepStep

(* A file is unlinked only where its row is about to be deleted.           *)
LEMMA RowsHaveWholeFilesPreserved == IInv /\ [Next]_vars => RowsHaveWholeFiles'
<1> SUFFICES ASSUME IInv, [Next]_vars PROVE RowsHaveWholeFiles'
  OBVIOUS
<1> USE SentinelAssumption, LimitsAssumption, FormAssumption DEF store, handler, sweep, history, Goto, Finish, WriteBlob, Unlink,
             DeleteRow, IInv, TypeOK, PC, HandlersKnow,
             UploadsDisjoint, FreshIsUnused, SweepKnows, Uploading, LastRow, Listed,
             RowsHaveWholeFiles, BeingDeleted, CutShort
<1>1. ASSUME NEW w \in Workers, AdmitUpload(w) PROVE RowsHaveWholeFiles'
  BY <1>1 DEF AdmitUpload, Admit
<1>2. ASSUME NEW w \in Workers, AdmitUnmetered(w) PROVE RowsHaveWholeFiles'
  BY <1>2 DEF AdmitUnmetered, Admit
<1>3. ASSUME NEW w \in Workers, CreateBlob(w) PROVE RowsHaveWholeFiles'
  BY <1>3 DEF CreateBlob
<1>4. ASSUME NEW w \in Workers, AbandonUpload(w) PROVE RowsHaveWholeFiles'
  BY <1>4 DEF AbandonUpload
<1>5. ASSUME NEW w \in Workers, CopyBlob(w) PROVE RowsHaveWholeFiles'
  BY <1>5 DEF CopyBlob
<1>6. ASSUME NEW w \in Workers, CopyFails(w) PROVE RowsHaveWholeFiles'
  BY <1>6 DEF CopyFails
<1>7. ASSUME NEW w \in Workers, InsertRow(w) PROVE RowsHaveWholeFiles'
  BY <1>7 DEF InsertRow
<1>8. ASSUME NEW w \in Workers, InsertFails(w) PROVE RowsHaveWholeFiles'
  BY <1>8 DEF InsertFails
<1>9. ASSUME NEW w \in Workers, NEW s \in Shares, LookUp(w, s) PROVE RowsHaveWholeFiles'
  BY <1>9 DEF LookUp
<1>10. ASSUME NEW w \in Workers, GrantDownload(w) PROVE RowsHaveWholeFiles'
  BY <1>10 DEF GrantDownload
<1>11. ASSUME NEW w \in Workers, RefuseDownload(w) PROVE RowsHaveWholeFiles'
  BY <1>11 DEF RefuseDownload
<1>12. ASSUME NEW w \in Workers, OpenBlob(w) PROVE RowsHaveWholeFiles'
  BY <1>12 DEF OpenBlob
<1>13. ASSUME NEW w \in Workers, FileMissing(w) PROVE RowsHaveWholeFiles'
  BY <1>13 DEF FileMissing
<1>14. ASSUME NEW w \in Workers, NEW s \in Shares, FindOwned(w, s) PROVE RowsHaveWholeFiles'
  BY <1>14 DEF FindOwned
<1>15. ASSUME NEW w \in Workers, UnlinkBlob(w) PROVE RowsHaveWholeFiles'
  BY <1>15 DEF UnlinkBlob
<1>16. ASSUME NEW w \in Workers, DeleteShare(w) PROVE RowsHaveWholeFiles'
  BY <1>16 DEF DeleteShare
<1>17. ASSUME NEW w \in Workers, DeleteFails(w) PROVE RowsHaveWholeFiles'
  BY <1>17 DEF DeleteFails
<1>18. ASSUME StartSweep PROVE RowsHaveWholeFiles'
  BY <1>18 DEF StartSweep
<1>19. ASSUME SweepUnlink PROVE RowsHaveWholeFiles'
  BY <1>19 DEF SweepUnlink
<1>20. ASSUME SweepDelete PROVE RowsHaveWholeFiles'
  BY <1>20 DEF SweepDelete
<1>21. ASSUME SweepDeleteFails PROVE RowsHaveWholeFiles'
  BY <1>21 DEF SweepDeleteFails
<1>22. ASSUME EndSweep PROVE RowsHaveWholeFiles'
  BY <1>22 DEF EndSweep
<1>23. ASSUME Crash PROVE RowsHaveWholeFiles'
  BY <1>23 DEF Crash
<1>24. ASSUME Tick PROVE RowsHaveWholeFiles'
  BY <1>24 DEF Tick
<1>25. CASE UNCHANGED vars
  BY <1>25 DEF vars
<1>26. ASSUME NEW w \in Workers, CreateFinal(w) PROVE RowsHaveWholeFiles'
  BY <1>26 DEF CreateFinal
<1>27. ASSUME NEW w \in Workers, MergeParts(w) PROVE RowsHaveWholeFiles'
  BY <1>27 DEF MergeParts
<1>28. ASSUME NEW w \in Workers, MergeFails(w) PROVE RowsHaveWholeFiles'
  BY <1>28 DEF MergeFails
<1> QED
  BY <1>1, <1>2, <1>3, <1>4, <1>5, <1>6, <1>7, <1>8, <1>9, <1>10, <1>11, <1>12,
     <1>13, <1>14, <1>15, <1>16, <1>17, <1>18, <1>19, <1>20, <1>21, <1>22, <1>23, <1>24,
     <1>25, <1>26, <1>27, <1>28 DEF Next, Arrival, HandlerStep, SweepStep

(* A row is deleted only after its file was removed, or its removal was    *)
(* tried and failed; a failed upload removes its own, or tries to.         *)
LEMMA FilesHaveRowsPreserved == IInv /\ [Next]_vars => FilesHaveRows'
<1> SUFFICES ASSUME IInv, [Next]_vars PROVE FilesHaveRows'
  OBVIOUS
<1> USE SentinelAssumption, LimitsAssumption, FormAssumption DEF store, handler, sweep, history, Goto, Finish, WriteBlob, Unlink,
             DeleteRow, IInv, TypeOK, PC, HandlersKnow,
             UploadsDisjoint, FreshIsUnused, SweepKnows, Uploading, LastRow, Listed,
             FilesHaveRows, CutShort
<1>1. ASSUME NEW w \in Workers, AdmitUpload(w) PROVE FilesHaveRows'
  BY <1>1 DEF AdmitUpload, Admit
<1>2. ASSUME NEW w \in Workers, AdmitUnmetered(w) PROVE FilesHaveRows'
  BY <1>2 DEF AdmitUnmetered, Admit
<1>3. ASSUME NEW w \in Workers, CreateBlob(w) PROVE FilesHaveRows'
  BY <1>3 DEF CreateBlob
<1>4. ASSUME NEW w \in Workers, AbandonUpload(w) PROVE FilesHaveRows'
  BY <1>4 DEF AbandonUpload
<1>5. ASSUME NEW w \in Workers, CopyBlob(w) PROVE FilesHaveRows'
  BY <1>5 DEF CopyBlob
<1>6. ASSUME NEW w \in Workers, CopyFails(w) PROVE FilesHaveRows'
  BY <1>6 DEF CopyFails
<1>7. ASSUME NEW w \in Workers, InsertRow(w) PROVE FilesHaveRows'
  BY <1>7 DEF InsertRow
<1>8. ASSUME NEW w \in Workers, InsertFails(w) PROVE FilesHaveRows'
  BY <1>8 DEF InsertFails
<1>9. ASSUME NEW w \in Workers, NEW s \in Shares, LookUp(w, s) PROVE FilesHaveRows'
  BY <1>9 DEF LookUp
<1>10. ASSUME NEW w \in Workers, GrantDownload(w) PROVE FilesHaveRows'
  <2> DEFINE row == [rows[target[w]] EXCEPT !.count = @ + 1]
  <2>1. rows[target[w]] \in Row /\ target[w] \in Shares
    BY <1>10 DEF GrantDownload, HandlersKnow, Listed
  <2>2. row \in Row /\ row # NoRow
    BY <2>1, CountingKeepsRow
  <2>3. rows' = [rows EXCEPT ![target[w]] = row]
    BY <1>10 DEF GrantDownload
  <2> HIDE DEF row
  <2> QED
    BY <1>10, <2>1, <2>2, <2>3 DEF GrantDownload
<1>11. ASSUME NEW w \in Workers, RefuseDownload(w) PROVE FilesHaveRows'
  BY <1>11 DEF RefuseDownload
<1>12. ASSUME NEW w \in Workers, OpenBlob(w) PROVE FilesHaveRows'
  BY <1>12 DEF OpenBlob
<1>13. ASSUME NEW w \in Workers, FileMissing(w) PROVE FilesHaveRows'
  BY <1>13 DEF FileMissing
<1>14. ASSUME NEW w \in Workers, NEW s \in Shares, FindOwned(w, s) PROVE FilesHaveRows'
  BY <1>14 DEF FindOwned
<1>15. ASSUME NEW w \in Workers, UnlinkBlob(w) PROVE FilesHaveRows'
  BY <1>15 DEF UnlinkBlob
<1>16. ASSUME NEW w \in Workers, DeleteShare(w) PROVE FilesHaveRows'
  BY <1>16 DEF DeleteShare
<1>17. ASSUME NEW w \in Workers, DeleteFails(w) PROVE FilesHaveRows'
  BY <1>17 DEF DeleteFails
<1>18. ASSUME StartSweep PROVE FilesHaveRows'
  BY <1>18 DEF StartSweep
<1>19. ASSUME SweepUnlink PROVE FilesHaveRows'
  BY <1>19 DEF SweepUnlink
<1>20. ASSUME SweepDelete PROVE FilesHaveRows'
  BY <1>20 DEF SweepDelete
<1>21. ASSUME SweepDeleteFails PROVE FilesHaveRows'
  BY <1>21 DEF SweepDeleteFails
<1>22. ASSUME EndSweep PROVE FilesHaveRows'
  BY <1>22 DEF EndSweep
<1>23. ASSUME Crash PROVE FilesHaveRows'
  BY <1>23 DEF Crash
<1>24. ASSUME Tick PROVE FilesHaveRows'
  BY <1>24 DEF Tick
<1>25. CASE UNCHANGED vars
  BY <1>25 DEF vars
<1>26. ASSUME NEW w \in Workers, CreateFinal(w) PROVE FilesHaveRows'
  BY <1>26 DEF CreateFinal
<1>27. ASSUME NEW w \in Workers, MergeParts(w) PROVE FilesHaveRows'
  BY <1>27 DEF MergeParts
<1>28. ASSUME NEW w \in Workers, MergeFails(w) PROVE FilesHaveRows'
  BY <1>28 DEF MergeFails
<1> QED
  BY <1>1, <1>2, <1>3, <1>4, <1>5, <1>6, <1>7, <1>8, <1>9, <1>10, <1>11, <1>12,
     <1>13, <1>14, <1>15, <1>16, <1>17, <1>18, <1>19, <1>20, <1>21, <1>22, <1>23, <1>24,
     <1>25, <1>26, <1>27, <1>28 DEF Next, Arrival, HandlerStep, SweepStep

-----------------------------------------------------------------------------
(* Counting downloads                                                      *)

(* A step that counts nothing, delivers nothing and grants nothing.        *)
Quiet ==
  /\ delivered' = delivered
  /\ \A s \in Shares : LastRow(s)' = LastRow(s) /\ InTransit(s)' \subseteq InTransit(s)

(* Only three kinds of steps are not quiet.                                *)
LEMMA OnlyThreeStepsCount ==
  IInv /\ [Next]_vars =>
    Quiet \/ \E w \in Workers : InsertRow(w) \/ GrantDownload(w) \/ OpenBlob(w)
<1> SUFFICES ASSUME IInv, [Next]_vars,
                    ~\E w \in Workers : InsertRow(w) \/ GrantDownload(w) \/ OpenBlob(w)
             PROVE  Quiet
  OBVIOUS
<1> USE SentinelAssumption DEF store, handler, sweep, history, Goto, Finish, WriteBlob, Unlink,
             DeleteRow, IInv, TypeOK, PC,
             HandlersKnow, SweepKnows, Uploading, LastRow, Listed, InTransit, Quiet
<1>1. ASSUME NEW w \in Workers, AdmitUpload(w) PROVE Quiet
  BY <1>1 DEF AdmitUpload, Admit
<1>2. ASSUME NEW w \in Workers, AdmitUnmetered(w) PROVE Quiet
  BY <1>2 DEF AdmitUnmetered, Admit
<1>3. ASSUME NEW w \in Workers, CreateBlob(w) PROVE Quiet
  BY <1>3 DEF CreateBlob
<1>4. ASSUME NEW w \in Workers, AbandonUpload(w) PROVE Quiet
  BY <1>4 DEF AbandonUpload
<1>5. ASSUME NEW w \in Workers, CopyBlob(w) PROVE Quiet
  BY <1>5 DEF CopyBlob
<1>6. ASSUME NEW w \in Workers, CopyFails(w) PROVE Quiet
  BY <1>6 DEF CopyFails
<1>7. ASSUME NEW w \in Workers, InsertFails(w) PROVE Quiet
  BY <1>7 DEF InsertFails
<1>8. ASSUME NEW w \in Workers, NEW s \in Shares, LookUp(w, s) PROVE Quiet
  BY <1>8 DEF LookUp
<1>9. ASSUME NEW w \in Workers, RefuseDownload(w) PROVE Quiet
  BY <1>9 DEF RefuseDownload
<1>10. ASSUME NEW w \in Workers, FileMissing(w) PROVE Quiet
  BY <1>10 DEF FileMissing
<1>11. ASSUME NEW w \in Workers, NEW s \in Shares, FindOwned(w, s) PROVE Quiet
  BY <1>11 DEF FindOwned
<1>12. ASSUME NEW w \in Workers, UnlinkBlob(w) PROVE Quiet
  BY <1>12 DEF UnlinkBlob
<1>13. ASSUME NEW w \in Workers, DeleteShare(w) PROVE Quiet
  BY <1>13 DEF DeleteShare
<1>14. ASSUME NEW w \in Workers, DeleteFails(w) PROVE Quiet
  BY <1>14 DEF DeleteFails
<1>15. ASSUME StartSweep PROVE Quiet
  BY <1>15 DEF StartSweep
<1>16. ASSUME SweepUnlink PROVE Quiet
  BY <1>16 DEF SweepUnlink
<1>17. ASSUME SweepDelete PROVE Quiet
  BY <1>17 DEF SweepDelete
<1>18. ASSUME SweepDeleteFails PROVE Quiet
  BY <1>18 DEF SweepDeleteFails
<1>19. ASSUME EndSweep PROVE Quiet
  BY <1>19 DEF EndSweep
<1>20. ASSUME Crash PROVE Quiet
  BY <1>20 DEF Crash
<1>21. ASSUME Tick PROVE Quiet
  BY <1>21 DEF Tick
<1>22. CASE UNCHANGED vars
  BY <1>22 DEF vars
<1>23. ASSUME NEW w \in Workers, CreateFinal(w) PROVE Quiet
  BY <1>23 DEF CreateFinal
<1>24. ASSUME NEW w \in Workers, MergeParts(w) PROVE Quiet
  BY <1>24 DEF MergeParts
<1>25. ASSUME NEW w \in Workers, MergeFails(w) PROVE Quiet
  BY <1>25 DEF MergeFails
<1> QED
  BY <1>1, <1>2, <1>3, <1>4, <1>5, <1>6, <1>7, <1>8, <1>9, <1>10, <1>11,
     <1>12, <1>13, <1>14, <1>15, <1>16, <1>17, <1>18, <1>19, <1>20, <1>21, <1>22, <1>23, <1>24, <1>25
  DEF Next, Arrival, HandlerStep, SweepStep

(* The handlers that serve a share are finitely many.                      *)
LEMMA InTransitFinite ==
  ASSUME NEW s
  PROVE  IsFiniteSet(InTransit(s)) /\ Cardinality(InTransit(s)) \in Nat
<1>1. InTransit(s) \subseteq Workers
  BY DEF InTransit
<1> QED
  BY <1>1, WorkersAssumption, FS_Subset, FS_CardinalityType

(* Fewer handlers in transit never break the limit.                        *)
LEMMA QuietKeepsLimit ==
  ASSUME IInv, TypeOK', Quiet
  PROVE  DownloadsWithinLimit'
<1> SUFFICES ASSUME NEW s \in Shares, LastRow(s)' # NoRow
             PROVE  /\ (delivered[s] + Cardinality(InTransit(s)))' <= LastRow(s)'.count
                    /\ LastRow(s)'.maxDL # 0 => LastRow(s)'.count <= LastRow(s)'.maxDL
  BY DEF DownloadsWithinLimit
<1>1. LastRow(s)' = LastRow(s) /\ InTransit(s)' \subseteq InTransit(s) /\ delivered' = delivered
  BY DEF Quiet
<1>2. LastRow(s) \in Row
  BY <1>1 DEF IInv, TypeOK, LastRow, Listed
<1>3. /\ IsFiniteSet(InTransit(s)) /\ Cardinality(InTransit(s)) \in Nat
      /\ Cardinality(InTransit(s)') \in Nat
      /\ Cardinality(InTransit(s)') <= Cardinality(InTransit(s))
  BY <1>1, InTransitFinite, FS_Subset, FS_CardinalityType
<1>4. /\ delivered[s] + Cardinality(InTransit(s)) <= LastRow(s).count
      /\ LastRow(s).maxDL # 0 => LastRow(s).count <= LastRow(s).maxDL
  BY <1>1 DEF IInv, DownloadsWithinLimit
<1>5. delivered[s] \in Nat /\ LastRow(s).count \in Nat
  BY <1>2 DEF IInv, TypeOK, Row
<1> QED
  BY <1>1, <1>3, <1>4, <1>5

(* Each grant is counted before it is served, each delivery uses up one    *)
(* grant, and a new row starts without either.                             *)
LEMMA DownloadsWithinLimitPreserved == IInv /\ [Next]_vars => DownloadsWithinLimit'
<1> SUFFICES ASSUME IInv, [Next]_vars PROVE DownloadsWithinLimit'
  OBVIOUS
<1>t. TypeOK /\ TypeOK'
  BY TypePreserved DEF IInv
<1>1. CASE Quiet
  BY <1>1, <1>t, QuietKeepsLimit
<1>2. ASSUME NEW w \in Workers, InsertRow(w) PROVE DownloadsWithinLimit'
  <2>1. PICK t \in Shares :
          /\ t = target[w] /\ LastRow(t) = NoRow /\ delivered[t] = 0
          /\ job[w] \in Row /\ job[w].count = 0
    BY <1>2 DEF IInv, TypeOK, HandlersKnow, Uploading, InsertRow
  <2>2. \A s \in Shares : InTransit(s)' = InTransit(s)
    BY <1>2, <1>t DEF InsertRow, Finish, InTransit, TypeOK
  <2>3. InTransit(t) = {}
    BY <2>1 DEF IInv, HandlersKnow, InTransit
  <2>4. \A s \in Shares : LastRow(s)' = IF s = t THEN job[w] ELSE LastRow(s)
    BY <1>2, <1>t, <2>1, SentinelAssumption
    DEF InsertRow, history, LastRow, Listed, TypeOK
  <2>5. delivered' = delivered
    BY <1>2 DEF InsertRow, history
  <2> SUFFICES ASSUME NEW s \in Shares, LastRow(s)' # NoRow
               PROVE  /\ (delivered[s] + Cardinality(InTransit(s)))' <= LastRow(s)'.count
                      /\ LastRow(s)'.maxDL # 0 => LastRow(s)'.count <= LastRow(s)'.maxDL
    BY DEF DownloadsWithinLimit
  <2>6. CASE s = t
    <3>1. LastRow(s)' = job[w]
      BY <2>4, <2>6
    <3>2. delivered'[s] + Cardinality(InTransit(s)') = 0
      BY <2>1, <2>2, <2>3, <2>5, <2>6, FS_EmptySet
    <3>3. job[w].count = 0 /\ job[w].maxDL \in Nat
      BY <2>1 DEF Row
    <3> QED
      BY <3>1, <3>2, <3>3
  <2>7. CASE s # t
    BY <2>2, <2>4, <2>5, <2>7 DEF IInv, DownloadsWithinLimit
  <2> QED
    BY <2>6, <2>7
<1>3. ASSUME NEW w \in Workers, GrantDownload(w) PROVE DownloadsWithinLimit'
  <2>1. PICK t \in Shares :
          /\ t = target[w] /\ rows[t] \in Row /\ Active(rows[t])
          /\ LastRow(t) = rows[t]
    BY <1>3 DEF IInv, TypeOK, HandlersKnow, GrantDownload, Listed, LastRow
  <2> DEFINE row == [rows[t] EXCEPT !.count = @ + 1]
  <2>2. /\ row \in Row /\ row # NoRow
        /\ row.count = rows[t].count + 1 /\ row.maxDL = rows[t].maxDL
    BY <2>1, CountingKeepsRow
  <2>3. rows' = [rows EXCEPT ![t] = row] /\ delivered' = delivered /\ tomb' = tomb
    BY <1>3, <2>1 DEF GrantDownload, history
  <2> HIDE DEF row
  <2>4. \A s \in Shares : LastRow(s)' = IF s = t THEN row ELSE LastRow(s)
    BY <1>t, <2>1, <2>2, <2>3 DEF LastRow, Listed, TypeOK
  <2>5. /\ \A s \in Shares \ {t} : InTransit(s)' = InTransit(s)
        /\ InTransit(t)' = InTransit(t) \cup {w}
        /\ w \notin InTransit(t)
    BY <1>3, <1>t, <2>1 DEF GrantDownload, Goto, InTransit, TypeOK
  <2>6. /\ Cardinality(InTransit(t)) \in Nat
        /\ Cardinality(InTransit(t)') = Cardinality(InTransit(t)) + 1
    BY <2>5, InTransitFinite, FS_AddElement
  <2>7. /\ delivered[t] + Cardinality(InTransit(t)) <= rows[t].count
        /\ rows[t].maxDL # 0 => rows[t].count < rows[t].maxDL
    BY <2>1, SentinelAssumption DEF IInv, DownloadsWithinLimit, Active
  <2>8. delivered[t] \in Nat /\ rows[t].count \in Nat /\ rows[t].maxDL \in Nat
    BY <2>1, <1>t DEF TypeOK, Row
  <2> SUFFICES ASSUME NEW s \in Shares, LastRow(s)' # NoRow
               PROVE  /\ (delivered[s] + Cardinality(InTransit(s)))' <= LastRow(s)'.count
                      /\ LastRow(s)'.maxDL # 0 => LastRow(s)'.count <= LastRow(s)'.maxDL
    BY DEF DownloadsWithinLimit
  <2>9. CASE s = t
    <3>1. LastRow(s)' = row
      BY <2>4, <2>9
    <3>2. delivered'[s] + Cardinality(InTransit(s)') <= row.count
      BY <2>2, <2>3, <2>6, <2>7, <2>8, <2>9
    <3>3. row.maxDL # 0 => row.count <= row.maxDL
      BY <2>2, <2>7, <2>8
    <3> QED
      BY <2>9, <3>1, <3>2, <3>3
  <2>10. CASE s # t
    BY <2>3, <2>4, <2>5, <2>10 DEF IInv, DownloadsWithinLimit
  <2> QED
    BY <2>9, <2>10
<1>4. ASSUME NEW w \in Workers, OpenBlob(w) PROVE DownloadsWithinLimit'
  <2>1. PICK t \in Shares :
          /\ t = target[w] /\ LastRow(t) # NoRow
          /\ delivered' = [delivered EXCEPT ![t] = @ + 1]
          /\ rows' = rows /\ tomb' = tomb
    BY <1>4 DEF IInv, HandlersKnow, OpenBlob, store
  <2>2. /\ \A s \in Shares \ {t} : InTransit(s)' = InTransit(s)
        /\ InTransit(t)' = InTransit(t) \ {w}
        /\ w \in InTransit(t)
    BY <1>4, <1>t, <2>1 DEF OpenBlob, Finish, InTransit, TypeOK
  <2>3. /\ Cardinality(InTransit(t)) \in Nat
        /\ Cardinality(InTransit(t)') = Cardinality(InTransit(t)) - 1
    BY <2>2, InTransitFinite, FS_RemoveElement
  <2>4. delivered'[t] = delivered[t] + 1 /\ delivered[t] \in Nat
    BY <2>1, <1>t DEF TypeOK
  <2>5. \A s \in Shares : LastRow(s)' = LastRow(s)
    BY <2>1 DEF LastRow, Listed
  <2>6. delivered'[t] + Cardinality(InTransit(t)') = delivered[t] + Cardinality(InTransit(t))
    BY <2>3, <2>4
  <2>7. \A s \in Shares \ {t} : delivered'[s] = delivered[s]
    BY <2>1, <1>t DEF TypeOK
  <2>8. ASSUME NEW s \in Shares
        PROVE  delivered'[s] + Cardinality(InTransit(s)') = delivered[s] + Cardinality(InTransit(s))
    BY <2>2, <2>6, <2>7
  <2> QED
    BY <2>5, <2>8 DEF DownloadsWithinLimit, IInv
<1> QED
  BY <1>1, <1>2, <1>3, <1>4, OnlyThreeStepsCount

-----------------------------------------------------------------------------
(* The safety properties                                                   *)

(* IInv holds in every reachable state.                                    *)
THEOREM InductiveInvariant == Spec => []IInv
<1>1. IInv /\ [Next]_vars => IInv'
  BY TypePreserved, HandlersKnowPreserved, UploadsDisjointPreserved,
     FreshIsUnusedPreserved, SweepKnowsPreserved, RowsHaveWholeFilesPreserved,
     FilesHaveRowsPreserved, DownloadsWithinLimitPreserved DEF IInv
<1> QED
  BY InitEstablishes, <1>1, PTL DEF Spec

(* Every variable keeps its type: rows stay rows, counters stay natural    *)
(* numbers, and an upload in flight always holds the row it will insert.   *)
THEOREM TypeCorrect == Spec => []TypeOK
<1>1. IInv => TypeOK
  BY DEF IInv
<1> QED
  BY <1>1, InductiveInvariant, PTL

(* A listed row leads to a whole file unless the share is being deleted or *)
(* a fault interrupted that.                                               *)
THEOREM RowsAreBacked == Spec => []RowsHaveWholeFiles
<1>1. IInv => RowsHaveWholeFiles
  BY DEF IInv
<1> QED
  BY <1>1, InductiveInvariant, PTL

(* No file is left without a row except by a crash, a merge that fails or  *)
(* a removal that fails: whatever handlers and cleanup do in between, and  *)
(* in whatever order, the file is removed before the row is deleted.       *)
THEOREM FilesAreRecorded == Spec => []FilesHaveRows
<1>1. IInv => FilesHaveRows
  BY DEF IInv
<1> QED
  BY <1>1, InductiveInvariant, PTL

(* For any number of concurrent visitors, owners and cleanups, a share is  *)
(* served at most as often as counted and counted within its limit.        *)
THEOREM DownloadLimitHolds == Spec => []DownloadsWithinLimit
<1>1. IInv => DownloadsWithinLimit
  BY DEF IInv
<1> QED
  BY <1>1, InductiveInvariant, PTL

(* The cleanup never unlinks or deletes a share visitors may still use,    *)
(* although it works from a snapshot that handlers outrun.                 *)
THEOREM SweepIsSafe == Spec => []SweepSparesActive
<1>1. IInv => SweepSparesActive
  BY SentinelAssumption DEF IInv, SweepKnows, SweepSparesActive
<1> QED
  BY <1>1, InductiveInvariant, PTL

(* With one connection the database is read-only while a cleanup that      *)
(* found work is at it: no upload is recorded, no download counted, no row *)
(* deleted, the cleanup's own included.                                    *)
THEOREM OneConnectionFreezesRows == Spec => SweepFreezesRows
<1>1. [Next]_vars => (MaxOpenConns = 1 /\ sweepPc # "waiting" => UNCHANGED rows)
  <2> SUFFICES ASSUME [Next]_vars, MaxOpenConns = 1, sweepPc # "waiting"
               PROVE  rows' = rows
    OBVIOUS
  <2>1. ~ConnFree
    BY DEF ConnFree
  <2>2. ASSUME NEW w \in Workers, Arrival(w) PROVE rows' = rows
    BY <2>1, <2>2 DEF Arrival, AdmitUpload, AdmitUnmetered, Admit, LookUp, FindOwned
  <2>3. ASSUME NEW w \in Workers, HandlerStep(w) PROVE rows' = rows
    BY <2>1, <2>3 DEF HandlerStep, CreateBlob, AbandonUpload, CopyBlob, CopyFails,
       CreateFinal, MergeParts, MergeFails,
       InsertRow, InsertFails, GrantDownload, RefuseDownload, OpenBlob, FileMissing,
       UnlinkBlob, Unlink, DeleteShare, DeleteFails, store
  <2>4. CASE SweepStep
    BY <2>1, <2>4 DEF SweepStep, StartSweep, SweepUnlink, SweepDelete,
       SweepDeleteFails, EndSweep, store
  <2>5. CASE Crash \/ Tick
    BY <2>5 DEF Crash, Tick, store
  <2>6. CASE UNCHANGED vars
    BY <2>6 DEF vars, store
  <2> QED
    BY <2>2, <2>3, <2>4, <2>5, <2>6 DEF Next
<1> QED
  BY <1>1, PTL DEF Spec, SweepFreezesRows

-----------------------------------------------------------------------------
(* The store implements the link it promises                               *)

(* The public view of a share, as the refinement mapping computes it.      *)
LEMMA AbsLinkAt ==
  ASSUME NEW s \in Shares
  PROVE  AbsLink[s] =
           IF LastRow(s) = NoRow THEN NoRow
           ELSE [open |-> Listed(s), maxDL |-> LastRow(s).maxDL, ttl |-> LastRow(s).ttl,
                 expires |-> LastRow(s).expires, granted |-> LastRow(s).count,
                 delivered |-> delivered[s]]
  BY DEF AbsLink

(* A step that leaves table, history of rows and deliveries alone is not   *)
(* visible from outside.                                                   *)
LEMMA Invisible ==
  ASSUME rows' = rows, tomb' = tomb, delivered' = delivered
  PROVE  AbsLink' = AbsLink
  BY DEF AbsLink, LastRow, Listed

(* A share that has or had a row is a published link.                      *)
LEMMA RowIsLink ==
  ASSUME IInv, NEW s \in Shares, LastRow(s) # NoRow
  PROVE  /\ LastRow(s) \in Row /\ delivered[s] \in Nat
         /\ AbsLink[s] \in Promise!Link /\ AbsLink[s] # NoRow
         /\ AbsLink[s].open = Listed(s)
         /\ AbsLink[s].maxDL = LastRow(s).maxDL /\ AbsLink[s].ttl = LastRow(s).ttl
         /\ AbsLink[s].expires = LastRow(s).expires
         /\ AbsLink[s].granted = LastRow(s).count
         /\ AbsLink[s].delivered = delivered[s]
<1>1. LastRow(s) \in Row /\ delivered[s] \in Nat
  BY DEF IInv, TypeOK, LastRow, Listed
<1>2. Listed(s) \in BOOLEAN
  BY DEF Listed
<1>3. AbsLink[s] = [open |-> Listed(s), maxDL |-> LastRow(s).maxDL, ttl |-> LastRow(s).ttl,
                    expires |-> LastRow(s).expires, granted |-> LastRow(s).count,
                    delivered |-> delivered[s]]
  BY AbsLinkAt
<1>4. AbsLink[s] \in Promise!Link
  BY <1>1, <1>2, <1>3 DEF Promise!Link, Row
<1> QED
  BY <1>1, <1>3, <1>4, UnpublishedAssumption

(* Changing one field of a link keeps the others.                          *)
LEMMA LinkFields ==
  ASSUME NEW l \in Promise!Link, NEW b \in BOOLEAN
  PROVE  /\ [l EXCEPT !.open = b] =
              [open |-> b, maxDL |-> l.maxDL, ttl |-> l.ttl, expires |-> l.expires,
               granted |-> l.granted, delivered |-> l.delivered]
         /\ [l EXCEPT !.granted = @ + 1] =
              [open |-> l.open, maxDL |-> l.maxDL, ttl |-> l.ttl, expires |-> l.expires,
               granted |-> l.granted + 1, delivered |-> l.delivered]
<1>1. [l EXCEPT !.open = b] =
        [open |-> b, maxDL |-> l.maxDL, ttl |-> l.ttl, expires |-> l.expires,
         granted |-> l.granted, delivered |-> l.delivered]
  BY DEF Promise!Link
<1>2. [l EXCEPT !.granted = @ + 1] =
        [open |-> l.open, maxDL |-> l.maxDL, ttl |-> l.ttl, expires |-> l.expires,
         granted |-> l.granted + 1, delivered |-> l.delivered]
  BY DEF Promise!Link
<1> QED
  BY <1>1, <1>2

(* DELETE withdraws a link that is still listed and does nothing else.     *)
LEMMA DeleteWithdraws ==
  ASSUME IInv, NEW t \in Shares, DeleteRow(t), delivered' = delivered, now' = now
  PROVE  Promise!Withdraw(t) \/ UNCHANGED Promise!linkVars
<1>1. CASE ~Listed(t)
  <2>1. rows' = rows /\ tomb' = tomb
    BY <1>1 DEF DeleteRow, Listed, IInv, TypeOK
  <2> QED
    BY <2>1, Invisible DEF Promise!linkVars
<1>2. CASE Listed(t)
  <2>1. /\ LastRow(t) = rows[t] /\ LastRow(t) # NoRow
        /\ \A s \in Shares : LastRow(s)' = LastRow(s)
        /\ \A s \in Shares : Listed(s)' = IF s = t THEN FALSE ELSE Listed(s)
    BY <1>2 DEF DeleteRow, Listed, LastRow, IInv, TypeOK
  <2>2. AbsLink[t] # NoRow /\ AbsLink[t].open
    BY <1>2, <2>1, RowIsLink
  <2>3. PICK b \in BOOLEAN : b = Listed(t)'
    BY DEF Listed
  <2> DEFINE closed == [AbsLink[t] EXCEPT !.open = b]
  <2>4. closed = [open |-> b, maxDL |-> LastRow(t).maxDL, ttl |-> LastRow(t).ttl,
                  expires |-> LastRow(t).expires, granted |-> LastRow(t).count,
                  delivered |-> delivered[t]]
    <3>1. closed = [open |-> b, maxDL |-> AbsLink[t].maxDL, ttl |-> AbsLink[t].ttl,
                    expires |-> AbsLink[t].expires, granted |-> AbsLink[t].granted,
                    delivered |-> AbsLink[t].delivered]
      BY <2>1, RowIsLink, LinkFields
    <3> QED
      BY <2>1, <3>1, RowIsLink
  <2>5. AbsLink'[t] = closed
    BY <2>1, <2>3, <2>4 DEF AbsLink
  <2>6. ASSUME NEW s \in Shares \ {t} PROVE AbsLink'[s] = AbsLink[s]
    BY <2>1 DEF AbsLink
  <2> HIDE DEF closed
  <2>7. AbsLink' = [AbsLink EXCEPT ![t] = closed]
    BY <2>5, <2>6 DEF AbsLink
  <2>8. AbsLink' = [AbsLink EXCEPT ![t].open = FALSE]
    BY <2>1, <2>3, <2>7 DEF closed
  <2> QED
    BY <2>2, <2>8 DEF Promise!Withdraw
<1> QED
  BY <1>1, <1>2

(* The other visible steps: INSERT publishes, UPDATE grants, and opening   *)
(* the file delivers.                                                      *)
LEMMA InsertPublishes ==
  ASSUME IInv, IInv', NEW w \in Workers, InsertRow(w)
  PROVE  \E s \in Shares : Promise!Publish(s)
<1>1. PICK t \in Shares :
        /\ t = target[w] /\ LastRow(t) = NoRow /\ delivered[t] = 0
        /\ job[w] \in Row /\ job[w].count = 0
  BY DEF IInv, TypeOK, HandlersKnow, Uploading, InsertRow
<1>2. /\ rows' = [rows EXCEPT ![t] = job[w]] /\ tomb' = tomb
      /\ delivered' = delivered /\ now' = now
  BY <1>1 DEF InsertRow, history
<1>3. rows'[t] = job[w] /\ LastRow(t)' = job[w] /\ Listed(t)'
  BY <1>1, <1>2, SentinelAssumption DEF LastRow, Listed, IInv, TypeOK
<1>4. ASSUME NEW s \in Shares \ {t} PROVE AbsLink'[s] = AbsLink[s]
  BY <1>2, <1>4 DEF AbsLink, LastRow, Listed, IInv, TypeOK
<1>5. AbsLink' = [AbsLink EXCEPT ![t] = AbsLink'[t]]
  BY <1>4 DEF AbsLink
<1>6. AbsLink'[t] = [open |-> TRUE, maxDL |-> job[w].maxDL, ttl |-> job[w].ttl,
                     expires |-> job[w].expires, granted |-> 0, delivered |-> 0]
  BY <1>1, <1>2, <1>3, SentinelAssumption DEF AbsLink
<1>7. AbsLink'[t] \in Promise!Link
  BY <1>1, <1>6 DEF Promise!Link, Row
<1>8. AbsLink[t] = NoRow
  BY <1>1, AbsLinkAt
<1> QED
  BY <1>2, <1>5, <1>6, <1>7, <1>8 DEF Promise!Publish

(* Counting a download of an active row grants one.                        *)
LEMMA CountGrants ==
  ASSUME IInv, NEW w \in Workers, GrantDownload(w)
  PROVE  \E s \in Shares : Promise!Grant(s)
<1>1. PICK t \in Shares :
        t = target[w] /\ rows[t] \in Row /\ Active(rows[t]) /\ Listed(t) /\ LastRow(t) = rows[t]
  BY DEF IInv, TypeOK, HandlersKnow, GrantDownload, Listed, LastRow
<1> DEFINE row == [rows[t] EXCEPT !.count = @ + 1]
<1>2. /\ row # NoRow /\ row.count = rows[t].count + 1 /\ row.maxDL = rows[t].maxDL
      /\ row.ttl = rows[t].ttl /\ row.expires = rows[t].expires
  BY <1>1, CountingKeepsRow
<1>3. /\ rows' = [rows EXCEPT ![t] = row] /\ tomb' = tomb
      /\ delivered' = delivered /\ now' = now
  BY <1>1 DEF GrantDownload, history
<1> HIDE DEF row
<1>4. rows'[t] = row /\ LastRow(t)' = row /\ Listed(t)'
  BY <1>1, <1>2, <1>3 DEF LastRow, Listed, IInv, TypeOK
<1>5. ASSUME NEW s \in Shares \ {t} PROVE AbsLink'[s] = AbsLink[s]
  BY <1>3, <1>5 DEF AbsLink, LastRow, Listed, IInv, TypeOK
<1>6. /\ AbsLink[t] # NoRow /\ AbsLink[t].open
      /\ AbsLink[t].maxDL = rows[t].maxDL /\ AbsLink[t].ttl = rows[t].ttl
      /\ AbsLink[t].expires = rows[t].expires /\ AbsLink[t].granted = rows[t].count
  BY <1>1, RowIsLink, SentinelAssumption
<1>7. Promise!Usable(AbsLink[t])
  BY <1>1, <1>6 DEF Promise!Usable, Active
<1> DEFINE counted == [AbsLink[t] EXCEPT !.granted = @ + 1]
<1>8. AbsLink'[t] = counted
  <2>1. counted = [open |-> TRUE, maxDL |-> row.maxDL, ttl |-> row.ttl,
                   expires |-> row.expires, granted |-> row.count,
                   delivered |-> delivered[t]]
    <3>1. AbsLink[t] \in Promise!Link /\ AbsLink[t].open = TRUE /\ AbsLink[t].delivered = delivered[t]
      BY <1>1, RowIsLink DEF Listed
    <3>2. PICK b \in BOOLEAN : b = AbsLink[t].open
      BY <3>1
    <3>3. counted = [open |-> AbsLink[t].open, maxDL |-> AbsLink[t].maxDL,
                     ttl |-> AbsLink[t].ttl, expires |-> AbsLink[t].expires,
                     granted |-> AbsLink[t].granted + 1, delivered |-> AbsLink[t].delivered]
      BY <3>1, <3>2, LinkFields
    <3> QED
      BY <1>2, <1>6, <3>1, <3>3
  <2>2. AbsLink'[t] = [open |-> TRUE, maxDL |-> row.maxDL, ttl |-> row.ttl,
                       expires |-> row.expires, granted |-> row.count,
                       delivered |-> delivered[t]]
    BY <1>2, <1>3, <1>4 DEF AbsLink
  <2> QED
    BY <2>1, <2>2
<1> HIDE DEF counted
<1>9. AbsLink' = [AbsLink EXCEPT ![t] = counted]
  BY <1>5, <1>8 DEF AbsLink
<1>10. AbsLink' = [AbsLink EXCEPT ![t].granted = @ + 1]
  BY <1>9 DEF counted
<1> QED
  BY <1>3, <1>6, <1>7, <1>10 DEF Promise!Grant

(* Opening the file of a counted download delivers one that was granted.   *)
LEMMA OpenDelivers ==
  ASSUME IInv, NEW w \in Workers, OpenBlob(w)
  PROVE  \E s \in Shares : Promise!Deliver(s)
<1>1. PICK t \in Shares :
        /\ t = target[w] /\ LastRow(t) # NoRow
        /\ delivered' = [delivered EXCEPT ![t] = @ + 1]
        /\ rows' = rows /\ tomb' = tomb /\ now' = now
  BY DEF IInv, HandlersKnow, OpenBlob, store
<1>2. LastRow(t) \in Row /\ delivered[t] \in Nat /\ delivered'[t] = delivered[t] + 1
  BY <1>1, RowIsLink DEF IInv, TypeOK
<1>3. \A s \in Shares : LastRow(s)' = LastRow(s) /\ Listed(s)' = Listed(s)
  BY <1>1 DEF LastRow, Listed
<1>4. ASSUME NEW s \in Shares \ {t} PROVE AbsLink'[s] = AbsLink[s]
  <2>1. delivered'[s] = delivered[s]
    BY <1>1, <1>4 DEF IInv, TypeOK
  <2> QED
    BY <1>3, <2>1 DEF AbsLink
<1>5. AbsLink[t] # NoRow /\ AbsLink[t].delivered = delivered[t] /\ AbsLink[t].granted = LastRow(t).count
  BY <1>1, RowIsLink
<1>6. delivered[t] < LastRow(t).count
  <2>1. w \in InTransit(t)
    BY <1>1 DEF OpenBlob, InTransit
  <2>2. Cardinality(InTransit(t)) \in Nat /\ Cardinality(InTransit(t)) # 0
    BY <2>1, InTransitFinite, FS_EmptySet
  <2>3. delivered[t] + Cardinality(InTransit(t)) <= LastRow(t).count
    BY <1>1 DEF IInv, DownloadsWithinLimit
  <2>4. LastRow(t).count \in Nat
    BY <1>2 DEF Row
  <2> QED
    BY <1>2, <2>2, <2>3, <2>4
<1> DEFINE served == [AbsLink[t] EXCEPT !.delivered = @ + 1]
<1>7. AbsLink'[t] = served
  <2>1. AbsLink[t] = [open |-> Listed(t), maxDL |-> LastRow(t).maxDL,
                      ttl |-> LastRow(t).ttl, expires |-> LastRow(t).expires,
                      granted |-> LastRow(t).count, delivered |-> delivered[t]]
    BY <1>1, AbsLinkAt
  <2>2. AbsLink'[t] = [open |-> Listed(t), maxDL |-> LastRow(t).maxDL,
                       ttl |-> LastRow(t).ttl, expires |-> LastRow(t).expires,
                       granted |-> LastRow(t).count, delivered |-> delivered[t] + 1]
    BY <1>1, <1>2, <1>3 DEF AbsLink
  <2> QED
    BY <2>1, <2>2
<1> HIDE DEF served
<1>8. AbsLink' = [AbsLink EXCEPT ![t] = served]
  BY <1>4, <1>7 DEF AbsLink
<1>9. AbsLink' = [AbsLink EXCEPT ![t].delivered = @ + 1]
  BY <1>8 DEF served
<1> QED
  BY <1>1, <1>5, <1>6, <1>9 DEF Promise!Deliver

(* Every step of the store is a step of the link table or leaves it alone. *)
LEMMA StepRefines == IInv /\ IInv' /\ [Next]_vars => [Promise!LinkNext]_(Promise!linkVars)
<1> SUFFICES ASSUME IInv, IInv', [Next]_vars
             PROVE  Promise!LinkNext \/ UNCHANGED Promise!linkVars
  OBVIOUS
<1>1. ASSUME NEW w \in Workers, InsertRow(w) PROVE Promise!LinkNext
  BY <1>1, InsertPublishes DEF Promise!LinkNext
<1>2. ASSUME NEW w \in Workers, GrantDownload(w) PROVE Promise!LinkNext
  BY <1>2, CountGrants DEF Promise!LinkNext
<1>3. ASSUME NEW w \in Workers, OpenBlob(w) PROVE Promise!LinkNext
  BY <1>3, OpenDelivers DEF Promise!LinkNext
<1>4. ASSUME NEW w \in Workers, DeleteShare(w)
      PROVE  Promise!LinkNext \/ UNCHANGED Promise!linkVars
  <2>1. PICK t \in Shares : t = target[w]
    BY <1>4 DEF DeleteShare, IInv, HandlersKnow
  <2>2. DeleteRow(t) /\ delivered' = delivered /\ now' = now
    BY <1>4, <2>1 DEF DeleteShare
  <2> QED
    BY <2>2, DeleteWithdraws DEF Promise!LinkNext
<1>5. CASE SweepDelete
  <2>1. PICK t \in Shares : t = sweepCur
    BY <1>5 DEF SweepDelete, IInv, SweepKnows
  <2>2. DeleteRow(t) /\ delivered' = delivered /\ now' = now
    BY <1>5, <2>1 DEF SweepDelete
  <2> QED
    BY <2>2, DeleteWithdraws DEF Promise!LinkNext
<1>6. CASE Tick
  <2>1. now' = now + 1 /\ AbsLink' = AbsLink
    BY <1>6, Invisible DEF Tick, store, history
  <2> QED
    BY <2>1 DEF Promise!LinkNext, Promise!LinkTick
<1> DEFINE Hidden == now' = now /\ rows' = rows /\ tomb' = tomb /\ delivered' = delivered
<1>7. ASSUME NEW w \in Workers, Arrival(w) PROVE Hidden
  BY <1>7 DEF Arrival, AdmitUpload, AdmitUnmetered, Admit, LookUp, FindOwned, store, history
<1>8. ASSUME NEW w \in Workers, HandlerStep(w),
             ~(InsertRow(w) \/ GrantDownload(w) \/ OpenBlob(w) \/ DeleteShare(w))
      PROVE  Hidden
  BY <1>8 DEF HandlerStep, CreateBlob, AbandonUpload, CopyBlob, CopyFails,
     CreateFinal, MergeParts, MergeFails, InsertFails,
     RefuseDownload, FileMissing, UnlinkBlob, DeleteFails, store, history
<1>9. ASSUME SweepStep, ~SweepDelete PROVE Hidden
  BY <1>9 DEF SweepStep, StartSweep, SweepUnlink, SweepDeleteFails, EndSweep, store, history
<1>10. CASE Crash \/ UNCHANGED vars
  <2>1. Hidden
    BY <1>10 DEF Crash, vars, store, history
  <2> QED
    BY <2>1, Invisible DEF Promise!linkVars
<1>11. ASSUME Hidden PROVE UNCHANGED Promise!linkVars
  BY <1>11, Invisible DEF Promise!linkVars
<1> HIDE DEF Hidden
<1> QED
  BY <1>1, <1>2, <1>3, <1>4, <1>5, <1>6, <1>7, <1>8, <1>9, <1>10, <1>11 DEF Next

(* Rows, files, handlers, cleanup and crashes together keep the promise of *)
(* a share link: published once, granted within its terms, delivered at    *)
(* most as often as granted, withdrawn for good.                           *)
THEOREM StoreImplementsLink == Spec => KeepsPromise
<1>1. Init => Promise!LinkInit
  BY DEF Init, Promise!LinkInit, AbsLink, LastRow, Listed
<1> QED
  BY <1>1, StepRefines, InductiveInvariant, PTL DEF Spec, KeepsPromise, Promise!LinkSpec

===============================================================================
