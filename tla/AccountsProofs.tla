---------------------------- MODULE AccountsProofs ----------------------------
(***************************************************************************)
(* TLAPS proofs about Accounts, for any browsers, addresses and number of  *)
(* sessions.                                                               *)
(***************************************************************************)
EXTENDS Accounts, FiniteSetTheorems, TLAPS

(* Ids that were not handed out yet belong to nobody, a row belongs to the *)
(* user its id was handed to, and the requests under way agree with it.    *)
AInv ==
  /\ TypeOK
  /\ \A i \in Ids : i > lastId => owner[i] = NoUser /\ sessions[i] = NoUser
  /\ \A i \in Ids : sessions[i] \in {NoUser, owner[i]}
  /\ \A b \in Browsers : pc[b] = "hashing" => email[b] \in Emails
  /\ \A b \in Browsers : pc[b] = "acting" =>
       current[b] \in Ids /\ email[b] \in Emails /\ owner[current[b]] = email[b]

(* Setups that passed the check and did not insert their account yet.      *)
Hashing == {b \in Browsers : pc[b] = "hashing"}

(* Every account was made by another browser's setup, or by one whose      *)
(* count failed.                                                           *)
SInv ==
  /\ IsFiniteSet(users)
  /\ Cardinality(users) + Cardinality(Hashing) <= Cardinality(Browsers) + faults

-----------------------------------------------------------------------------
(* The steps, by what they touch                                           *)

LEMMA AnswerHasType ==
  ASSUME TypeOK, NEW b, NEW i \in Ids \cup {0}, Answer(b, i)
  PROVE  cookie' \in [Browsers -> Ids \cup {0}]
BY DEF Answer, TypeOK

LEMMA FinishHasType ==
  ASSUME TypeOK, NEW b \in Browsers, Finish(b)
  PROVE  /\ pc' \in [Browsers -> {"idle", "hashing", "created", "comparing", "verified",
                                 "leaving", "acting"}]
         /\ email' \in [Browsers -> Emails \cup {NoUser}]
         /\ current' \in [Browsers -> Ids \cup {0}]
         /\ pc'[b] = "idle"
         /\ \A c \in Browsers : c # b => /\ pc'[c] = pc[c] /\ email'[c] = email[c]
                                         /\ current'[c] = current[c]
BY DEF Finish, TypeOK

(* A new session gets an id that was nobody's.                             *)
LEMMA EnterEffect ==
  ASSUME AInv, NEW b \in Browsers, Enter(b)
  PROVE  /\ lastId + 1 \in Ids /\ lastId' = lastId + 1
         /\ owner[lastId + 1] = NoUser
         /\ sessions' = [sessions EXCEPT ![lastId + 1] = email[b]]
         /\ owner' = [owner EXCEPT ![lastId + 1] = email[b]]
         /\ Answer(b, lastId + 1)
         /\ Finish(b) /\ UNCHANGED <<users, faults>>
<1>1. lastId < MaxSessions /\ lastId \in Nat
  BY BoundsAssumption DEF Enter, StartSession, AInv, TypeOK
<1>2. lastId + 1 \in Ids /\ lastId + 1 > lastId
  BY <1>1, BoundsAssumption DEF Ids
<1>3. owner[lastId + 1] = NoUser
  BY <1>2 DEF AInv
<1> QED
  BY <1>2, <1>3 DEF Enter, StartSession, NextId

(* The steps that move one browser's request only.                         *)
Moves(b) ==
  \/ \E e \in Emails : BeginSetup(b, e) \/ BeginSetupUncounted(b, e) \/ BeginLogin(b, e)
  \/ CreateUser(b) \/ CreateFails(b)
  \/ AcceptPassword(b) \/ RefusePassword(b)
  \/ EnterFails(b)
  \/ BeginLogout(b) \/ ClearCookie(b) \/ TerminateFails(b)
  \/ BeginRequest(b) \/ EndRequest(b)
  \/ \E c \in Browsers : ShareCookie(b, c)

LEMMA MovesKeepSessions ==
  ASSUME NEW b \in Browsers, Moves(b)
  PROVE  UNCHANGED <<sessions, lastId, owner>>
BY DEF Moves, BeginSetup, BeginSetupUncounted, BeginLogin, CreateUser, CreateFails,
       AcceptPassword, RefusePassword, EnterFails, BeginLogout, ClearCookie,
       TerminateFails, BeginRequest, EndRequest, ShareCookie

-----------------------------------------------------------------------------
(* Types and sessions                                                      *)

LEMMA AInitially == Init => AInv
  BY BoundsAssumption DEF Init, AInv, TypeOK

LEMMA MovesKeepType ==
  ASSUME AInv, NEW b \in Browsers, Moves(b)
  PROVE  TypeOK'
<1> USE DEF AInv
<1>1. ASSUME NEW e \in Emails, BeginSetup(b, e) \/ BeginSetupUncounted(b, e) \/ BeginLogin(b, e)
      PROVE  TypeOK'
  BY <1>1, BoundsAssumption DEF BeginSetup, BeginSetupUncounted, BeginLogin, Goto, TypeOK
<1>2. CASE CreateUser(b)
  BY <1>2 DEF CreateUser, Goto, TypeOK
<1>3. CASE CreateFails(b) \/ RefusePassword(b) \/ EnterFails(b) \/ EndRequest(b)
  <2>1. Finish(b) /\ UNCHANGED <<users, sessions, lastId, cookie, faults, owner>>
    BY <1>3 DEF CreateFails, RefusePassword, EnterFails, EndRequest
  <2> QED
    BY <2>1, FinishHasType DEF TypeOK
<1>4. CASE AcceptPassword(b)
  BY <1>4 DEF AcceptPassword, Goto, TypeOK
<1>5. CASE BeginLogout(b)
  BY <1>5 DEF BeginLogout, Goto, TypeOK
<1>6. CASE ClearCookie(b)
  BY <1>6, AnswerHasType DEF ClearCookie, Cleared, TypeOK
<1>7. CASE TerminateFails(b)
  <2>1. Finish(b) /\ UNCHANGED <<users, sessions, lastId, faults, owner>>
    BY <1>7 DEF TerminateFails
  <2>2. cookie' \in [Browsers -> Ids \cup {0}]
    BY <1>7, AnswerHasType DEF TerminateFails, Cleared
  <2> QED
    BY <2>1, <2>2, FinishHasType DEF TypeOK
<1>8. CASE BeginRequest(b)
  <2>1. cookie[b] \in Ids
    BY <1>8 DEF BeginRequest, LoggedIn, TypeOK
  <2>2. sessions[cookie[b]] \in Emails \cup {NoUser}
    BY <2>1 DEF TypeOK
  <2> QED
    BY <1>8, <2>1, <2>2 DEF BeginRequest, Goto, TypeOK
<1>9. ASSUME NEW c \in Browsers, ShareCookie(b, c) PROVE TypeOK'
  BY <1>9 DEF ShareCookie, TypeOK
<1> QED
  BY <1>1, <1>2, <1>3, <1>4, <1>5, <1>6, <1>7, <1>8, <1>9 DEF Moves

LEMMA MovesKeepRequests ==
  ASSUME AInv, NEW b \in Browsers, Moves(b), NEW c \in Browsers
  PROVE  /\ pc'[c] = "hashing" => email'[c] \in Emails
         /\ pc'[c] = "acting" => /\ current'[c] \in Ids /\ email'[c] \in Emails
                                 /\ owner[current'[c]] = email'[c]
<1>0. /\ pc[c] = "hashing" => email[c] \in Emails
      /\ pc[c] = "acting" => /\ current[c] \in Ids /\ email[c] \in Emails
                             /\ owner[current[c]] = email[c]
  BY DEF AInv
<1>1. ASSUME NEW e \in Emails, BeginSetup(b, e) \/ BeginSetupUncounted(b, e) \/ BeginLogin(b, e)
      PROVE  \/ pc'[c] \in {"hashing", "comparing"} /\ email'[c] \in Emails
             \/ pc'[c] = pc[c] /\ email'[c] = email[c] /\ current'[c] = current[c]
  <2>1. PICK label \in {"hashing", "comparing"} : pc' = [pc EXCEPT ![b] = label]
    BY <1>1 DEF BeginSetup, BeginSetupUncounted, BeginLogin, Goto
  <2>2. email' = [email EXCEPT ![b] = e] /\ current' = current
    BY <1>1 DEF BeginSetup, BeginSetupUncounted, BeginLogin
  <2> QED
    BY <2>1, <2>2 DEF AInv, TypeOK
<1>2. CASE CreateUser(b) \/ AcceptPassword(b) \/ BeginLogout(b) \/ ClearCookie(b)
           \/ \E d \in Browsers : ShareCookie(b, d)
  <2>1. \/ pc'[c] \in {"created", "verified", "leaving"}
        \/ pc'[c] = pc[c] /\ email'[c] = email[c] /\ current'[c] = current[c]
    BY <1>2 DEF CreateUser, AcceptPassword, BeginLogout, ClearCookie, ShareCookie, Goto,
                AInv, TypeOK
  <2> QED
    BY <1>0, <2>1
<1>3. CASE CreateFails(b) \/ RefusePassword(b) \/ EnterFails(b) \/ EndRequest(b) \/ TerminateFails(b)
  <2>1. Finish(b)
    BY <1>3 DEF CreateFails, RefusePassword, EnterFails, EndRequest, TerminateFails
  <2>2. \/ pc'[c] = "idle"
        \/ pc'[c] = pc[c] /\ email'[c] = email[c] /\ current'[c] = current[c]
    BY <2>1, FinishHasType DEF AInv
  <2> QED
    BY <1>0, <2>2
<1>4. CASE BeginRequest(b)
  <2>1. cookie[b] \in Ids /\ sessions[cookie[b]] # NoUser
    BY <1>4 DEF BeginRequest, LoggedIn, AInv, TypeOK
  <2>2. sessions[cookie[b]] \in Emails /\ owner[cookie[b]] = sessions[cookie[b]]
    BY <2>1 DEF AInv, TypeOK
  <2>3. \/ pc'[c] = "acting" /\ current'[c] = cookie[b] /\ email'[c] = sessions[cookie[b]]
        \/ pc'[c] = pc[c] /\ email'[c] = email[c] /\ current'[c] = current[c]
    BY <1>4 DEF BeginRequest, Goto, AInv, TypeOK
  <2> QED
    BY <1>0, <2>1, <2>2, <2>3
<1> QED
  BY <1>0, <1>1, <1>2, <1>3, <1>4 DEF Moves

LEMMA AKept == AInv /\ [Next]_vars => AInv'
<1> SUFFICES ASSUME AInv, [Next]_vars PROVE AInv'
  OBVIOUS
<1>1. ASSUME NEW b \in Browsers, Moves(b) PROVE AInv'
  <2>1. TypeOK'
    BY <1>1, MovesKeepType
  <2>2. UNCHANGED <<sessions, lastId, owner>>
    BY <1>1, MovesKeepSessions
  <2>3. \A c \in Browsers :
          /\ pc'[c] = "hashing" => email'[c] \in Emails
          /\ pc'[c] = "acting" => /\ current'[c] \in Ids /\ email'[c] \in Emails
                                  /\ owner[current'[c]] = email'[c]
    BY <1>1, MovesKeepRequests
  <2> QED
    BY <2>1, <2>2, <2>3 DEF AInv
<1>2. ASSUME NEW b \in Browsers, Enter(b) PROVE AInv'
  <2> DEFINE n == lastId + 1
  <2>1. /\ n \in Ids /\ lastId' = n /\ owner[n] = NoUser
        /\ sessions' = [sessions EXCEPT ![n] = email[b]]
        /\ owner' = [owner EXCEPT ![n] = email[b]]
        /\ Finish(b) /\ UNCHANGED <<users, faults>>
    BY <1>2, EnterEffect
  <2>2. cookie' \in [Browsers -> Ids \cup {0}]
    BY <1>2, EnterEffect, AnswerHasType DEF AInv
  <2>3. n \in Nat /\ n > lastId /\ lastId \in Nat /\ n \in 0..MaxSessions
    BY <2>1, BoundsAssumption DEF AInv, TypeOK, Ids
  <2> HIDE DEF n
  <2>4. TypeOK'
    BY <2>1, <2>2, <2>3, FinishHasType DEF AInv, TypeOK
  <2>5. /\ \A i \in Ids : i # n => owner'[i] = owner[i] /\ sessions'[i] = sessions[i]
        /\ owner'[n] = sessions'[n]
    BY <2>1 DEF AInv, TypeOK
  <2>6. ASSUME NEW i \in Ids, i > n PROVE owner'[i] = NoUser /\ sessions'[i] = NoUser
    <3>1. i > lastId /\ i # n
      BY <2>3, <2>6 DEF Ids
    <3> QED
      BY <2>5, <3>1 DEF AInv
  <2>7. \A i \in Ids : sessions'[i] \in {NoUser, owner'[i]}
    BY <2>5 DEF AInv
  <2>8. ASSUME NEW c \in Browsers
        PROVE  /\ pc'[c] = "hashing" => email'[c] \in Emails
               /\ pc'[c] = "acting" => /\ current'[c] \in Ids /\ email'[c] \in Emails
                                       /\ owner'[current'[c]] = email'[c]
    <3>1. CASE c = b
      BY <2>1, <3>1, FinishHasType DEF AInv
    <3>2. CASE c # b
      <4>1. pc'[c] = pc[c] /\ email'[c] = email[c] /\ current'[c] = current[c]
        BY <2>1, <3>2, FinishHasType DEF AInv
      <4>2. pc[c] = "acting" => current[c] # n
        BY <2>1, NoUserAssumption DEF AInv
      <4> QED
        BY <2>5, <4>1, <4>2 DEF AInv
    <3> QED
      BY <3>1, <3>2
  <2> QED
    BY <2>1, <2>4, <2>6, <2>7, <2>8 DEF AInv
<1>3. ASSUME NEW b \in Browsers, TerminateSession(b) PROVE AInv'
  <2>1. /\ sessions' = [sessions EXCEPT ![current[b]] = NoUser]
        /\ Finish(b) /\ UNCHANGED <<users, lastId, faults, owner>>
    BY <1>3 DEF TerminateSession
  <2>2. cookie' \in [Browsers -> Ids \cup {0}]
    BY <1>3, AnswerHasType DEF AInv, TerminateSession, Cleared
  <2>3. TypeOK'
    BY <2>1, <2>2, FinishHasType DEF AInv, TypeOK
  <2>4. \A i \in Ids : sessions'[i] \in {NoUser, sessions[i]}
    BY <2>1 DEF AInv, TypeOK
  <2>5. \A c \in Browsers : \/ pc'[c] = "idle"
                            \/ pc'[c] = pc[c] /\ email'[c] = email[c] /\ current'[c] = current[c]
    BY <2>1, FinishHasType DEF AInv
  <2> QED
    BY <2>1, <2>3, <2>4, <2>5 DEF AInv
<1>4. CASE UNCHANGED vars
  BY <1>4 DEF vars, AInv, TypeOK
<1> QED
  BY <1>1, <1>2, <1>3, <1>4 DEF Next, Moves

LEMMA AHolds == Spec => []AInv
  BY AInitially, AKept, PTL DEF Spec

(* Every variable keeps its type.                                          *)
THEOREM TypeCorrect == Spec => []TypeOK
<1>1. AInv => TypeOK
  BY DEF AInv
<1> QED
  BY <1>1, AHolds, PTL

(* A request acts for the user its session was started for.                *)
THEOREM RequestsActForOwner == Spec => []ActsForOwner
<1>1. AInv => ActsForOwner
  BY DEF AInv, ActsForOwner
<1> QED
  BY <1>1, AHolds, PTL

(* A session that ended is not started again, whatever cookie is kept.     *)
THEOREM EndedSessionsStayEnded == Spec => EndedStaysEnded
<1>1. ASSUME AInv, [Next]_vars, NEW i \in Ids, owner[i] # NoUser, sessions[i] = NoUser
      PROVE  sessions'[i] = NoUser
  <2>1. CASE \E b \in Browsers : Moves(b)
    BY <1>1, <2>1, MovesKeepSessions
  <2>2. ASSUME NEW b \in Browsers, Enter(b) PROVE sessions'[i] = NoUser
    <3>1. /\ owner[lastId + 1] = NoUser
          /\ sessions' = [sessions EXCEPT ![lastId + 1] = email[b]]
      BY <1>1, <2>2, EnterEffect
    <3> QED
      BY <1>1, <3>1 DEF AInv, TypeOK
  <2>3. ASSUME NEW b \in Browsers, TerminateSession(b) PROVE sessions'[i] = NoUser
    BY <1>1, <2>3 DEF TerminateSession, AInv, TypeOK
  <2>4. CASE UNCHANGED vars
    BY <1>1, <2>4 DEF vars
  <2> QED
    BY <1>1, <2>1, <2>2, <2>3, <2>4 DEF Next, Moves
<1>2. AInv /\ [Next]_vars =>
        [\A i \in Ids : owner[i] # NoUser /\ sessions[i] = NoUser => sessions'[i] = NoUser]_vars
  BY <1>1
<1> QED
  BY <1>2, AHolds, PTL DEF Spec, EndedStaysEnded

-----------------------------------------------------------------------------
(* The race of first-run setup                                             *)

LEMMA HashingIsFinite ==
  /\ IsFiniteSet(Hashing) /\ Cardinality(Hashing) \in Nat
  /\ Cardinality(Hashing) <= Cardinality(Browsers) /\ Cardinality(Browsers) \in Nat
<1>1. Hashing \in SUBSET Browsers
  BY DEF Hashing
<1> QED
  BY <1>1, FS_Subset, FS_CardinalityType, BrowsersAssumption

LEMMA HashingIsFiniteNext ==
  /\ IsFiniteSet(Hashing') /\ Cardinality(Hashing') \in Nat
  /\ Cardinality(Hashing') <= Cardinality(Browsers)
<1>1. Hashing' \in SUBSET Browsers
  BY DEF Hashing
<1> QED
  BY <1>1, FS_Subset, FS_CardinalityType, BrowsersAssumption

(* A step that sends nobody else into setup.                               *)
LEMMA RaceShrinks ==
  ASSUME SInv, AInv, UNCHANGED <<users, faults>>,
         \A c \in Browsers : pc'[c] = "hashing" => pc[c] = "hashing"
  PROVE  SInv'
<1>1. Hashing' \in SUBSET Hashing
  BY DEF Hashing
<1>2. Cardinality(Hashing') <= Cardinality(Hashing)
  BY <1>1, HashingIsFinite, FS_Subset
<1>3. Cardinality(users) \in Nat /\ faults \in Nat
  BY FS_CardinalityType DEF SInv, AInv, TypeOK
<1>4. Cardinality(users') = Cardinality(users) /\ IsFiniteSet(users')
  BY DEF SInv
<1> QED
  BY <1>2, <1>3, <1>4, HashingIsFinite, HashingIsFiniteNext DEF SInv

LEMMA SInitially == Init => SInv
<1> SUFFICES ASSUME Init PROVE SInv
  OBVIOUS
<1>1. IsFiniteSet(users) /\ Cardinality(users) = 0 /\ faults = 0
  BY FS_EmptySet DEF Init
<1> QED
  BY <1>1, HashingIsFinite DEF SInv

LEMMA SKept == SInv /\ AInv /\ [Next]_vars => SInv'
<1> SUFFICES ASSUME SInv, AInv, [Next]_vars PROVE SInv'
  OBVIOUS
<1>0. /\ IsFiniteSet(users) /\ Cardinality(users) \in Nat /\ faults \in Nat
      /\ Cardinality(users) + Cardinality(Hashing) <= Cardinality(Browsers) + faults
  BY FS_CardinalityType DEF SInv, AInv, TypeOK
<1>1. ASSUME NEW b \in Browsers, NEW e \in Emails, BeginSetup(b, e) PROVE SInv'
  <2>1. users = {} /\ UNCHANGED <<users, faults>>
    BY <1>1 DEF BeginSetup, SetupAllowed
  <2>2. IsFiniteSet(users') /\ Cardinality(users') = 0
    BY <2>1, FS_EmptySet
  <2> QED
    BY <1>0, <2>1, <2>2, HashingIsFinite, HashingIsFiniteNext DEF SInv
<1>2. ASSUME NEW b \in Browsers, NEW e \in Emails, BeginSetupUncounted(b, e) PROVE SInv'
  <2>1. users' = users /\ faults' = faults + 1 /\ pc' = [pc EXCEPT ![b] = "hashing"]
    BY <1>2 DEF BeginSetupUncounted, Goto
  <2>2. Hashing' = Hashing \cup {b}
    BY <2>1 DEF Hashing, AInv, TypeOK
  <2>3. Cardinality(Hashing') <= Cardinality(Hashing) + 1
    BY <2>2, HashingIsFinite, FS_AddElement
  <2> QED
    BY <1>0, <2>1, <2>3, HashingIsFinite, HashingIsFiniteNext DEF SInv
<1>3. ASSUME NEW b \in Browsers, CreateUser(b) PROVE SInv'
  <2>1. /\ pc[b] = "hashing" /\ pc' = [pc EXCEPT ![b] = "created"]
        /\ users' = users \cup {email[b]} /\ faults' = faults
    BY <1>3 DEF CreateUser, Goto
  <2>2. Hashing' = Hashing \ {b} /\ b \in Hashing
    BY <2>1 DEF Hashing, AInv, TypeOK
  <2>3. Cardinality(Hashing') = Cardinality(Hashing) - 1
    BY <2>2, HashingIsFinite, FS_RemoveElement
  <2>4. IsFiniteSet(users') /\ Cardinality(users') <= Cardinality(users) + 1
        /\ Cardinality(users') \in Nat
    <3>1. /\ IsFiniteSet(users \cup {email[b]})
          /\ Cardinality(users \cup {email[b]}) =
               IF email[b] \in users THEN Cardinality(users) ELSE Cardinality(users) + 1
      BY <1>0, FS_AddElement
    <3> QED
      BY <1>0, <2>1, <3>1
  <2> QED
    BY <1>0, <2>1, <2>3, <2>4, HashingIsFinite, HashingIsFiniteNext DEF SInv
<1>4. ASSUME NEW b \in Browsers,
             \/ \E e \in Emails : BeginLogin(b, e)
             \/ AcceptPassword(b)
             \/ BeginLogout(b) \/ ClearCookie(b)
             \/ BeginRequest(b)
             \/ \E c \in Browsers : ShareCookie(b, c)
      PROVE  SInv'
  <2>1. UNCHANGED <<users, faults>>
    BY <1>4 DEF BeginLogin, AcceptPassword, BeginLogout, ClearCookie, BeginRequest, ShareCookie
  <2>2. \/ \E label \in {"comparing", "verified", "leaving", "acting"} :
             pc' = [pc EXCEPT ![b] = label]
        \/ pc' = pc
    BY <1>4 DEF BeginLogin, AcceptPassword, BeginLogout, ClearCookie, BeginRequest,
                ShareCookie, Goto
  <2>3. \A c \in Browsers : pc'[c] = "hashing" => pc[c] = "hashing"
    BY <2>2 DEF AInv, TypeOK
  <2> QED
    BY <2>1, <2>3, RaceShrinks
<1>5. ASSUME NEW b \in Browsers,
             \/ CreateFails(b) \/ RefusePassword(b) \/ Enter(b) \/ EnterFails(b)
             \/ TerminateSession(b) \/ TerminateFails(b) \/ EndRequest(b)
      PROVE  SInv'
  <2>1. UNCHANGED <<users, faults>> /\ Finish(b)
    BY <1>5 DEF CreateFails, RefusePassword, Enter, EnterFails, TerminateSession,
                TerminateFails, EndRequest
  <2>2. \A c \in Browsers : pc'[c] = "hashing" => pc[c] = "hashing"
    BY <2>1, FinishHasType DEF AInv
  <2> QED
    BY <2>1, <2>2, RaceShrinks
<1>6. CASE UNCHANGED vars
  <2>1. UNCHANGED <<users, faults, pc>>
    BY <1>6 DEF vars
  <2> QED
    BY <2>1, RaceShrinks
<1> QED
  BY <1>1, <1>2, <1>3, <1>4, <1>5, <1>6 DEF Next

(* Setup closes for good: no more accounts than browsers and failed counts *)
(* can come of it.                                                         *)
THEOREM SetupRaceBounded == Spec => []SetupRaceIsBounded
<1>1. SInv => SetupRaceIsBounded
  BY DEF SInv, SetupRaceIsBounded, Hashing
<1>2. Spec => [](AInv /\ SInv)
  BY AInitially, AKept, SInitially, SKept, PTL DEF Spec
<1> QED
  BY <1>1, <1>2, PTL

=============================================================================
