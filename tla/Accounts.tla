------------------------------ MODULE Accounts ------------------------------
(***************************************************************************)
(* First-run setup, login, logout and the session every request is         *)
(* authenticated with (handlers/auth.go, auth/session.go, models/user.go). *)
(* A handler's database calls are its steps; between them it hashes or     *)
(* compares a password, which takes long enough for anything to happen.    *)
(*                                                                         *)
(* An answer may be lost, so a browser can keep the cookie it had.         *)
(*                                                                         *)
(* User.Ban and User.Unban have no caller, so nobody is ever banned and    *)
(* the ban checks are left out.  Sessions never expire on the server.      *)
(*                                                                         *)
(* A definition named after the one right below it is a plausible bug in   *)
(* that definition.                                                        *)
(***************************************************************************)
EXTENDS Integers, FiniteSets, FiniteSetsExt

CONSTANTS
  Browsers,     \* each has a cookie jar and waits for one answer at a time
  Emails,       \* normalized addresses
  NoUser,
  MaxSessions,  \* bound: ids of sessions handed out
  MaxFaults     \* bound: failed counts of the users

ASSUME BrowsersAssumption == IsFiniteSet(Browsers)
ASSUME NoUserAssumption == NoUser \notin Emails
ASSUME BoundsAssumption == MaxSessions \in Nat /\ MaxFaults \in Nat

VARIABLES
  users,    \* table users; every account is made by setup, role admin
  sessions, \* table sessions: the user of each id, NoUser where no row is
  lastId,   \* sqlite_sequence of sessions (AUTOINCREMENT)
  cookie,   \* the session id in a browser's signed cookie, 0 for none
  pc,       \* where a browser's request stands
  email,    \* the account it sets up or logs in to
  current,  \* the session id auth put into the request's context
  faults,   \* failed counts so far
  owner     \* history: the user each id was first handed to

vars == <<users, sessions, lastId, cookie, pc, email, current, faults, owner>>

Ids == 1..MaxSessions

TypeOK ==
  /\ users \subseteq Emails
  /\ sessions \in [Ids -> Emails \cup {NoUser}]
  /\ lastId \in 0..MaxSessions
  /\ cookie \in [Browsers -> Ids \cup {0}]
  /\ pc \in [Browsers -> {"idle", "hashing", "created", "comparing", "verified",
                          "leaving", "acting"}]
  /\ email \in [Browsers -> Emails \cup {NoUser}]
  /\ current \in [Browsers -> Ids \cup {0}]
  /\ faults \in 0..MaxFaults
  /\ owner \in [Ids -> Emails \cup {NoUser}]

Init ==
  /\ users = {}
  /\ sessions = [i \in Ids |-> NoUser]
  /\ lastId = 0
  /\ cookie = [b \in Browsers |-> 0]
  /\ pc = [b \in Browsers |-> "idle"]
  /\ email = [b \in Browsers |-> NoUser]
  /\ current = [b \in Browsers |-> 0]
  /\ faults = 0
  /\ owner = [i \in Ids |-> NoUser]

Goto(b, label) == pc' = [pc EXCEPT ![b] = label]

Finish(b) ==
  /\ pc' = [pc EXCEPT ![b] = "idle"]
  /\ email' = [email EXCEPT ![b] = NoUser]
  /\ current' = [current EXCEPT ![b] = 0]

(* GetSessionFromCookie: the row the cookie names, if it is still there.   *)
LoggedIn(b) == cookie[b] # 0 /\ sessions[cookie[b]] # NoUser

NextIdReused ==
  IF \A i \in Ids : sessions[i] = NoUser THEN 1
  ELSE 1 + Max({i \in Ids : sessions[i] # NoUser})
NextId == lastId + 1

(* The answer sets the cookie, if it arrives.                              *)
Answer(b, value) == cookie' \in {cookie, [cookie EXCEPT ![b] = value]}

ClearedMaxAge == -1   \* the cookie's MaxAge taken for its value
Cleared == 0

(* StartSession: the row, then the cookie of the answer.                   *)
StartSession(b) ==
  /\ lastId < MaxSessions
  /\ lastId' = NextId
  /\ sessions' = [sessions EXCEPT ![NextId] = email[b]]
  /\ Answer(b, NextId)
  /\ owner' = IF owner[NextId] = NoUser
              THEN [owner EXCEPT ![NextId] = email[b]]
              ELSE owner

-----------------------------------------------------------------------------
(* Setup                                                                   *)

SetupAllowedAlways == TRUE
SetupAllowed == users = {}   \* CountUsers

BeginSetup(b, e) ==
  /\ pc[b] = "idle"
  /\ SetupAllowed
  /\ email' = [email EXCEPT ![b] = e]
  /\ Goto(b, "hashing")
  /\ UNCHANGED <<users, sessions, lastId, cookie, current, faults, owner>>

(* cnt, _ := CountUsers: a count that failed reads as no users.            *)
BeginSetupUncounted(b, e) ==
  /\ pc[b] = "idle"
  /\ faults < MaxFaults
  /\ faults' = faults + 1
  /\ email' = [email EXCEPT ![b] = e]
  /\ Goto(b, "hashing")
  /\ UNCHANGED <<users, sessions, lastId, cookie, current, owner>>

(* The address is UNIQUE; nothing else is checked again after bcrypt.      *)
CreateUser(b) ==
  /\ pc[b] = "hashing"
  /\ email[b] \notin users
  /\ users' = users \cup {email[b]}
  /\ Goto(b, "created")
  /\ UNCHANGED <<sessions, lastId, cookie, email, current, faults, owner>>

(* A short password, a taken address, a failed INSERT.                     *)
CreateFails(b) ==
  /\ pc[b] = "hashing"
  /\ Finish(b)
  /\ UNCHANGED <<users, sessions, lastId, cookie, faults, owner>>

-----------------------------------------------------------------------------
(* Login                                                                   *)

BeginLogin(b, e) ==
  /\ pc[b] = "idle"
  /\ e \in users
  /\ email' = [email EXCEPT ![b] = e]
  /\ Goto(b, "comparing")
  /\ UNCHANGED <<users, sessions, lastId, cookie, current, faults, owner>>

AcceptPassword(b) ==
  /\ pc[b] = "comparing"
  /\ Goto(b, "verified")
  /\ UNCHANGED <<users, sessions, lastId, cookie, email, current, faults, owner>>

RefusePassword(b) ==
  /\ pc[b] = "comparing"
  /\ Finish(b)
  /\ UNCHANGED <<users, sessions, lastId, cookie, faults, owner>>

(* The end of setup and of login alike.  An older session of this browser  *)
(* keeps its row.                                                          *)
Enter(b) ==
  /\ pc[b] \in {"created", "verified"}
  /\ StartSession(b)
  /\ Finish(b)
  /\ UNCHANGED <<users, faults>>

(* The INSERT failed; setup has made the account all the same.             *)
EnterFails(b) ==
  /\ pc[b] \in {"created", "verified"}
  /\ Finish(b)
  /\ UNCHANGED <<users, sessions, lastId, cookie, faults, owner>>

-----------------------------------------------------------------------------
(* Logout and authenticated requests                                       *)

(* LoadUser found a session; without one only the cookie is cleared.       *)
BeginLogout(b) ==
  /\ pc[b] = "idle"
  /\ LoggedIn(b)
  /\ current' = [current EXCEPT ![b] = cookie[b]]
  /\ Goto(b, "leaving")
  /\ UNCHANGED <<users, sessions, lastId, cookie, email, faults, owner>>

ClearCookie(b) ==
  /\ pc[b] = "idle"
  /\ cookie[b] # 0 /\ ~LoggedIn(b)
  /\ Answer(b, Cleared)
  /\ UNCHANGED <<users, sessions, lastId, pc, email, current, faults, owner>>

TerminateSession(b) ==
  /\ pc[b] = "leaving"
  /\ sessions' = [sessions EXCEPT ![current[b]] = NoUser]
  /\ Answer(b, Cleared)
  /\ Finish(b)
  /\ UNCHANGED <<users, lastId, faults, owner>>

(* The DELETE failed and its error is ignored: only the cookie goes.       *)
TerminateFails(b) ==
  /\ pc[b] = "leaving"
  /\ Answer(b, Cleared)
  /\ Finish(b)
  /\ UNCHANGED <<users, sessions, lastId, faults, owner>>

(* RequireAuth lets a request through; the session is not looked at again. *)
BeginRequest(b) ==
  /\ pc[b] = "idle"
  /\ LoggedIn(b)
  /\ current' = [current EXCEPT ![b] = cookie[b]]
  /\ email' = [email EXCEPT ![b] = sessions[cookie[b]]]
  /\ Goto(b, "acting")
  /\ UNCHANGED <<users, sessions, lastId, cookie, faults, owner>>

EndRequest(b) ==
  /\ pc[b] = "acting"
  /\ Finish(b)
  /\ UNCHANGED <<users, sessions, lastId, cookie, faults, owner>>

(* A second browser with the same cookie: a restored profile or a copy of  *)
(* the jar.                                                                *)
ShareCookie(b, c) ==
  /\ pc[c] = "idle"
  /\ cookie[b] # 0
  /\ cookie' = [cookie EXCEPT ![c] = cookie[b]]
  /\ UNCHANGED <<users, sessions, lastId, pc, email, current, faults, owner>>

Next ==
  \E b \in Browsers :
    \/ \E e \in Emails :
         BeginSetup(b, e) \/ BeginSetupUncounted(b, e) \/ BeginLogin(b, e)
    \/ CreateUser(b) \/ CreateFails(b)
    \/ AcceptPassword(b) \/ RefusePassword(b)
    \/ Enter(b) \/ EnterFails(b)
    \/ BeginLogout(b) \/ ClearCookie(b) \/ TerminateSession(b) \/ TerminateFails(b)
    \/ BeginRequest(b) \/ EndRequest(b)
    \/ \E c \in Browsers : ShareCookie(b, c)

Spec == Init /\ [][Next]_vars

-----------------------------------------------------------------------------
(* A signed cookie never comes to mean somebody else: a request acts for   *)
(* the user its session was started for, although rows are deleted and     *)
(* cookies outlive them.                                                   *)
ActsForOwner ==
  \A b \in Browsers : pc[b] = "acting" => owner[current[b]] = email[b]

(* A session that ended stays ended: a cookie that was kept does not       *)
(* become valid again.                                                     *)
EndedStaysEnded ==
  [][\A i \in Ids : owner[i] # NoUser /\ sessions[i] = NoUser => sessions'[i] = NoUser]_vars

(* Setup closes for good: after the first account only requests that had   *)
(* already passed the check, or whose count failed, can add another one.   *)
(* A browser has one request in flight here, so their number stands for    *)
(* the requests that can be in flight at once.                             *)
SetupRaceIsBounded ==
  users # {} =>
    Cardinality(users) + Cardinality({b \in Browsers : pc[b] = "hashing"})
      <= Cardinality(Browsers) + faults

(* "if no users exist you'll be taken to setup to create the admin"        *)
(* (README.md): setup creates one account.                                 *)
OneAdmin == Cardinality(users) <= 1

=============================================================================
