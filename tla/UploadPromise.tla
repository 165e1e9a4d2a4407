---------------------------- MODULE UploadPromise ----------------------------
(***************************************************************************)
(* What a chunked upload promises, whatever happens to its directory: a    *)
(* session is announced once with a size; every request for completion     *)
(* that finds it open shares at most one file, of the announced size; the  *)
(* session closes only after a file of it was shared, and for good.  A     *)
(* client that lost the answer may therefore ask again: it can get a       *)
(* second share only while the session was still open when it asked.       *)
(***************************************************************************)
EXTENDS Naturals

CONSTANTS
  Handlers,   \* goroutines that serve requests for completion
  Sessions,   \* upload ids
  Files,      \* names of shared files
  Sizes,      \* sizes that can be announced
  NoTicket,   \* a handler that is not completing an upload
  NoShare     \* a name nothing is shared under

VARIABLES
  announced,  \* the size of each open session, 0 if there is none
  closed,     \* sessions that were shared and removed
  ticket,     \* what the request a handler serves may still share
  shares      \* the files shared

vars == <<announced, closed, ticket, shares>>

Init ==
  /\ announced = [u \in Sessions |-> 0]
  /\ closed = {}
  /\ ticket = [h \in Handlers |-> NoTicket]
  /\ shares = [f \in Files |-> NoShare]

Announce(u, size) ==
  /\ announced[u] = 0
  /\ u \notin closed
  /\ announced' = [announced EXCEPT ![u] = size]
  /\ UNCHANGED <<closed, ticket, shares>>

Ask(h, u) ==
  /\ ticket[h] = NoTicket
  /\ announced[u] # 0
  /\ ticket' = [ticket EXCEPT ![h] = [session |-> u, size |-> announced[u]]]
  /\ UNCHANGED <<announced, closed, shares>>

(* A ticket is used up by the share it pays for.                           *)
Share(h, f) ==
  /\ ticket[h] # NoTicket
  /\ shares[f] = NoShare
  /\ shares' = [shares EXCEPT ![f] = ticket[h]]
  /\ ticket' = [ticket EXCEPT ![h] = NoTicket]
  /\ UNCHANGED <<announced, closed>>

(* One handler refuses or fails, or a restart ends all of them.            *)
GiveUp(H) ==
  /\ ticket' = [h \in Handlers |-> IF h \in H THEN NoTicket ELSE ticket[h]]
  /\ UNCHANGED <<announced, closed, shares>>

Close(u) ==
  /\ announced[u] # 0
  /\ \E f \in Files : shares[f] # NoShare /\ shares[f].session = u
  /\ announced' = [announced EXCEPT ![u] = 0]
  /\ closed' = closed \cup {u}
  /\ UNCHANGED <<ticket, shares>>

Next ==
  \/ \E u \in Sessions :
       \/ \E size \in Sizes : Announce(u, size)
       \/ \E h \in Handlers : Ask(h, u)
       \/ Close(u)
  \/ \E h \in Handlers, f \in Files : Share(h, f)
  \/ \E H \in SUBSET Handlers : GiveUp(H)

Spec == Init /\ [][Next]_vars

=============================================================================
