------------------------------ MODULE ShareLink ------------------------------
(***************************************************************************)
(* What a share link promises its owner and its visitors, independently of *)
(* how go-mega stores it.  A link is published once with its terms (a      *)
(* download limit and an expiry), grants downloads only while those terms  *)
(* allow it, delivers no more files than it granted, and once withdrawn    *)
(* never comes back.  ShareStore implements this with a database row, a    *)
(* file and several handlers that interleave.                              *)
(***************************************************************************)
EXTENDS Integers

CONSTANTS
  Shares,      \* the links that can ever be published
  Unpublished  \* the value of a link before it is published

VARIABLES
  now,   \* the wall clock every expiry is compared with
  link   \* the public state of every link

linkVars == <<now, link>>

Link == [open : BOOLEAN, maxDL : Nat, ttl : Nat, expires : Nat,
         granted : Nat, delivered : Nat]

(* SharedFile.Active: zero stands for "no limit" in both terms.            *)
Usable(l) ==
  /\ l.maxDL = 0 \/ l.granted < l.maxDL
  /\ l.ttl = 0 \/ now < l.expires

LinkInit ==
  /\ now \in Nat
  /\ link = [s \in Shares |-> Unpublished]

Publish(s) ==
  /\ link[s] = Unpublished
  /\ link'[s] \in Link
  /\ link'[s].open /\ link'[s].granted = 0 /\ link'[s].delivered = 0
  /\ link' = [link EXCEPT ![s] = link'[s]]
  /\ UNCHANGED now

Grant(s) ==
  /\ link[s] # Unpublished
  /\ link[s].open
  /\ Usable(link[s])
  /\ link' = [link EXCEPT ![s].granted = @ + 1]
  /\ UNCHANGED now

(* A download that was granted may still be on the wire when the link is   *)
(* withdrawn, so delivery does not require the link to be open.            *)
Deliver(s) ==
  /\ link[s] # Unpublished
  /\ link[s].delivered < link[s].granted
  /\ link' = [link EXCEPT ![s].delivered = @ + 1]
  /\ UNCHANGED now

Withdraw(s) ==
  /\ link[s] # Unpublished
  /\ link[s].open
  /\ link' = [link EXCEPT ![s].open = FALSE]
  /\ UNCHANGED now

LinkTick == now' = now + 1 /\ UNCHANGED link

LinkNext ==
  \/ LinkTick
  \/ \E s \in Shares : Publish(s) \/ Grant(s) \/ Deliver(s) \/ Withdraw(s)

LinkSpec == LinkInit /\ [][LinkNext]_linkVars

=============================================================================
