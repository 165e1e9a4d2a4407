------------------------------ MODULE RateLimit ------------------------------
(***************************************************************************)
(* The in-memory rate limiter (middleware/ratelimit.go): one counter per   *)
(* address, all of them forgotten when the first request comes more than a *)
(* Window after the last time they were.  Counting is one critical         *)
(* section; the decision is taken outside it, on the count a request saw,  *)
(* when other requests and a new window may have passed in between.        *)
(*                                                                         *)
(* A definition named after the one right below it is a plausible bug in   *)
(* that definition.                                                        *)
(***************************************************************************)
EXTENDS Integers, FiniteSets

CONSTANTS
  Requests,       \* requests, each made once
  Addresses,      \* client addresses RealIP can give
  Limit,          \* 300 * RateLimitMultiplier
  Window,         \* time.Minute
  Settings,       \* values of EnableBanning a server may be started with
  MaxTime,        \* bound: the clock stops here
  MaxRestarts     \* bound: restarts of the server

ASSUME LimitAssumption ==
  /\ IsFiniteSet(Requests)
  /\ Limit \in Int /\ Window \in Nat \ {0} /\ Settings \subseteq BOOLEAN
  /\ MaxTime \in Nat /\ MaxRestarts \in Nat

VARIABLES
  enableBanning,  \* without it nothing is counted
  clock,
  lastReset,
  counters,   \* requests counted since lastReset
  state,      \* of each request
  from,       \* its address
  at,         \* when it was counted
  seen,       \* the count it saw
  restarts

request == <<state, from, at, seen>>
vars == <<enableBanning, clock, lastReset, counters, request, restarts>>

TypeOK ==
  /\ enableBanning \in BOOLEAN
  /\ clock \in 0..MaxTime /\ lastReset \in 0..MaxTime
  /\ counters \in [Addresses -> Nat]
  /\ state \in [Requests -> {"new", "counted", "served", "refused", "passed", "cut"}]
  /\ from \in [Requests -> Addresses]
  /\ at \in [Requests -> 0..MaxTime]
  /\ seen \in [Requests -> Nat]
  /\ restarts \in 0..MaxRestarts

NoCountsNilMap == [a \in {} |-> 0]
NoCounts == [a \in Addresses |-> 0]

Init ==
  /\ enableBanning \in Settings
  /\ clock = 0 /\ lastReset = 0
  /\ counters = NoCounts
  /\ state = [r \in Requests |-> "new"]
  /\ from \in [Requests -> Addresses]
  /\ at = [r \in Requests |-> 0]
  /\ seen = [r \in Requests |-> 0]
  /\ restarts = 0

(* The window is over: forget every counter.                               *)
ResetKeepingTime ==
  IF clock - lastReset > Window
  THEN [base |-> NoCounts, since |-> lastReset]
  ELSE [base |-> counters, since |-> lastReset]

Reset ==
  IF clock - lastReset > Window
  THEN [base |-> NoCounts, since |-> clock]
  ELSE [base |-> counters, since |-> lastReset]

(* The critical section.                                                   *)
Count(r) ==
  /\ enableBanning
  /\ state[r] = "new"
  /\ lastReset' = Reset.since
  /\ counters' = [Reset.base EXCEPT ![from[r]] = @ + 1]
  /\ seen' = [seen EXCEPT ![r] = counters'[from[r]]]
  /\ at' = [at EXCEPT ![r] = clock]
  /\ state' = [state EXCEPT ![r] = "counted"]
  /\ UNCHANGED <<enableBanning, clock, from, restarts>>

OverLimitByOne(n) == n > Limit + 1
OverLimitTooEarly(n) == n >= Limit
OverLimit(n) == n > Limit

Serve(r) ==
  /\ state[r] = "counted"
  /\ ~OverLimit(seen[r])
  /\ state' = [state EXCEPT ![r] = "served"]
  /\ UNCHANGED <<enableBanning, clock, lastReset, counters, from, at, seen, restarts>>

Refuse(r) ==
  /\ state[r] = "counted"
  /\ OverLimit(seen[r])
  /\ state' = [state EXCEPT ![r] = "refused"]
  /\ UNCHANGED <<enableBanning, clock, lastReset, counters, from, at, seen, restarts>>

(* The limiter is switched off (development).                              *)
PassUncounted(r) ==
  /\ ~enableBanning
  /\ state[r] = "new"
  /\ state' = [state EXCEPT ![r] = "passed"]
  /\ UNCHANGED <<enableBanning, clock, lastReset, counters, from, at, seen, restarts>>

(* The counters live in memory; requests in flight are cut.                *)
Restart ==
  /\ restarts < MaxRestarts
  /\ restarts' = restarts + 1
  /\ enableBanning' \in Settings
  /\ counters' = NoCounts
  /\ lastReset' = clock
  /\ state' = [r \in Requests |-> IF state[r] = "counted" THEN "cut" ELSE state[r]]
  /\ UNCHANGED <<clock, from, at, seen>>

Tick ==
  /\ clock < MaxTime
  /\ clock' = clock + 1
  /\ UNCHANGED <<enableBanning, lastReset, counters, request, restarts>>

Next ==
  \/ \E r \in Requests : Count(r) \/ Serve(r) \/ Refuse(r) \/ PassUncounted(r)
  \/ Restart
  \/ Tick

Spec == Init /\ [][Next]_vars

-----------------------------------------------------------------------------
ServedIn(a, first, last) ==
  {r \in Requests : state[r] = "served" /\ from[r] = a /\ at[r] \in first..last}

(* What an address may be served in a window; a negative multiplier, which *)
(* the configuration accepts, refuses everything.                          *)
Allowed == IF Limit > 0 THEN Limit ELSE 0

(* Of the requests of an address that are counted in any stretch of time   *)
(* as long as the window, twice its limit are served at most (the stretch  *)
(* can touch two windows), and one limit more for each restart.  The time  *)
(* is that of counting: requests held up between counting and serving may  *)
(* come out together later.                                                *)
AtMostTwiceInAnyWindow ==
  \A a \in Addresses, t \in 0..MaxTime :
    Cardinality(ServedIn(a, t, t + Window)) <= (2 + restarts) * Allowed

(* Without restarts an address is served at most its limit between two     *)
(* resets, however its requests are delayed between counting and serving.  *)
AtMostLimitSinceReset ==
  restarts = 0 => \A a \in Addresses :
    Cardinality(ServedIn(a, lastReset, clock)) <= Allowed

(* One address cannot use up the limit of another: whoever is refused has  *)
(* made more than Limit requests itself.                                   *)
RefusedOnlyForOwnRequests ==
  \A r \in Requests : state[r] = "refused" =>
    Cardinality({q \in Requests : from[q] = from[r] /\ state[q] # "new"}) > Limit

=============================================================================
