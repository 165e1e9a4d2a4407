--------------------------- MODULE RateLimitProofs ---------------------------
(***************************************************************************)
(* TLAPS proofs about RateLimit, for any set of requests and addresses,    *)
(* any limit and window, and any number of restarts.                       *)
(***************************************************************************)
EXTENDS RateLimit, FiniteSetTheorems, TLAPS

(* The requests an address has made so far.                                *)
Made(a) == {r \in Requests : from[r] = a /\ state[r] # "new"}

(* No counter, and no count a request saw, exceeds the requests made.      *)
MInv ==
  /\ TypeOK
  /\ \A a \in Addresses : counters[a] <= Cardinality(Made(a))
  /\ \A r \in Requests : seen[r] <= Cardinality(Made(from[r]))
  /\ \A r \in Requests : state[r] = "refused" => OverLimit(seen[r])

(* The requests of an address, counted between t and t + Window, that are  *)
(* served or will be.                                                      *)
Good(a, t) ==
  {r \in Requests : /\ from[r] = a
                    /\ state[r] \in {"counted", "served"}
                    /\ ~OverLimit(seen[r])
                    /\ at[r] \in t..(t + Window)}

(* The part of its limit that an address has used in the current window.   *)
Used(a) == IF counters[a] < Allowed THEN counters[a] ELSE Allowed

(* What k windows allow.                                                   *)
Worth(k) == k * Allowed

(* A stretch of time is charged with the windows it can touch: all of it   *)
(* in the current one (and what restarts forgot), the current one and the  *)
(* one before, or two that are over.                                       *)
Charged(a, t, n) ==
  /\ n <= Worth(2 + restarts)
  /\ lastReset <= t + Window => n <= Worth(1 + restarts) + Used(a)
  /\ lastReset <= t => n <= Worth(restarts) + Used(a)

(* Whatever was counted was counted in a window that began no later than   *)
(* the current one, and what is served was within the limit.               *)
Dated ==
  /\ lastReset <= clock
  /\ \A r \in Requests :
       /\ state[r] \in {"counted", "served"} => at[r] <= clock /\ at[r] <= lastReset + Window
       /\ state[r] = "served" => ~OverLimit(seen[r])

WInv ==
  /\ TypeOK
  /\ Dated
  /\ \A a \in Addresses, t \in 0..MaxTime : Charged(a, t, Cardinality(Good(a, t)))

-----------------------------------------------------------------------------
(* Types                                                                   *)

(* What the critical section does, in an old window and in a new one.      *)
LEMMA CountEffect ==
  ASSUME TypeOK, NEW r \in Requests, Count(r)
  PROVE  /\ UNCHANGED <<enableBanning, clock, from, restarts>>
         /\ state[r] = "new"
         /\ state' = [state EXCEPT ![r] = "counted"]
         /\ at' = [at EXCEPT ![r] = clock]
         /\ seen' = [seen EXCEPT ![r] = counters'[from[r]]]
         /\ \/ /\ clock - lastReset > Window
               /\ lastReset' = clock
               /\ counters' = [a \in Addresses |-> IF a = from[r] THEN 1 ELSE 0]
            \/ /\ clock - lastReset <= Window
               /\ lastReset' = lastReset
               /\ counters' = [counters EXCEPT ![from[r]] = @ + 1]
<1>1. /\ UNCHANGED <<enableBanning, clock, from, restarts>>
      /\ state[r] = "new"
      /\ state' = [state EXCEPT ![r] = "counted"]
      /\ at' = [at EXCEPT ![r] = clock]
      /\ seen' = [seen EXCEPT ![r] = counters'[from[r]]]
      /\ lastReset' = Reset.since
      /\ counters' = [Reset.base EXCEPT ![from[r]] = @ + 1]
  BY DEF Count
<1>2. from[r] \in Addresses
  BY DEF TypeOK
<1>3. CASE clock - lastReset > Window
  <2>1. Reset.since = clock /\ Reset.base = NoCounts
    BY <1>3 DEF Reset
  <2>2. counters' = [a \in Addresses |-> IF a = from[r] THEN 1 ELSE 0]
    BY <1>1, <1>2, <2>1 DEF NoCounts
  <2> QED
    BY <1>1, <1>3, <2>1, <2>2
<1>4. CASE ~(clock - lastReset > Window)
  <2>1. Reset.since = lastReset /\ Reset.base = counters
    BY <1>4 DEF Reset
  <2>2. clock - lastReset <= Window
    BY <1>4, LimitAssumption DEF TypeOK
  <2> QED
    BY <1>1, <2>1, <2>2
<1> QED
  BY <1>3, <1>4

LEMMA TypeInitially == Init => TypeOK
  BY LimitAssumption DEF Init, TypeOK, NoCounts

LEMMA TypeKept == TypeOK /\ [Next]_vars => TypeOK'
<1> SUFFICES ASSUME TypeOK, [Next]_vars PROVE TypeOK'
  OBVIOUS
<1> USE LimitAssumption
<1>1. ASSUME NEW r \in Requests, Count(r) PROVE TypeOK'
  <2>1. counters' \in [Addresses -> Nat] /\ lastReset' \in 0..MaxTime
    BY <1>1, CountEffect DEF TypeOK
  <2>2. seen' \in [Requests -> Nat]
    BY <1>1, <2>1, CountEffect DEF TypeOK
  <2> QED
    BY <1>1, <2>1, <2>2, CountEffect DEF TypeOK
<1>2. ASSUME NEW r \in Requests, Serve(r) \/ Refuse(r) \/ PassUncounted(r)
      PROVE  TypeOK'
  BY <1>2 DEF Serve, Refuse, PassUncounted, TypeOK
<1>3. CASE Restart
  <2>1. state' \in [Requests -> {"new", "counted", "served", "refused", "passed", "cut"}]
    BY <1>3 DEF Restart, TypeOK
  <2>2. enableBanning' \in BOOLEAN /\ restarts' \in 0..MaxRestarts
    BY <1>3 DEF Restart, TypeOK
  <2> QED
    BY <1>3, <2>1, <2>2 DEF Restart, TypeOK, NoCounts
<1>4. CASE Tick
  BY <1>4 DEF Tick, TypeOK, request
<1>5. CASE UNCHANGED vars
  BY <1>5 DEF vars, request, TypeOK
<1> QED
  BY <1>1, <1>2, <1>3, <1>4, <1>5 DEF Next

(* Every variable keeps its type.                                          *)
THEOREM TypeCorrect == Spec => []TypeOK
  BY TypeInitially, TypeKept, PTL DEF Spec

-----------------------------------------------------------------------------
(* Who is refused                                                          *)

LEMMA MadeIsFinite ==
  ASSUME NEW a
  PROVE  IsFiniteSet(Made(a)) /\ Cardinality(Made(a)) \in Nat
<1>1. Made(a) \in SUBSET Requests
  BY DEF Made
<1> QED
  BY <1>1, FS_Subset, FS_CardinalityType, LimitAssumption

(* A step that makes no request new again does not lower what was made.    *)
LEMMA MadeGrows ==
  ASSUME from' = from, \A r \in Requests : state[r] # "new" => state'[r] # "new",
         NEW a
  PROVE  Cardinality(Made(a)) <= Cardinality(Made(a)')
<1>1. Made(a) \in SUBSET (Made(a)')
  BY DEF Made
<1>2. Made(a)' \in SUBSET Requests
  BY DEF Made
<1>3. IsFiniteSet(Made(a)')
  BY <1>2, FS_Subset, LimitAssumption
<1> QED
  BY <1>1, <1>3, FS_Subset

LEMMA MadeWithoutCounting ==
  ASSUME MInv, TypeOK', from' = from,
         \A r \in Requests : state[r] # "new" => state'[r] # "new",
         \A a \in Addresses : counters'[a] <= counters[a],
         seen' = seen,
         \A r \in Requests : state'[r] = "refused" => OverLimit(seen[r])
  PROVE  MInv'
<1>1. ASSUME NEW a \in Addresses PROVE counters'[a] <= Cardinality(Made(a)')
  <2>1. counters'[a] \in Nat /\ counters[a] \in Nat
    BY DEF MInv, TypeOK
  <2>2. Cardinality(Made(a)) \in Nat /\ Cardinality(Made(a)) <= Cardinality(Made(a)')
    BY MadeIsFinite, MadeGrows
  <2>3. Cardinality(Made(a)') \in Nat
    <3>1. Made(a)' \in SUBSET Requests
      BY DEF Made
    <3> QED
      BY <3>1, FS_Subset, FS_CardinalityType, LimitAssumption
  <2>4. counters[a] <= Cardinality(Made(a))
    BY DEF MInv
  <2> QED
    BY <2>1, <2>2, <2>3, <2>4
<1>2. ASSUME NEW r \in Requests PROVE seen'[r] <= Cardinality(Made(from[r])')
  <2>1. seen[r] \in Nat /\ seen[r] <= Cardinality(Made(from[r]))
    BY DEF MInv, TypeOK
  <2>2. Cardinality(Made(from[r])) \in Nat
        /\ Cardinality(Made(from[r])) <= Cardinality(Made(from[r])')
    BY MadeIsFinite, MadeGrows
  <2>3. Cardinality(Made(from[r])') \in Nat
    <3>1. Made(from[r])' \in SUBSET Requests
      BY DEF Made
    <3> QED
      BY <3>1, FS_Subset, FS_CardinalityType, LimitAssumption
  <2> QED
    BY <2>1, <2>2, <2>3
<1> QED
  BY <1>1, <1>2 DEF MInv, Made, OverLimit

LEMMA MadeByCounting ==
  ASSUME TypeOK, NEW r \in Requests, Count(r)
  PROVE  Cardinality(Made(from[r])') = Cardinality(Made(from[r])) + 1
<1>1. from' = from /\ state[r] = "new" /\ state' = [state EXCEPT ![r] = "counted"]
  BY CountEffect
<1>2. Made(from[r])' = Made(from[r]) \cup {r} /\ r \notin Made(from[r])
  BY <1>1 DEF Made, TypeOK
<1> QED
  BY <1>2, MadeIsFinite, FS_AddElement

LEMMA MadeInitially == Init => MInv
<1> SUFFICES ASSUME Init PROVE MInv
  OBVIOUS
<1>1. \A a \in Addresses : counters[a] = 0 /\ Cardinality(Made(a)) \in Nat
  BY MadeIsFinite DEF Init, NoCounts
<1>2. \A r \in Requests : seen[r] = 0 /\ state[r] = "new" /\ Cardinality(Made(from[r])) \in Nat
  BY MadeIsFinite DEF Init
<1> QED
  BY <1>1, <1>2, TypeInitially DEF MInv

LEMMA MadeKept == MInv /\ [Next]_vars => MInv'
<1> SUFFICES ASSUME MInv, [Next]_vars PROVE MInv'
  OBVIOUS
<1>0. TypeOK /\ TypeOK'
  BY TypeKept DEF MInv
<1>1. ASSUME NEW r \in Requests, Count(r) PROVE MInv'
  <2>0. PICK b \in Addresses : b = from[r]
    BY <1>0 DEF TypeOK
  <2>1. /\ from' = from
        /\ state[r] = "new" /\ state' = [state EXCEPT ![r] = "counted"]
        /\ seen' = [seen EXCEPT ![r] = counters'[b]]
    BY <1>0, <1>1, <2>0, CountEffect
  <2>2. \A a \in Addresses : counters'[a] <= IF a = b THEN counters[a] + 1 ELSE counters[a]
    BY <1>0, <1>1, <2>0, CountEffect DEF TypeOK
  <2>3. Cardinality(Made(b)') = Cardinality(Made(b)) + 1
    <3>1. Made(from[r])' = Made(b)'
      BY <2>0, <2>1
    <3> QED
      BY <1>0, <1>1, <2>0, <3>1, MadeByCounting
  <2>4. \A a \in Addresses : a # b => Made(a)' = Made(a)
    BY <2>0, <2>1 DEF Made
  <2>5. \A a \in Addresses : Cardinality(Made(a)) \in Nat /\ counters[a] \in Nat /\ counters'[a] \in Nat
    BY <1>0, MadeIsFinite DEF TypeOK
  <2>6. ASSUME NEW a \in Addresses PROVE counters'[a] <= Cardinality(Made(a)')
    BY <2>2, <2>3, <2>4, <2>5 DEF MInv
  <2>7. ASSUME NEW q \in Requests PROVE seen'[q] <= Cardinality(Made(from[q])')
    <3>1. CASE q = r
      BY <1>0, <2>0, <2>1, <2>6, <3>1 DEF TypeOK
    <3>2. CASE q # r
      <4>1. /\ seen'[q] = seen[q] /\ seen[q] \in Nat /\ from[q] \in Addresses
            /\ seen[q] <= Cardinality(Made(from[q]))
        BY <1>0, <2>1, <3>2 DEF TypeOK, MInv
      <4>2. PICK c \in Addresses : c = from[q]
        BY <4>1
      <4>3. seen[q] <= Cardinality(Made(c)')
        BY <2>3, <2>4, <2>5, <4>1, <4>2
      <4>4. Made(from[q])' = Made(c)'
        BY <2>1, <4>2
      <4> QED
        BY <4>1, <4>3, <4>4
    <3> QED
      BY <3>1, <3>2
  <2>8. \A q \in Requests : state'[q] = "refused" => q # r /\ state[q] = "refused" /\ seen'[q] = seen[q]
    BY <1>0, <2>1 DEF TypeOK
  <2> QED
    BY <1>0, <2>1, <2>6, <2>7, <2>8 DEF MInv, Made, OverLimit
<1>2. ASSUME NEW r \in Requests, Serve(r) \/ Refuse(r) \/ PassUncounted(r)
      PROVE  MInv'
  <2>1. from' = from /\ seen' = seen /\ counters' = counters
    BY <1>2 DEF Serve, Refuse, PassUncounted
  <2>2. \A q \in Requests : state[q] # "new" => state'[q] # "new"
    BY <1>0, <1>2 DEF Serve, Refuse, PassUncounted, TypeOK
  <2>3. \A q \in Requests : state'[q] = "refused" => OverLimit(seen[q])
    BY <1>0, <1>2 DEF Serve, Refuse, PassUncounted, TypeOK, MInv
  <2>4. \A a \in Addresses : counters'[a] <= counters[a]
    BY <1>0, <2>1 DEF TypeOK
  <2> QED
    BY <1>0, <2>1, <2>2, <2>3, <2>4, MadeWithoutCounting
<1>3. CASE Restart
  <2>1. from' = from /\ seen' = seen /\ \A a \in Addresses : counters'[a] = 0
    BY <1>3 DEF Restart, NoCounts
  <2>2. \A q \in Requests : state'[q] = IF state[q] = "counted" THEN "cut" ELSE state[q]
    BY <1>3 DEF Restart
  <2>3. \A a \in Addresses : counters'[a] <= counters[a]
    BY <1>0, <2>1 DEF TypeOK
  <2> QED
    BY <1>0, <2>1, <2>2, <2>3, MadeWithoutCounting DEF MInv
<1>4. CASE Tick \/ UNCHANGED vars
  <2>1. from' = from /\ seen' = seen /\ counters' = counters /\ state' = state
    BY <1>4 DEF Tick, vars, request
  <2>2. \A a \in Addresses : counters'[a] <= counters[a]
    BY <1>0, <2>1 DEF TypeOK
  <2> QED
    BY <1>0, <2>1, <2>2, MadeWithoutCounting DEF MInv
<1> QED
  BY <1>1, <1>2, <1>3, <1>4 DEF Next

(* An address is refused only after more than Limit requests of its own.   *)
THEOREM OnlyOwnRequestsCount == Spec => []RefusedOnlyForOwnRequests
<1>1. MInv => RefusedOnlyForOwnRequests
  <2> SUFFICES ASSUME MInv, NEW r \in Requests, state[r] = "refused"
               PROVE  Cardinality(Made(from[r])) > Limit
    BY DEF RefusedOnlyForOwnRequests, Made
  <2>1. seen[r] > Limit /\ seen[r] <= Cardinality(Made(from[r])) /\ seen[r] \in Nat
    BY DEF MInv, OverLimit, TypeOK
  <2> QED
    BY <2>1, MadeIsFinite, LimitAssumption
<1> QED
  BY <1>1, MadeInitially, MadeKept, PTL DEF Spec

-----------------------------------------------------------------------------
(* How much is served                                                      *)

LEMMA AllowedType == Allowed \in Nat /\ \A n \in Nat \ {0} : ~OverLimit(n) <=> n <= Allowed
  BY LimitAssumption DEF Allowed, OverLimit

LEMMA WorthOfWindows ==
  ASSUME NEW k \in Nat
  PROVE  /\ Worth(k) \in Nat
         /\ Worth(1 + k) = Worth(k) + Allowed
         /\ Worth(2 + k) = Worth(k) + Allowed + Allowed
<1>1. Allowed \in Nat
  BY AllowedType
<1>2. k * Allowed \in Nat
  BY <1>1
<1>3. (1 + k) * Allowed = k * Allowed + Allowed
  BY <1>1
<1>4. (2 + k) * Allowed = k * Allowed + Allowed + Allowed
  BY <1>1
<1> QED
  BY <1>2, <1>3, <1>4 DEF Worth

LEMMA GoodIsFinite ==
  ASSUME NEW a, NEW t
  PROVE  IsFiniteSet(Good(a, t)) /\ Cardinality(Good(a, t)) \in Nat
<1>1. Good(a, t) \in SUBSET Requests
  BY DEF Good
<1> QED
  BY <1>1, FS_Subset, FS_CardinalityType, LimitAssumption

LEMMA GoodIsFiniteNext ==
  ASSUME NEW a, NEW t
  PROVE  IsFiniteSet(Good(a, t)') /\ Cardinality(Good(a, t)') \in Nat
<1>1. Good(a, t)' \in SUBSET Requests
  BY DEF Good
<1> QED
  BY <1>1, FS_Subset, FS_CardinalityType, LimitAssumption

(* Only counting adds to what is served.                                   *)
LEMMA GoodShrinks ==
  ASSUME UNCHANGED <<from, at, seen>>,
         \A r \in Requests : state'[r] \in {"counted", "served"} =>
                             state[r] \in {"counted", "served"},
         NEW a, NEW t
  PROVE  Cardinality(Good(a, t)') <= Cardinality(Good(a, t))
<1>1. Good(a, t)' \in SUBSET Good(a, t)
  BY DEF Good, OverLimit
<1> QED
  BY <1>1, GoodIsFinite, FS_Subset

(* Counting adds at most its request, to its own address, if it is within  *)
(* the limit and the time falls into the stretch.                          *)
LEMMA GoodByCounting ==
  ASSUME TypeOK, NEW r \in Requests, Count(r), NEW a \in Addresses, NEW t \in 0..MaxTime
  PROVE  LET n == Cardinality(Good(a, t))
             m == Cardinality(Good(a, t)')
         IN  \/ m <= n
             \/ /\ m = n + 1
                /\ a = from[r] /\ t <= clock /\ clock <= t + Window
                /\ ~OverLimit(counters'[a])
<1>1. /\ from' = from
      /\ \A q \in Requests : q # r => /\ state'[q] = state[q] /\ at'[q] = at[q]
                                      /\ seen'[q] = seen[q]
      /\ state[r] = "new" /\ seen'[r] = counters'[from[r]] /\ at'[r] = clock
  BY CountEffect DEF TypeOK
<1>2. CASE r \in Good(a, t)'
  <2>1. Good(a, t)' = Good(a, t) \cup {r}
    BY <1>1, <1>2 DEF Good, OverLimit
  <2>2. r \notin Good(a, t)
    BY <1>1 DEF Good
  <2>3. Cardinality(Good(a, t)') = Cardinality(Good(a, t)) + 1
    BY <2>1, <2>2, GoodIsFinite, FS_AddElement
  <2>4. a = from[r] /\ clock \in t..(t + Window) /\ ~OverLimit(counters'[a])
    BY <1>1, <1>2 DEF Good, OverLimit
  <2> QED
    BY <2>3, <2>4, LimitAssumption DEF TypeOK
<1>3. CASE r \notin Good(a, t)'
  <2>1. Good(a, t)' \in SUBSET Good(a, t)
    BY <1>1, <1>3 DEF Good, OverLimit
  <2>2. Cardinality(Good(a, t)') <= Cardinality(Good(a, t))
    BY <2>1, GoodIsFinite, FS_Subset
  <2> QED
    BY <2>2
<1> QED
  BY <1>2, <1>3

LEMMA WindowsInitially == Init => WInv
<1> SUFFICES ASSUME Init PROVE WInv
  OBVIOUS
<1>1. Dated
  BY LimitAssumption DEF Init, Dated
<1>2. ASSUME NEW a \in Addresses, NEW t \in 0..MaxTime
      PROVE  Charged(a, t, Cardinality(Good(a, t)))
  <2>1. Good(a, t) = {}
    BY DEF Init, Good
  <2>2. Cardinality(Good(a, t)) = 0
    BY <2>1, FS_EmptySet
  <2>3. Used(a) \in Nat
    BY AllowedType, TypeInitially DEF Used, TypeOK
  <2>4. restarts \in Nat
    BY DEF Init
  <2> QED
    BY <2>2, <2>3, <2>4, AllowedType, WorthOfWindows DEF Charged
<1> QED
  BY <1>1, <1>2, TypeInitially DEF WInv

(* A step that does not touch the counters charges nothing.                *)
LEMMA ChargedWithoutCounting ==
  ASSUME WInv, TypeOK', UNCHANGED <<lastReset, counters, restarts, from, at, seen>>,
         \A r \in Requests : state'[r] \in {"counted", "served"} =>
                             state[r] \in {"counted", "served"},
         NEW a \in Addresses, NEW t \in 0..MaxTime
  PROVE  Charged(a, t, Cardinality(Good(a, t)))'
<1>1. Cardinality(Good(a, t)') <= Cardinality(Good(a, t))
  BY GoodShrinks
<1>2. Cardinality(Good(a, t)') \in Nat /\ Cardinality(Good(a, t)) \in Nat
  BY GoodIsFinite, GoodIsFiniteNext
<1>3. restarts \in Nat /\ Used(a) \in Nat /\ Used(a)' = Used(a)
  BY AllowedType DEF WInv, TypeOK, Used, Allowed
<1>4. /\ Worth(restarts)' = Worth(restarts) /\ Worth(1 + restarts)' = Worth(1 + restarts)
      /\ Worth(2 + restarts)' = Worth(2 + restarts)
  BY DEF Worth, Allowed
<1>5. Charged(a, t, Cardinality(Good(a, t)))
  BY DEF WInv
<1> QED
  BY <1>1, <1>2, <1>3, <1>4, <1>5, WorthOfWindows, AllowedType DEF Charged

LEMMA ChargedByCounting ==
  ASSUME WInv, TypeOK', NEW r \in Requests, Count(r),
         NEW a \in Addresses, NEW t \in 0..MaxTime
  PROVE  Charged(a, t, Cardinality(Good(a, t)))'
<1> DEFINE n == Cardinality(Good(a, t))
           m == Cardinality(Good(a, t)')
           W == Worth(restarts)
<1>1. n \in Nat /\ m \in Nat
  BY GoodIsFinite, GoodIsFiniteNext
<1>2. restarts \in Nat /\ restarts' = restarts /\ clock \in Nat /\ lastReset \in Nat
      /\ lastReset <= clock /\ t \in Nat /\ Window \in Nat
  BY CountEffect, LimitAssumption DEF WInv, TypeOK, Dated
<1>3. W \in Nat /\ Worth(1 + restarts) = W + Allowed /\ Worth(2 + restarts) = W + Allowed + Allowed
  BY <1>2, WorthOfWindows
<1>4. /\ n <= W + Allowed + Allowed
      /\ lastReset <= t + Window => n <= W + Allowed + Used(a)
      /\ lastReset <= t => n <= W + Used(a)
  BY <1>3 DEF WInv, Charged
<1>5. \/ m <= n
      \/ /\ m = n + 1 /\ a = from[r] /\ t <= clock /\ clock <= t + Window
         /\ ~OverLimit(counters'[a])
  BY GoodByCounting DEF WInv
<1>6. counters[a] \in Nat /\ counters'[a] \in Nat /\ Allowed \in Nat /\ Allowed' = Allowed
  BY AllowedType DEF WInv, TypeOK, Allowed
<1>7. Used(a) \in Nat /\ Used(a)' \in Nat /\ Used(a) <= Allowed /\ Used(a)' <= Allowed
  BY <1>6 DEF Used
<1>8. /\ m <= W + Allowed + Allowed
      /\ lastReset' <= t + Window => m <= W + Allowed + Used(a)'
      /\ lastReset' <= t => m <= W + Used(a)'
  <2>1. CASE clock - lastReset <= Window
    <3>1. /\ lastReset' = lastReset
          /\ counters'[a] = IF a = from[r] THEN counters[a] + 1 ELSE counters[a]
      BY <1>2, <2>1, CountEffect DEF WInv, TypeOK
    <3>2. Used(a)' >= Used(a)
      BY <1>6, <3>1 DEF Used
    <3>3. m > n => Used(a)' = Used(a) + 1
      BY <1>1, <1>5, <1>6, <3>1, AllowedType DEF Used
    <3> HIDE DEF n, m, W
    <3> QED
      BY <1>1, <1>2, <1>3, <1>4, <1>5, <1>6, <1>7, <3>1, <3>2, <3>3
  <2>2. CASE clock - lastReset > Window
    <3>1. /\ lastReset' = clock
          /\ counters'[a] = IF a = from[r] THEN 1 ELSE 0
      BY <1>2, <2>2, CountEffect DEF WInv, TypeOK
    <3>2. m > n => Used(a)' = 1
      BY <1>1, <1>5, <1>6, <3>1, AllowedType DEF Used
    <3>3. clock <= t => n = 0
      <4>1. ASSUME clock <= t PROVE Good(a, t) = {}
        <5>1. \A q \in Requests : state[q] \in {"counted", "served"} => at[q] <= lastReset + Window
          BY DEF WInv, Dated
        <5>2. \A q \in Requests : at[q] \in Nat
          BY DEF WInv, TypeOK
        <5> QED
          BY <1>2, <2>2, <4>1, <5>1, <5>2 DEF Good
      <4> QED
        BY <4>1, FS_EmptySet
    <3>4. clock <= t + Window => lastReset <= t
      BY <1>2, <2>2
    <3> HIDE DEF n, m, W
    <3> QED
      BY <1>1, <1>2, <1>3, <1>4, <1>5, <1>6, <1>7, <3>1, <3>2, <3>3, <3>4
  <2> QED
    BY <1>2, <2>1, <2>2
<1>9. /\ Worth(restarts)' = Worth(restarts) /\ Worth(1 + restarts)' = Worth(1 + restarts)
      /\ Worth(2 + restarts)' = Worth(2 + restarts)
  BY <1>2 DEF Worth, Allowed
<1> QED
  BY <1>3, <1>8, <1>9 DEF Charged

(* A restart forgets the counts and pays with one limit more.              *)
LEMMA ChargedByRestart ==
  ASSUME WInv, Restart, NEW a \in Addresses, NEW t \in 0..MaxTime
  PROVE  Charged(a, t, Cardinality(Good(a, t)))'
<1> DEFINE n == Cardinality(Good(a, t))
           m == Cardinality(Good(a, t)')
           W == Worth(restarts)
<1>1. n \in Nat /\ m \in Nat
  BY GoodIsFinite, GoodIsFiniteNext
<1>2. /\ UNCHANGED <<from, at, seen>> /\ restarts' = restarts + 1 /\ lastReset' = clock
      /\ counters'[a] = 0
      /\ \A r \in Requests : state'[r] = IF state[r] = "counted" THEN "cut" ELSE state[r]
  BY DEF Restart, NoCounts
<1>3. m <= n
  BY <1>2, GoodShrinks
<1>4. restarts \in Nat /\ lastReset <= clock /\ t \in Nat /\ Window \in Nat
      /\ lastReset \in Nat /\ clock \in Nat
  BY LimitAssumption DEF WInv, TypeOK, Dated
<1>5. /\ W \in Nat /\ Worth(1 + restarts) = W + Allowed
      /\ Worth(2 + restarts) = W + Allowed + Allowed
      /\ Worth(restarts + 1) = W + Allowed
      /\ Worth(1 + (restarts + 1)) = W + Allowed + Allowed
      /\ Worth(2 + (restarts + 1)) = W + Allowed + Allowed + Allowed
  <2>1. restarts + 1 \in Nat /\ restarts + 1 = 1 + restarts
    BY <1>4
  <2> QED
    BY <1>4, <2>1, WorthOfWindows
<1>6. Allowed \in Nat /\ Allowed' = Allowed /\ Used(a) \in Nat /\ Used(a) <= Allowed
  BY AllowedType DEF WInv, TypeOK, Allowed, Used
<1>7. Used(a)' = 0
  BY <1>2, <1>6 DEF Used
<1>8. /\ n <= W + Allowed + Allowed
      /\ lastReset <= t + Window => n <= W + Allowed + Used(a)
      /\ lastReset <= t => n <= W + Used(a)
  BY <1>5 DEF WInv, Charged
<1>9. /\ m <= W + Allowed + Allowed + Allowed
      /\ clock <= t + Window => m <= W + Allowed + Allowed
      /\ clock <= t => m <= W + Allowed
  <2> HIDE DEF n, m, W
  <2> QED
    BY <1>1, <1>3, <1>4, <1>5, <1>6, <1>8
<1>10. /\ Worth(restarts)' = W + Allowed
       /\ Worth(1 + restarts)' = W + Allowed + Allowed
       /\ Worth(2 + restarts)' = W + Allowed + Allowed + Allowed
  BY <1>2, <1>5 DEF Worth, Allowed
<1>11. W + Allowed + 0 = W + Allowed /\ W + Allowed + Allowed + 0 = W + Allowed + Allowed
  BY <1>5, <1>6
<1> QED
  BY <1>2, <1>7, <1>9, <1>10, <1>11 DEF Charged

LEMMA DatedKept == WInv /\ TypeOK' /\ [Next]_vars => Dated'
<1> SUFFICES ASSUME WInv, TypeOK', [Next]_vars PROVE Dated'
  OBVIOUS
<1> USE LimitAssumption
<1>1. ASSUME NEW r \in Requests, Count(r) PROVE Dated'
  <2>0. /\ clock \in Nat /\ lastReset \in Nat /\ lastReset <= clock /\ Window \in Nat
        /\ \A q \in Requests : at[q] \in Nat
    BY DEF WInv, TypeOK, Dated
  <2>1. /\ clock' = clock /\ lastReset <= lastReset' /\ lastReset' <= clock
        /\ clock <= lastReset' + Window /\ lastReset' \in Nat
    <3>1. /\ clock' = clock
          /\ \/ clock - lastReset > Window /\ lastReset' = clock
             \/ clock - lastReset <= Window /\ lastReset' = lastReset
      BY <1>1, CountEffect DEF WInv
    <3> QED
      BY <2>0, <3>1
  <2>2. /\ state'[r] = "counted" /\ at'[r] = clock
        /\ \A q \in Requests : q # r => /\ state'[q] = state[q] /\ at'[q] = at[q]
                                        /\ seen'[q] = seen[q]
    BY <1>1, CountEffect DEF WInv, TypeOK
  <2>3. ASSUME NEW q \in Requests
        PROVE  /\ state'[q] \in {"counted", "served"} =>
                    at'[q] <= clock /\ at'[q] <= lastReset' + Window
               /\ state'[q] = "served" => ~OverLimit(seen'[q])
    <3>1. CASE q = r
      BY <2>0, <2>1, <2>2, <3>1
    <3>2. CASE q # r
      <4>1. /\ state[q] \in {"counted", "served"} => at[q] <= clock /\ at[q] <= lastReset + Window
            /\ state[q] = "served" => ~OverLimit(seen[q])
        BY DEF WInv, Dated
      <4> QED
        BY <2>0, <2>1, <2>2, <3>2, <4>1
    <3> QED
      BY <3>1, <3>2
  <2> QED
    BY <2>1, <2>3 DEF Dated, OverLimit
<1>2. ASSUME NEW r \in Requests, Serve(r) \/ Refuse(r) \/ PassUncounted(r) PROVE Dated'
  BY <1>2 DEF Serve, Refuse, PassUncounted, WInv, TypeOK, Dated, OverLimit
<1>3. CASE Restart
  <2>1. /\ UNCHANGED <<clock, at, seen>> /\ lastReset' = clock
        /\ \A r \in Requests : state'[r] = IF state[r] = "counted" THEN "cut" ELSE state[r]
    BY <1>3 DEF Restart
  <2>2. clock \in Nat /\ lastReset \in Nat /\ \A q \in Requests : at[q] \in Nat
    BY DEF WInv, TypeOK
  <2> QED
    BY <2>1, <2>2 DEF WInv, Dated, OverLimit
<1>4. CASE Tick
  BY <1>4 DEF Tick, request, WInv, TypeOK, Dated, OverLimit
<1>5. CASE UNCHANGED vars
  BY <1>5 DEF vars, request, WInv, TypeOK, Dated, OverLimit
<1> QED
  BY <1>1, <1>2, <1>3, <1>4, <1>5 DEF Next

LEMMA WindowsKept == WInv /\ [Next]_vars => WInv'
<1> SUFFICES ASSUME WInv, [Next]_vars PROVE WInv'
  OBVIOUS
<1>0. TypeOK' /\ Dated'
  BY TypeKept, DatedKept DEF WInv
<1>1. ASSUME NEW a \in Addresses, NEW t \in 0..MaxTime
      PROVE  Charged(a, t, Cardinality(Good(a, t)))'
  <2>1. CASE \E r \in Requests : Count(r)
    BY <1>0, <2>1, ChargedByCounting
  <2>2. CASE Restart
    BY <2>2, ChargedByRestart
  <2>3. CASE \/ \E r \in Requests : Serve(r) \/ Refuse(r) \/ PassUncounted(r)
             \/ Tick \/ UNCHANGED vars
    <3>1. UNCHANGED <<lastReset, counters, restarts, from, at, seen>>
      BY <2>3 DEF Serve, Refuse, PassUncounted, Tick, vars, request
    <3>2. \A r \in Requests : state'[r] \in {"counted", "served"} =>
                              state[r] \in {"counted", "served"}
      BY <2>3 DEF Serve, Refuse, PassUncounted, Tick, vars, request, WInv, TypeOK
    <3> QED
      BY <1>0, <3>1, <3>2, ChargedWithoutCounting
  <2> QED
    BY <2>1, <2>2, <2>3 DEF Next
<1> QED
  BY <1>0, <1>1 DEF WInv

LEMMA WindowsHold == Spec => []WInv
  BY WindowsInitially, WindowsKept, PTL DEF Spec

LEMMA ServedIsGood ==
  ASSUME WInv, NEW a \in Addresses, NEW t \in 0..MaxTime, NEW u \in Int, u <= t + Window
  PROVE  Cardinality(ServedIn(a, t, u)) <= Cardinality(Good(a, t))
<1>1. ASSUME NEW r \in ServedIn(a, t, u) PROVE r \in Good(a, t)
  <2>1. r \in Requests /\ state[r] = "served" /\ from[r] = a /\ at[r] \in t..u
    BY <1>1 DEF ServedIn
  <2>2. ~OverLimit(seen[r])
    BY <2>1 DEF WInv, Dated
  <2>3. at[r] \in t..(t + Window)
    BY <2>1, LimitAssumption
  <2> QED
    BY <2>1, <2>2, <2>3 DEF Good
<1> QED
  BY <1>1, GoodIsFinite, FS_Subset

(* In no stretch as long as the window is more than twice the limit served *)
(* to an address, and one limit more for each restart.                     *)
THEOREM TwiceTheLimitAtMost == Spec => []AtMostTwiceInAnyWindow
<1>1. WInv => AtMostTwiceInAnyWindow
  <2> SUFFICES ASSUME WInv, NEW a \in Addresses, NEW t \in 0..MaxTime
               PROVE  Cardinality(ServedIn(a, t, t + Window)) <= (2 + restarts) * Allowed
    BY DEF AtMostTwiceInAnyWindow
  <2>1. t + Window \in Int /\ t + Window <= t + Window
    BY LimitAssumption
  <2>2. Cardinality(ServedIn(a, t, t + Window)) <= Cardinality(Good(a, t))
    BY <2>1, ServedIsGood
  <2>3. Cardinality(Good(a, t)) <= Worth(2 + restarts)
    BY DEF WInv, Charged
  <2>4. Cardinality(ServedIn(a, t, t + Window)) \in Nat /\ Cardinality(Good(a, t)) \in Nat
    <3>1. ServedIn(a, t, t + Window) \in SUBSET Requests
      BY DEF ServedIn
    <3> QED
      BY <3>1, FS_Subset, FS_CardinalityType, LimitAssumption, GoodIsFinite
  <2>5. Worth(2 + restarts) \in Nat
    BY WorthOfWindows, AllowedType DEF WInv, TypeOK
  <2> QED
    BY <2>2, <2>3, <2>4, <2>5 DEF Worth
<1> QED
  BY <1>1, WindowsHold, PTL

(* Between two resets an address is served its limit at most, as long as   *)
(* the server does not restart.                                            *)
THEOREM OneLimitPerWindow == Spec => []AtMostLimitSinceReset
<1>1. WInv => AtMostLimitSinceReset
  <2> SUFFICES ASSUME WInv, restarts = 0, NEW a \in Addresses
               PROVE  Cardinality(ServedIn(a, lastReset, clock)) <= Allowed
    BY DEF AtMostLimitSinceReset
  <2>1. lastReset \in 0..MaxTime /\ clock \in Nat /\ Window \in Nat
    BY LimitAssumption DEF WInv, TypeOK
  <2>2. ServedIn(a, lastReset, clock) \in SUBSET Good(a, lastReset)
    <3>1. ASSUME NEW r \in ServedIn(a, lastReset, clock) PROVE r \in Good(a, lastReset)
      <4>1. r \in Requests /\ state[r] = "served" /\ from[r] = a /\ at[r] \in lastReset..clock
        BY <3>1 DEF ServedIn
      <4>2. ~OverLimit(seen[r]) /\ at[r] <= lastReset + Window
        BY <4>1 DEF WInv, Dated
      <4> QED
        BY <2>1, <4>1, <4>2 DEF Good
    <3> QED
      BY <3>1
  <2>3. /\ Cardinality(ServedIn(a, lastReset, clock)) <= Cardinality(Good(a, lastReset))
        /\ Cardinality(ServedIn(a, lastReset, clock)) \in Nat
        /\ Cardinality(Good(a, lastReset)) \in Nat
    BY <2>2, GoodIsFinite, FS_Subset, FS_CardinalityType
  <2>4. Cardinality(Good(a, lastReset)) <= Worth(restarts) + Used(a)
    BY <2>1 DEF WInv, Charged
  <2>5. Worth(restarts) = 0 /\ Used(a) <= Allowed /\ Used(a) \in Nat /\ Allowed \in Nat
    BY AllowedType DEF Worth, Used, WInv, TypeOK
  <2> QED
    BY <2>3, <2>4, <2>5
<1> QED
  BY <1>1, WindowsHold, PTL

=============================================================================
