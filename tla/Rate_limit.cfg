\* One request per window and address, four requests, one restart that may
\* switch the limiter on or off.
SPECIFICATION Spec
SYMMETRY Symmetry
CHECK_DEADLOCK FALSE
CONSTANTS
  Requests = {r1, r2, r3, r4}
  Addresses = {a1, a2}
  Limit = 1
  Window = 2
  Settings = {TRUE, FALSE}
  MaxTime = 5
  MaxRestarts = 1
INVARIANTS
  TypeOK
  AtMostTwiceInAnyWindow
  AtMostLimitSinceReset
  RefusedOnlyForOwnRequests
