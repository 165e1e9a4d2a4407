\* Two browsers that set up, log in and out; three addresses, three sessions.
SPECIFICATION Spec
SYMMETRY Symmetry
CHECK_DEADLOCK FALSE
CONSTANTS
  Browsers = {b1, b2}
  Emails = {e1, e2, e3}
  NoUser = NoUser
  MaxSessions = 3
  MaxFaults = 1
INVARIANTS
  TypeOK
  ActsForOwner
  SetupRaceIsBounded
PROPERTIES
  EndedStaysEnded
