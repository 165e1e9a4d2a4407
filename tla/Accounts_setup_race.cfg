\* Does first-run setup make one account?
SPECIFICATION Spec
SYMMETRY Symmetry
CHECK_DEADLOCK FALSE
CONSTANTS
  Browsers = {b1, b2}
  Emails = {e1, e2}
  NoUser = NoUser
  MaxSessions = 2
  MaxFaults = 0
INVARIANTS
  OneAdmin
