\* Does a failed completion leave a file behind?
SPECIFICATION Spec
SYMMETRY Symmetry
CHECK_DEADLOCK FALSE
CONSTANTS
  Workers = {w1, w2, w3}
  Sessions = {u1}
  Blobs = {b1}
  NoSession = NoSession
  NoRow = NoRow
  NoBlob = NoBlob
  Sizes = {1, 2}
  MaxResends = 0
  MaxCrashes = 0
INVARIANTS
  FailedMergeLeavesNothing
