\* Chunks in any order and at the same time, completion at any time, two
\* requests sent again, one restart.
SPECIFICATION Spec
SYMMETRY Symmetry
CHECK_DEADLOCK FALSE
CONSTANTS
  Workers = {w1, w2, w3}
  Sessions = {u1}
  Blobs = {b1, b2}
  NoSession = NoSession
  NoRow = NoRow
  NoBlob = NoBlob
  Sizes = {1, 2}
  MaxResends = 2
  MaxCrashes = 1
INVARIANTS
  TypeOK
  SharedIsComplete
  SharedHasItsSize
  PartsHaveSession
  FilesAccountedFor
  TypeReadFromFile
PROPERTIES
  KeepsPromise
