SPECIFICATION Spec
CONSTANTS
  a = a
  b = b
  c = c
  k = k
  Package = {a, b, c, k}
  Wanted = k
  NoLock = NoLock
  Checkouts <- MCCheckouts
  Limit = 3
  PathLimit = 4
  MaxPaths = 2
  Repeats = 1
CHECK_DEADLOCK FALSE
INVARIANTS
  TypeOK
  RuntimeIsNeverDevOnly
  
  ShallowestWins
  PathsAreShortest
  NoRootIsPassedOver
PROPERTY
  ScanEnds
