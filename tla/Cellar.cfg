CONSTANTS
  x = x
  y = y
  Db = {x, y}
  Request = {r1, r2}
  Served = {x}
  MaxWrites = 1
  MaxStarts = 1
SPECIFICATION Spec
INVARIANTS
  NoAckedLost
  RestoreHasRoom
  GoneStaysGone
PROPERTIES
  ImplementsStore
  WritesReachBucket
CHECK_DEADLOCK FALSE
