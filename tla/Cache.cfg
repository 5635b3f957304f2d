CONSTANTS
  Thread = {t1, t2}
  Key = {k1, k2, k3}
  MaxEntries = 2
  MaxMade = 4
SPECIFICATION Spec
INVARIANTS
  TypeOK
  SingleFlight
  OnDeleteOnce
  WithinLimit
PROPERTIES
  WaitersWake
CHECK_DEADLOCK FALSE
