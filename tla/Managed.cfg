CONSTANTS
  x = x
  y = y
  Db = {x, y}
  Creator = {c1, c2}
  Backend = {b1}
  MaxDatabases = 1
  MaxPurges = 1
  MaxFaults = 1
SPECIFICATION Spec
INVARIANTS
  LiveKept
  QuotaHeld
  ForgottenUnlessRaced
PROPERTIES
  UnwantedGoes
CHECK_DEADLOCK FALSE
