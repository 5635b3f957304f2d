CONSTANTS
  Statement = {s1, s2, s3}
  Total = 20
  EntryCost = 4
  Step = 2
  MaxTarget = 17
SPECIFICATION Spec
INVARIANTS
  UsedIsHeld
  WithinTotal
PROPERTIES
  LastTenthForStarts
  AllReleased
CHECK_DEADLOCK FALSE
