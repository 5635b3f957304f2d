CONSTANTS
  Run = {r1, r2}
  None = None
  PageSize = 2
  MaxPages = 2
  MaxRows = 3
SPECIFICATION Spec
INVARIANTS
  Cancellable
  SettledPages
PROPERTY DisplacedEnds
CHECK_DEADLOCK FALSE
