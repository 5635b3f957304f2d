CONSTANTS
  r1 = r1
  r2 = r2
  Request = {r1, r2}
  MaxTokens = 3
  MaxSessions = 2
SPECIFICATION Spec
INVARIANT
  OwnSession
CHECK_DEADLOCK FALSE
