CONSTANTS
  r1 = r1
  r2 = r2
  Request = {r1, r2}
  MaxTokens = 3
  MaxSessions = 1
SPECIFICATION Spec
INVARIANTS
  InStep
  SessionKept
PROPERTIES
  RequestsEnd
CHECK_DEADLOCK FALSE
