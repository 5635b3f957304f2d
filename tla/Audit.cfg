CONSTANTS
  d1 = d1
  d2 = d2
  Instance = {i1, i2}
  Async = {q1, q2}
  Durable = {d1, d2}
  Poison = {d2}
  BufferSize = 1
  BatchSize = 2
  OutboxBatch = 2
  MaxFaults = 1
  MaxEnds = 1
SPECIFICATION Spec
INVARIANTS
  MovedOnce
  Accounted
  NeverOnClosed
PROPERTIES
  Settles
