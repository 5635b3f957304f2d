CONSTANTS
  Client = {a, b}
  Slot = {s1}
  Object = {x, y}
  Existing = {x}
  Field = {f}
  Denied = {b}
  BatchSize = 1
  MaxEdits = 2
  MaxLosses = 1
SPECIFICATION Spec
INVARIANTS
  PulledExact
  DeniedNeverSpreads
