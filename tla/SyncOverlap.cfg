CONSTANTS
  Client = {a}
  Slot = {s1, s2}
  Object = {x}
  Existing = {x}
  Field = {f}
  Denied = {}
  BatchSize = 2
  MaxEdits = 2
  MaxLosses = 1
SPECIFICATION Spec
PROPERTIES
  ConfirmedWasHandled
  UndoneOnlyIfOvertaken
