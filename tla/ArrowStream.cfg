CONSTANTS
  MaxRows = 5
  BatchRows = 3
  MaxCuts = 1
SPECIFICATION StreamSpec
INVARIANTS
  RowsInOrder
  UncutIsWhole
PROPERTIES
  ImplementsFeed
  StreamEnds
CHECK_DEADLOCK FALSE
