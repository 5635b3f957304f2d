CONSTANTS
  Thread = {t1, t2}
  direct = direct
  first = first
  second = second
  Key = {direct, first, second}
  MaxEntries = 1
  MaxMade = 2
  Host = {h}
  Via <- MCVia
  MaxTunnels = 2
  Workspace = {first, second}
SPECIFICATION TunnelSpec
INVARIANTS
  PoolsAccounted
PROPERTIES
  ImplementsPoolLife
  ImplementsTunnelLife
  CallersEnd
CHECK_DEADLOCK FALSE
