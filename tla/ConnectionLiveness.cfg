SPECIFICATION FairSpec
CONSTANTS
  Conns = {1, 2, 3}
  Callers = {u1, u2}
  Closers = {u1}
  None = None
  FloatExponent = 1024
  MaxConnects = 2
  MaxDisconnects = 1
  MaxLosses = 1
  MaxFailures = 0
  MaxFaults = 0
PROPERTIES
  Recovers
  DisconnectReturns
CHECK_DEADLOCK FALSE
