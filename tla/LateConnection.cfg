SPECIFICATION Spec
CONSTANTS
  Conns = {1, 2, 3}
  Callers = {u1}
  Closers = {u1}
  None = None
  FloatExponent = 1024
  MaxConnects = 1
  MaxDisconnects = 1
  MaxLosses = 2
  MaxFailures = 0
  MaxFaults = 0
INVARIANT DisconnectedIsOff
CHECK_DEADLOCK FALSE
