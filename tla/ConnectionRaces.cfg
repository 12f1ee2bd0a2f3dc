SPECIFICATION Spec
CONSTANTS
  Conns = {1, 2, 3}
  Callers = {u1, u2}
  Closers = {u1, u2}
  None = None
  FloatExponent = 1
  MaxConnects = 2
  MaxDisconnects = 1
  MaxLosses = 1
  MaxFailures = 1
  MaxFaults = 1
SYMMETRY Symmetry
INVARIANTS
  TypeOK
  TrackedWaitsForItself
  ListenerAttached
  MonitorCoverage
PROPERTY StaysDisconnected
CHECK_DEADLOCK FALSE
