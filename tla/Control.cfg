SPECIFICATION FairSpec
CONSTANTS
  Controls <- SomeControls
  Callers = {u1, u2}
  Unknown = Unknown
  None = None
  MaxReports = 2
  MaxCalls = 3
  MaxTouches = 1
  MaxDrops = 1
INVARIANTS
  TypeOK
  InformedCallArrives
PROPERTY ShowsControl
