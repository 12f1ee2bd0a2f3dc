SPECIFICATION Spec
CONSTANTS
  None = None
  Reports <- SomeReports
  Device <- FullDevice
  Limits <- SomeLimits
  Temperatures <- SomeTemperatures
  Clocks <- SomeClocks
  MaxRequests = 2
  MaxReports = 1
  MaxEvents = 3
  MaxTurns = 1
  MaxDrops = 1
INVARIANTS
  TypeOK
  InformedCallsArrive
  CodesTellApart
PROPERTY OneBitOneControl
CHECK_DEADLOCK FALSE
