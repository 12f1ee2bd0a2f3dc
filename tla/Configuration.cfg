SPECIFICATION PromptSpec
CONSTANTS
  None = None
  Broken = Broken
  Statuses = {good, clock, heat, wifi}
  BadClock = {clock}
  BadHeat = {heat}
  BadWiFi = {wifi}
  Requests <- TwoRequests
  Requesters = {r1, r2}
  RecursionLimit = 1
  MaxWire = 1
  MaxDrops = 1
  MaxChanges = 1
  MaxCalls = 1
  MaxIgnores = 1
  MaxFaults = 1
INVARIANTS
  TypeOK
  ControlsShowStatus
PROPERTIES
  ImplementsGate
  ConfigurationLoads
CHECK_DEADLOCK FALSE
