SPECIFICATION Spec
CONSTANTS
  PerMinute = 2
  Minutes = 4
  Leads <- AllLeads
  Shifts <- AllShifts
  Others = {0, 1}
  Entries = {0, 24, 255}
  None = None
  MaxTime = 8
  MaxDelay = 1
  MaxFaults = 1
  MaxSets = 1
INVARIANTS
  TypeOK
  TellsTimeOfDay
PROPERTY DatesFaults
CHECK_DEADLOCK FALSE
