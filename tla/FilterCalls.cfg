SPECIFICATION Spec
CONSTANTS
  Day = 3
  Shortest = 2
  Schedules <- MCSchedules
  Durations = {1, 2, 3}
  Callers = {u1, u2}
  Ask = Ask
  None = None
  MaxWire = 3
  MaxCalls = 2
  MaxEvents = 1
  MaxFaults = 1
SYMMETRY Symmetry
INVARIANTS
  TypeOK
  RecordIsTrue
  InformedCallsAddUp
CHECK_DEADLOCK FALSE
