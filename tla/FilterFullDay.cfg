SPECIFICATION Spec
CONSTANTS
  Day = 3
  Shortest = 2
  Schedules <- MCSchedules
  Durations = {2, 3}
  Callers = {u1}
  Ask = Ask
  None = None
  MaxWire = 2
  MaxCalls = 2
  MaxEvents = 0
  MaxFaults = 0
INVARIANT FullDayStays
