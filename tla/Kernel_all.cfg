SPECIFICATION Spec
CONSTANTS
  Task <- MCTask
  End = "end"
  EventLists = {}
  Priorities = 3
  TickRange = 6
  OverflowRange = 2
  IdleTask = "idle"
  Programs <- MCPrograms
  Bits = {0, 1}
  MaxPended = 2
  MaxNesting = 2
  MaxLate = 1
INVARIANTS HighestRuns ListsSound DelaysExact TicksConserved NoLostWakeup
PROPERTIES FlagsDelivered DelaysEnd
