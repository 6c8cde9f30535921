SPECIFICATION Spec
CONSTANTS
  Task <- MCTask
  End = "end"
  EventLists <- MCEventLists
  Priorities = 3
  TickRange = 8
  OverflowRange = 2
  IdleTask = "idle"
  Programs <- MCPrograms
  MaxPended = 1
  Nothing = Nothing
  Items = {"x", "y"}
  Queues <- MCQueues
  MaxLock = 1
  MaxCount = 2
  Groups = {"g"}
  EventFlags = {"b0", "b1", "b2"}
  MaxRounds = 4
  Streams = {"s"}
  Numbers = 4
  Bits = {0}
  Timers <- MCTimers
  TimerTask = "d"
  TimerQueue = "tq"
  HeapSize = 10
  Things = {"x", "y"}
  Outside = Outside
  Unit = 2
INVARIANTS NobodyStranded PrioritiesPrevail GroupsSound BytesInOrder NoForgottenSleeper TimersOnTime PoolBacked HeapSound MemoryAccounted
PROPERTIES FifoKept
