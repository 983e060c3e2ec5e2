SPECIFICATION Spec
CONSTANTS
  NumTasks = 4
  BasePriority <- ThreeEqualOneAbove
  TickMod = 8
  Mutexes = {}
  MUTEX_MAX_WAITERS = 4
  NoMutex = NoMutex
  MaxHeld = 0
  SleepTicks = {2, 3}
  CanOverflow = {0, 1}
INVARIANTS
  NoOversleep
  LoopSelects
  CorruptedTaskStaysCurrent
PROPERTIES
  EarlyWakeOnlyWhenIdle
  TopPriorityProgress
