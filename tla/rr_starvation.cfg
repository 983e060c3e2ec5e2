SPECIFICATION FairSpec
CONSTANTS
  NumTasks = 3
  BasePriority <- TwoEqualBelowOne
  TickMod = 8
  Mutexes = {}
  MUTEX_MAX_WAITERS = 1
  NoMutex = NoMutex
  MaxHeld = 0
  SleepTicks = {2}
  CanOverflow = {}
PROPERTIES
  EqualPriorityTasksShare
