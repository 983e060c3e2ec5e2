SPECIFICATION Spec
CONSTANTS
  NumTasks = 2
  BasePriority <- TwoTasks
  TickMod = 16
  Mutexes = {}
  MUTEX_MAX_WAITERS = 1
  NoMutex = NoMutex
  MaxHeld = 0
  SleepTicks = {3}
  CanOverflow = {}
PROPERTIES
  SleepsUntilWakeTick
