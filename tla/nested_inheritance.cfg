SPECIFICATION Spec
CONSTANTS
  NumTasks = 3
  BasePriority <- ThreeDistinct
  TickMod = 4
  Mutexes = {m1, m2}
  MUTEX_MAX_WAITERS = 4
  NoMutex = NoMutex
  MaxHeld = 2
  SleepTicks = {1}
  CanOverflow = {}
INVARIANTS
  OwnerInheritsPriority
