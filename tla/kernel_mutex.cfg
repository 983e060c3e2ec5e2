SPECIFICATION Spec
CONSTANTS
  NumTasks = 3
  BasePriority <- ThreeDistinct
  TickMod = 4
  Mutexes = {m1, m2}
  MUTEX_MAX_WAITERS = 2
  NoMutex = NoMutex
  MaxHeld = 1
  SleepTicks = {0, 2}
  CanOverflow = {}
INVARIANTS
  TypeOK
  MutualExclusion
  NoStaleWaiter
  NoLostWakeup
  OwnerInheritsPriority
  PriorityRestored
  OnlyCurrentRuns
PROPERTIES
  NoPriorityInversion
  ImplementsLockService
