SPECIFICATION DemoSpec
CONSTANTS
  NumTasks = 5
  BasePriority <- FivePriority
  Role <- FiveRole
  TickMod = 16
  SleepTicks = {2, 3, 4, 5, 8}
  SleepOf <- KernelSleeps
  HighFirstSleep = 2
  Mutexes = {shared_mutex}
  MUTEX_MAX_WAITERS = 4
  NoMutex = NoMutex
  MaxHeld = 1
  CanOverflow = {}
  Readings = {r1, r2}
  NoReading = NoReading
  Cycles = 60
  FaultFrom = 40
PROPERTIES
  FusesOnlyReadings
