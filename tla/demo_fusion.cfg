SPECIFICATION DemoSpec
CONSTANTS
  NumTasks = 4
  BasePriority <- SensorPriority
  Role <- SensorRole
  TickMod = 4
  SleepTicks = {1, 2, 3}
  SleepOf <- ShortSleeps
  HighFirstSleep = 1
  Mutexes = {shared_mutex}
  MUTEX_MAX_WAITERS = 4
  NoMutex = NoMutex
  MaxHeld = 1
  CanOverflow = {}
  Readings = {r1, r2}
  NoReading = NoReading
  Cycles = 4
  FaultFrom = 2
INVARIANTS
  FusionReadsConsistently
