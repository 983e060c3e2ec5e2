SPECIFICATION BootFairSpec
CONSTANTS
  NumTasks = 3
  BasePriority <- Increasing
  TickMod = 4
  SleepTicks = {1, 2}
PROPERTIES
  UrgentAlwaysStarts
