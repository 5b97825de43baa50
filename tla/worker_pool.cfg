SPECIFICATION FairSpec
CONSTANTS
  Concurrency = 2
  MaxTasks = 4
  Total = 1
  MaxFaults = 2
INVARIANTS NothingForgotten ResolvedIsComputed OneFaultOneRejection
PROPERTIES EverySessionSettles
CHECK_DEADLOCK FALSE
