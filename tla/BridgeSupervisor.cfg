SPECIFICATION FairSpec
CONSTANTS
  MaxSuspends = 3
  MaxDrops = 2
  MaxFailures = 2
  MaxPanics = 1
  MaxBusLosses = 1
INVARIANTS
  AtMostOneServed
  CaughtUp
PROPERTIES
  SuspendMeetsPortOnlyExcused
  AttachedInTheEnd
CHECK_DEADLOCK FALSE
