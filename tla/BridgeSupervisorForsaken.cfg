SPECIFICATION FairSpec
PROPERTY InUseMeansLive
CONSTANTS
  MaxSuspends = 1
  MaxDrops = 0
  MaxFailures = 0
  MaxPanics = 1
  MaxBusLosses = 0
CHECK_DEADLOCK FALSE
