SPECIFICATION FairSpec
PROPERTY BrokenBusKeepsAuthenticator
CONSTANTS
  MaxSuspends = 1
  MaxDrops = 0
  MaxFailures = 0
  MaxPanics = 0
  MaxBusLosses = 1
CHECK_DEADLOCK FALSE
