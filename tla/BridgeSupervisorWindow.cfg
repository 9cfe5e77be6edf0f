SPECIFICATION Spec
PROPERTY NoAttachWhilePending
CONSTANTS
  MaxSuspends = 1
  MaxDrops = 0
  MaxFailures = 0
  MaxPanics = 0
  MaxBusLosses = 0
CHECK_DEADLOCK FALSE
