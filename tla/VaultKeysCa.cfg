SPECIFICATION SpecKeys
INVARIANT CaRegenerated
CONSTANTS
  MaxCredentials = 1
  MaxInits = 1
  MaxFaults = 0
  MaxStarts = 2
  MaxHandles = 0
CHECK_DEADLOCK FALSE
