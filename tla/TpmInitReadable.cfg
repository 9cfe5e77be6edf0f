SPECIFICATION Spec
INVARIANT FailureLeavesVaultReadable
CONSTANTS
  MaxCredentials = 1
  MaxInits = 2
  MaxFaults = 1
CHECK_DEADLOCK FALSE
