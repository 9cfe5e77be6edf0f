SPECIFICATION SpecKeys
CONSTANTS
  MaxCredentials = 3
  MaxInits = 3
  MaxFaults = 2
  MaxStarts = 3
  MaxHandles = 2
INVARIANTS
  NothingLost
  BackupIsWhole
  HandlesOpen
  SignerForEveryKey
PROPERTIES
  StartFailsOnlyHalfway
  SecretsStay
CHECK_DEADLOCK FALSE
