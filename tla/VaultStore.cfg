SPECIFICATION Spec
CONSTANTS
  Channels = {ch1, ch2}
  MaxCredentials = 2
  MaxAssertions = 2
  MaxCrashes = 2
  MaxFailures = 1
INVARIANTS
  AckedKept
  BrokenOnlyExcused
PROPERTIES
  ImplementsLedger
CHECK_DEADLOCK FALSE
