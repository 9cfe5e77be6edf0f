SPECIFICATION PathSpec
CONSTANTS
  ReportSize = 4
  InitData = 2
  ContData = 3
  SeqLimit = 3
  MaxPings = 2
INVARIANTS
  PathTypeOK
  ConfiguredAsServed
  InStep
CHECK_DEADLOCK FALSE
