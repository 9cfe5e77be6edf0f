SPECIFICATION FairPathSpec
CONSTANTS
  ReportSize = 4
  InitData = 2
  ContData = 3
  SeqLimit = 3
  MaxPings = 2
INVARIANTS
  EnumerationServed
  PongsIntact
PROPERTY PingsAnswered
CHECK_DEADLOCK FALSE
