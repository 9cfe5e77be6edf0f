SPECIFICATION FairServerSpec
CONSTANTS
  Conns = {c1, c2}
  MaxReads = 2
  MaxProduced = 2
INVARIANTS
  OneImporter
PROPERTIES
  DropEndsHandler
  RequestsOfLivePeersEnd
CHECK_DEADLOCK FALSE
