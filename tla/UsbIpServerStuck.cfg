SPECIFICATION FairServerSpec
PROPERTY DropFreesSocket
CONSTANTS
  Conns = {c1, c2}
  MaxReads = 1
  MaxProduced = 1
CHECK_DEADLOCK FALSE
