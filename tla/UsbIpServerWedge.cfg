SPECIFICATION FairServerSpec
PROPERTY ReattachBringsItBack
CONSTANTS
  Conns = {c1, c2}
  MaxReads = 2
  MaxProduced = 1
CHECK_DEADLOCK FALSE
