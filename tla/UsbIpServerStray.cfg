SPECIFICATION ServerSpec
INVARIANT PanicMeansDropped
CONSTANTS
  Conns = {c1, c2}
  MaxReads = 2
  MaxProduced = 2
CHECK_DEADLOCK FALSE
