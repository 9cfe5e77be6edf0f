SPECIFICATION Spec
SYMMETRY Symmetry
CONSTANTS
  Channels = {h1, h2}
  Pins = {p1}
  NoPin = NoPin
  Served = {"make", "assert", "register", "authenticate", "set", "token"}
  Tries = 1
  MaxNumbers = 2
  MaxBoots = 1
INVARIANT
  FlagsEarned
CHECK_DEADLOCK FALSE
