SPECIFICATION FairSpec
CONSTANTS
  Channels = {h1}
  Pins = {p1}
  NoPin = NoPin
  Served = {"register"}
  Tries = 1
  MaxNumbers = 1
  MaxBoots = 0
PROPERTIES
  WedgedCheckEnds
CHECK_DEADLOCK FALSE
