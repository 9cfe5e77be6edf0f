SPECIFICATION FairSpec
CONSTANTS
  Channels = {h1, h2}
  Pins = {p1}
  NoPin = NoPin
  Served = {"authenticate", "change", "retries"}
  Tries = 2
  MaxNumbers = 3
  MaxBoots = 2
INVARIANT
  TriesAddUp
PROPERTIES
  CommandsEnd
  NumbersRepeatOnlyExcused
CHECK_DEADLOCK FALSE
