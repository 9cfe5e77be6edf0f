SPECIFICATION Spec
CONSTANTS
  Channels = {h1}
  Pins = {p1}
  NoPin = NoPin
  Served = {"authenticate"}
  Tries = 1
  MaxNumbers = 2
  MaxBoots = 0
INVARIANTS
  PresenceGated
CHECK_DEADLOCK FALSE
