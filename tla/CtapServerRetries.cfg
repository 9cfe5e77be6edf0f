SPECIFICATION Spec
CONSTANTS
  Channels = {h1}
  Pins = {p1}
  NoPin = NoPin
  Served = {"set", "token", "retries"}
  Tries = 2
  MaxNumbers = 1
  MaxBoots = 0
INVARIANTS
  RetriesAsserted
CHECK_DEADLOCK FALSE
