SPECIFICATION Spec
CONSTANTS
  Channels = {h1}
  Pins = {p1}
  NoPin = NoPin
  Served = {"assert", "token"}
  Tries = 2
  MaxNumbers = 1
  MaxBoots = 0
INVARIANTS
  VerificationPerformed
CHECK_DEADLOCK FALSE
