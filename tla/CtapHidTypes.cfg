SPECIFICATION Spec
CONSTANTS
  Clients = {c1, c2}
  MaxRequests = 3
  MaxCancels = 1
  MaxKeepalives = 2
INVARIANTS
  TypeOK
  ChannelsUnshared
CHECK_DEADLOCK FALSE
