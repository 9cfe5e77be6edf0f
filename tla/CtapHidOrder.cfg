SPECIFICATION Spec
INVARIANT ProperRequestAccepted
CONSTANTS
  Clients = {c1}
  MaxRequests = 2
  MaxCancels = 0
  MaxKeepalives = 0
CHECK_DEADLOCK FALSE
