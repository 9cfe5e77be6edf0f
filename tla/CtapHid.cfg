SPECIFICATION Spec
CONSTANTS
  Clients = {c1, c2}
  MaxRequests = 3
  MaxCancels = 1
  MaxKeepalives = 2
INVARIANTS
  Contiguous
  OneLateKeepalive
  HandedAsSent
  AnswersOwnRequest
  NobodyForgotten
PROPERTY
  ImplementsExchange
SYMMETRY ClientSymmetry
CHECK_DEADLOCK FALSE
