SPECIFICATION FairSpec
CONSTANTS
  Clients = {c1, c2}
  MaxSessions = 2
  MaxRequests = 4
INVARIANTS
  OnePlace
PROPERTIES
  OwnAnswerOnly
  WaitingEnds
CHECK_DEADLOCK FALSE
