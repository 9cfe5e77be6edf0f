SPECIFICATION FairSpec
CONSTANTS
  Clients = {c1}
  MaxSessions = 2
  MaxRequests = 2
PROPERTY FreshAttachAnswers
CHECK_DEADLOCK FALSE
