SPECIFICATION FairSpec
CONSTANTS
  MaxRequests = 3
  MaxReports = 3
INVARIANTS
  UnlinkedNotAnswered
  NoMissedWakeup
PROPERTIES
  EveryRequestEnds
  ImplementsPipe
