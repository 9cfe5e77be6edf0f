SPECIFICATION Spec
PROPERTY OldestFirst
CONSTANTS
  MaxRequests = 3
  MaxReports = 3
