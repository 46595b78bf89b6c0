SPECIFICATION Spec
CONSTANTS
  Items = {x, y}
  MaxMedia = 2
  MaxReplays = 1
  MaxLogins = 2
  MaxRequests = 2
INVARIANT LoginWaitsForReports
CHECK_DEADLOCK FALSE
