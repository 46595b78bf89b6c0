SPECIFICATION ServicesSpec
CONSTANTS
  Requesters = {video, audio, subtitle}
  MaxGeneration = 2
  Items = {x, y}
  MaxMedia = 2
  MaxReplays = 1
  MaxLogins = 1
  MaxRequests = 2
INVARIANTS OneOwner WakeNotLost ReportsAreSerial FinalReportIsKept SupersededNeverOpens MutationsWaitForReports
PROPERTIES ServesEveryRequest BrowserIsFreed DeferredIsDone
CHECK_DEADLOCK FALSE
