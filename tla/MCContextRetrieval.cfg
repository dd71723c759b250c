SPECIFICATION FairSpec
CONSTANTS
  Queries = 3
  CheckWaits = TRUE
  DelayedFillers = TRUE
CHECK_DEADLOCK FALSE
INVARIANTS
  ReleaseOrder
  WebCallHasTask
PROPERTIES
  FillerBeforeAnswer
  AlwaysAnswered
