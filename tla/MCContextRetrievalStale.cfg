SPECIFICATION Spec
CONSTANTS
  Queries = 2
  CheckWaits = TRUE
  DelayedFillers = FALSE
CHECK_DEADLOCK FALSE
INVARIANTS
  OwnContext
