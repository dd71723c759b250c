SPECIFICATION TurnSpec
CONSTANTS
  StartOrders <- MCOrders
  MaxTurns = 2
  MaxInbox = 3
INVARIANTS
  CleanupReleases
CHECK_DEADLOCK FALSE
