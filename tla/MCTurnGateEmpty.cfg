SPECIFICATION TurnFairSpec
CONSTANTS
  StartOrders <- MCInterruptFirst
  MaxTurns = 2
  MaxInbox = 2
CHECK_DEADLOCK FALSE
PROPERTIES
  GateReleased
