SPECIFICATION Spec
CONSTANTS
  MaxTurns = 1
  History <- MCHistory
  Summarised <- MCSummarised
  RecentLimit = 2
  MemoryBudget = 3
  MaxMessages = 6
INVARIANTS
  MemoryOnce
CHECK_DEADLOCK FALSE
