SPECIFICATION Spec
CONSTANTS
  MaxTurns = 3
  History <- MCHistory
  Summarised <- MCSummarised
  RecentLimit = 4
  MemoryBudget = 3
  MaxMessages = 6
INVARIANTS
  TypeOK
  MemorySound
  NoHole
  RequestSound
CHECK_DEADLOCK FALSE
