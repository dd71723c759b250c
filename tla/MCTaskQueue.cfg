SPECIFICATION FairSpec
CONSTANTS
  s1 = s1
  s2 = s2
  e1 = e1
  e2 = e2
  p = p
  k1 = k1
  Jobs <- MCJobs
  Keys <- MCKeys
  Workers = {w1, w2}
  Turns = {t1}
  Enricher = Enricher
  MaxSize = 2
  NoKey = NoKey
  NoJob = NoJob
  NoThread = NoThread
  KeyOf <- MCKeyOf
  LaneOf <- MCLaneOf
  ChildOf <- MCChildOf
INVARIANTS
  KeyExclusive
  JoinCounts
  StopDrains
PROPERTIES
  ImplementsSerialExecutor
  PersistenceCompletes
  EnrichmentCompletes
  StopReturns
