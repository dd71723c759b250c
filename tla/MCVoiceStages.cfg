SPECIFICATION StageSpec
CONSTANTS
  Contexts = {c1, c2}
  Frames <- MCFrames
  Prerolls = {0, 3, 4}
  MaxSamples = 6
  Restored <- MCRestored
  ScanWindow = 4
  Retrieval = TRUE
  MaxSpoken = 5
  FirstTimeouts = {1, 2, 3}
  TotalTimeouts = {1, 3, 5}
  Horizon = 8
  Sessions = {s1, s2}
  Capacity = 1
  MaxAudio = 4
  MaxBuffer = 2
  Batch = 2
  MaxBreaks = 3
  StartOrders <- MCOrders
  MaxTurns = 2
  MaxInbox = 3
INVARIANTS
  StageTypeOK
  PrerollExact
  OfferHasCause
  DeadlinesKept
  ToolsRestored
  LeasesCounted
  OrphansOfFailedStart
  AudioKept
  NotStranded
PROPERTIES
  StalledRequestEnds
  OwnSpeechReleases
  OnlyOvertakingStrands
  AnsweredTurnReleases
CHECK_DEADLOCK FALSE
