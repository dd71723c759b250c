SPECIFICATION ServicesSpec
CONSTANTS
  Files = {f1}
  Requests = {r1, r2}
  Checks = {c1}
  NoTask = NoTask
  Documents = {l1, p1}
  Links = {l1}
  NoEntry = NoEntry
  Callers = {k1, k2, k3}
  Texts = {t1, t2}
  CacheSize = 1
  NoCall = NoCall
  a = a
  b = b
  Convs = {a, b}
  HttpConvs = {b}
  MaxSaves <- MCMaxSaves
  MaxMessages = 4
  Roles = {"You", "Aura"}
  Extractions <- MCExtractions
  SingleKeys <- MCSingleKeys
  Lower <- MCLower
  ChunkSize = 2
  Threshold = 2
  Recent = 3
  NoMessage = NoMessage
  Calls = {i1, i2}
  MaxCallTurns = 2
  MaxTexts = 1
CHECK_DEADLOCK FALSE
INVARIANTS
  ServicesTypeOK
  SearchesSound
  StoreAgrees
  StuckOnlyByFault
  SharedSafely
  FactsCurrent
  ChunksTile
  JobFindsMessage
  OutcomeTold
PROPERTIES
  WaitersResume
  ImplementsCorpus
  FillerInPlace
