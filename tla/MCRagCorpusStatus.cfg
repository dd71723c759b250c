SPECIFICATION CorpusSpec
CONSTANTS
  Files = {f1}
  Requests = {}
  Checks = {c1}
  NoTask = NoTask

CHECK_DEADLOCK FALSE
INVARIANTS
  ReadyStatusFresh
