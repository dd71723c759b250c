SPECIFICATION MemorySpec
CONSTANTS
  a = a
  b = b
  Convs = {a, b}
  HttpConvs = {b}
  MaxSaves <- MCMaxSaves
  MaxMessages = 4
  Roles = {"You", "Aura"}
  Extractions <- MCExtractions
  SingleKeys <- MCSingleKeys
  Lower <- MCLower
  ChunkSize = 2
  Threshold = 2
  Recent = 3
  NoMessage = NoMessage
CHECK_DEADLOCK FALSE
INVARIANTS
  SingleValued
