CONSTANTS
  Requests = {r1, r2, r3}
  Keys = {"plain", "gzip"}
  Files = {"file"}
  FileOf <- MCFileOf
  CacheNum = 1
  MaxVersion = 3
  MaxFaults = 1
  Stat <- MCStat
  Big = {3}
SPECIFICATION Spec
CHECK_DEADLOCK FALSE
INVARIANTS
  CacheSound
PROPERTIES
  ReadsFresh
  Answered
