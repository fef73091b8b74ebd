SPECIFICATION FairSpec
CONSTANTS
  Keys = {k1, k2}
  Values = {"a", "c"}
  Size <- MCSize
  Capacity = 4
  Base = "LRU"
  ML = FALSE
  TTLs = {"none", "seconds"}
  MaxEvictions = 2
  ChanCap = 1
  ExternalTriggers = FALSE
  Faults = {"wal"}
  Neighbors = FALSE
  Shutdown = FALSE
  NoKey = NoKey
  NoValue = NoValue
  MaxLog = 3
  MaxFreq = 2
  MaxCrashes = 1
PROPERTIES
  WritesTerminate
  ExpiredAreSwept
