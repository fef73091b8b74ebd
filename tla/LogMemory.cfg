SPECIFICATION Spec
CONSTANTS
  Keys = {k1, k2}
  Values = {"a", "b", "c"}
  Size <- MCSize
  Capacity = 4
  Base = "LRU"
  ML = FALSE
  TTLs = {"none"}
  MaxEvictions = 2
  ChanCap = 1
  ExternalTriggers = FALSE
  Faults = {}
  Neighbors = FALSE
  Shutdown = FALSE
  NoKey = NoKey
  NoValue = NoValue
  MaxLog = 3
  MaxFreq = 2
  MaxCrashes = 0
INVARIANTS
  LogDescribesMemory
