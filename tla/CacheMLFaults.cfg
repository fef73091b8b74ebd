SPECIFICATION Spec
CONSTANTS
  Keys = {k1, k2}
  Values = {"a", "c"}
  Size <- MCSize
  Capacity = 4
  Base = "LFU"
  ML = TRUE
  TTLs = {"none"}
  MaxEvictions = 2
  ChanCap = 1
  ExternalTriggers = TRUE
  Faults = {"wal", "badger"}
  Neighbors = FALSE
  Shutdown = TRUE
  NoKey = NoKey
  NoValue = NoValue
  MaxLog = 3
  MaxFreq = 2
  MaxCrashes = 1
INVARIANTS
  TypeOK
  UsedWithinCapacity
  PolicyTracksItems
  EvictionFindsVictim
  NeverBlocks
PROPERTIES
  ImplementsNodeCache
  WriteAhead
  FailingWritesEnd
