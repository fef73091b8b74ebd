SPECIFICATION ReplaySpec
CONSTANTS
  Keys = {k1, k2}
  Values = {"a", "c", "huge"}
  Size <- MCSize
  Capacity = 4
  Base = "LRU"
  ML = FALSE
  TTLs = {"none", "seconds"}
  MaxEvictions = 2
  ChanCap = 1
  ExternalTriggers = FALSE
  Faults = {}
  Neighbors = TRUE
  Shutdown = FALSE
  NoKey = NoKey
  NoValue = NoValue
  MaxLog = 3
  MaxFreq = 2
  MaxCrashes = 1
INVARIANTS
  UsedNeverOverstates
  NoResurrection
  RebuiltFromLatest
  BadgerCovers
PROPERTIES
  ImplementsNodeCache
  WriteAhead
  EvictsOnlyForWant
  CapEndsWrites
  SweepsExpiredOrReplaced
SYMMETRY MCSymmetry
