SPECIFICATION Spec
CONSTANTS
  Keys = {k1, k2, k3}
  NoKey = NoKey
  MaxFreq = 4
INVARIANTS
  ListMatchesMap
  BucketsMatchKeys
  MinIsExact
PROPERTIES
  RefinesRecencyOrder
  RefinesLeastFrequent
