SPECIFICATION HistorySpec
CONSTANTS
  Callers = {writer, worker}
  Cooldown = 2
  OpenFor = 3
  Threshold = 3
  MaxTime = 6
INVARIANTS
  TypeOK
  CountBelowThreshold
PROPERTIES
  OwnCallsSpaced
  SeriesTrips
