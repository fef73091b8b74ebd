SPECIFICATION PromiseSpec
CONSTANTS
  Callers = {writer, worker}
  Cooldown = 2
  OpenFor = 5
  Threshold = 3
  MaxTime = 8
PROPERTIES
  BreakerHolds
