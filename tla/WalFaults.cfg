SPECIFICATION Spec
CONSTANTS
  Keys <- MCKeys
  Values <- MCValues
  TTLs <- MCTTLs
  MaxLine = 16
  MaxAppends = 3
INVARIANTS
  ExactWhenPlain
PROPERTIES
  ImplementsEntryLog
CHECK_DEADLOCK FALSE
