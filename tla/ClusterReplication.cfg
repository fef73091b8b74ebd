SPECIFICATION Spec
CONSTANTS
  n1 = n1
  n2 = n2
  n3 = n3
  k1 = k1
  k2 = k2
  Nodes = {n1, n2, n3}
  Keys = {k1, k2}
  Replicas = 2
  PointHash <- MCPointHash
  KeyHash <- MCKeyHash
  Values = {v1, v2}
  NoKey = NoKey
  NoValue = NoValue
  NoNode = NoNode
  Clients = {c1, c2}
  Copiers = {g1}
  Movers = {}
  Evictions = TRUE
  Failures = TRUE
  MaxRefused = 1
  MaxRestarts = 1
INVARIANTS
  
  TwoCopies
  CopiesWhereSliceSays
