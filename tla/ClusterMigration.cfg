SPECIFICATION Spec
CONSTANTS
  n1 = n1
  n2 = n2
  n3 = n3
  k1 = k1
  k2 = k2
  Nodes = {n1, n2, n3}
  Keys = {k1}
  Replicas = 2
  PointHash <- MCPointHash
  KeyHash <- MCKeyHash
  Values = {v1}
  NoKey = NoKey
  NoValue = NoValue
  NoNode = NoNode
  Clients = {c1}
  Copiers = {}
  Movers = {n1, r1}
  Evictions = FALSE
  Failures = TRUE
  MaxRefused = 1
  MaxRestarts = 1
INVARIANTS
  TypeOK
  NothingLost
