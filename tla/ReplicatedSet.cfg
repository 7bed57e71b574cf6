SPECIFICATION SetFairSpec
CONSTANTS
  Replica = {b1, b2, b3}
  Namespace = {n1, n2}
  Hash = {h1}
INVARIANTS
  SetInv
  MergeSettlesWant
PROPERTIES
  OnlyRetractionRemoves
  ImplementsJoinSet
  Convergence
