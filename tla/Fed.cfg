SPECIFICATION Spec
CONSTANTS
  Brain = {a, b, c}
  Author = {a}
  Key = {k}
  Version = {v1, v2}
  Wing = {w1, w2}
  Time = {1}
  Attests = {a}
  Strict = {c}
  MaxHops = 0
  MaxShares = 2
  MaxPacks = 2
SYMMETRY WingsAndVersions
INVARIANTS
  FedInv
  Sovereignty
  ImportedIsListed
  MergeSettlesWant
PROPERTIES
  RetractionIsWingScoped
