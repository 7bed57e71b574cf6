SPECIFICATION Spec
CONSTANTS
  Thread = {th1, th2}
  Key = {k1, k2}
  Wing = {w1, w2}
  Capacity = 1
  MaxRev = 4
SYMMETRY Interchangeable
INVARIANTS
  CacheInv
  StaleOnlyByRace
