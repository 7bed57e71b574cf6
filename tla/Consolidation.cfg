SPECIFICATION Spec
CONSTANTS
  a = a
  b = b
  s1 = s1
  s2 = s2
  Thread = {th1, th2}
  Key = {a, b, s1, s2}
  Requests <- MCRequests
  Batches <- MCBatches
  Given <- MCGiven
  Cap = 2
  Initial = 1
  MaxOps = 4
SYMMETRY Interchangeable
INVARIANTS
  ConsolidationInv
  SourcesStayReachable
PROPERTIES
  HiddenPaysTarget
  HiddenWasRead
