SPECIFICATION Spec
CONSTANTS
  Thread = {th1, th2}
  Key = {k1, k2}
  Version = {v1, v2}
  Batch = 2
  Limits = {1, 3}
  Exclusive = TRUE
SYMMETRY Interchangeable
INVARIANTS
  LifecycleInv
  ForgottenStaysForgotten
  DerivedIsRecognised
PROPERTIES
  RepairHeals
