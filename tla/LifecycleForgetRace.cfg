SPECIFICATION Spec
CONSTANTS
  Thread = {th1, th2}
  Key = {k1}
  Version = {v1}
  Batch = 1
  Limits = {2}
  Exclusive = FALSE
INVARIANTS
  ForgottenStaysForgotten

