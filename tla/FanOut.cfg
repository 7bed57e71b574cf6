SPECIFICATION Spec
CONSTANTS
  Brain = {1, 2}
  Key = {1, 2, 3}
  Content = {1, 2}
  Clearance = {0, 1}
  Signal <- MCSignal
  Weights = {1, 2}
  Policies <- MCPolicies
  K = 2
  Limit = 3
  Denominator = 60
  Error = 1
  Writes <- MCWrites
  Corpora <- MCCorpora
  MaxChanges = 2
INVARIANTS
  FanOutInv
  OnlyAdmissible
  AgreementOutranks
  ChildOrderIsIrrelevant
