SPECIFICATION FairSpec
CONSTANTS
  Thread = {th1, th2}
  Turn = {t1}
  Memory = {m1}
  Negative = {"wrong"}
  Modes = {TRUE, FALSE}
  Exclusive = FALSE
  MaxSignal = 2
  MaxQueue = 1
INVARIANTS
  LedgerInv
  CreditMatchesEvidence
PROPERTIES
  AdjudicationIsFinal
  CallsReturn
