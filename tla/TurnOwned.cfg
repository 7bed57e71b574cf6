SPECIFICATION Spec
CONSTANTS
  Thread = {th1, th2}
  Turn = {t1, t2}
  Memory = {m1}
  Negative = {"wrong"}
  Modes = {TRUE, FALSE}
  Exclusive = TRUE
  MaxSignal = 2
  MaxQueue = 2
SYMMETRY ThreadsAndTurns
INVARIANTS
  AcknowledgedOutcomeIsDurable
PROPERTIES
  FlushDrains
