SPECIFICATION FairSpec
CONSTANTS
  Thread = {th1}
  Key = {k1, k2}
  Version = {v1}
  Batch = 1
  Limits = {1, 3}
  Exclusive = TRUE
PROPERTIES
  PendingDrains
