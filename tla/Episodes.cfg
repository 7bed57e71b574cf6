SPECIFICATION Spec
CONSTANTS
  Thread = {th1, th2}
  Key = {k1, k2}
  Content = {v1}
  Wing = {w1}
  Label = {e1}
  Gap = 1
  BatchSize = 1
  MaxTime = 1
  MaxCount = 2
  ReadsFail = TRUE
  Exclusive = TRUE
SYMMETRY Interchangeable
INVARIANTS
  EpisodesInv
  MembersHaveEpisodes
  ErasedIsUnquoted
