CONSTANTS
  Batches <- ThreeTasks
  Texts <- TwoTexts
  Earlier <- OneEarlier
  Workers = {w1, w2}
  Shards = 1
  OldShards = 1
  BatchSize = 2
  Registry = TRUE
  MaxFaults = 1
SPECIFICATION Spec
SYMMETRY Symmetry
\* The merge ends.
CHECK_DEADLOCK FALSE
INVARIANTS
  EveryTextArrives
