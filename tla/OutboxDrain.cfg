SPECIFICATION FairSpec
CONSTANTS
  w = w
  a = a
  Workers <- MCWorkers
  Partitions <- MCPartitions
  MaxId = 3
  MaxAttempts = 2
  BatchSize = 2
  MaxCrashes = 2
  SlowBatch = TRUE
CHECK_DEADLOCK FALSE
INVARIANTS InOrder AttemptBudget
PROPERTIES EventuallyResolved
