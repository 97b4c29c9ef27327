SPECIFICATION FairSpec
CONSTANTS
  N = 7
  MinBatch = 3
  Recommended = 5
  MaxFaults = 3
  MaxStalled = 1
INVARIANTS CompletedIsComplete NoDuplicates ProgressAgrees
PROPERTY JobSettles
CHECK_DEADLOCK FALSE
