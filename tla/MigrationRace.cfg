SPECIFICATION Spec
CONSTANTS
  N = 4
  MinBatch = 1
  Recommended = 2
  MaxFaults = 1
  MaxStalled = 1
INVARIANTS FailedImportFailsJob
CHECK_DEADLOCK FALSE
