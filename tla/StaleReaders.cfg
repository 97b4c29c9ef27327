SPECIFICATION Spec
CONSTANTS
  r1 = r1
  r2 = r2
  j1 = j1
  j2 = j2
  Readers <- MCTwoReaders
  Jobs <- MCOneJob
  Requests <- MCUnnamed
  Calls <- MCWrite
  Configured = TRUE
  Namespaces = {"metadata", "hierarchy", "ai-schema"}
  MaxChanges = 2
  MaxBumps = 2
INVARIANT WritesReachReaders
CHECK_DEADLOCK FALSE
