SPECIFICATION AssistantSpec
CONSTANTS
  r1 = r1
  r2 = r2
  j1 = j1
  j2 = j2
  Readers <- MCReaders
  Jobs <- MCJobs
  Requests <- MCNamed
  Calls <- MCCalls
  Configured = TRUE
  Namespaces = {"ai-schema"}
  MaxChanges = 2
  MaxBumps = 2
  Gens = {1, 2}
  MaxPanels = 2
  MaxFaults = 1
SYMMETRY Symmetry
INVARIANTS AnswersFresh ReloadShowsTheSame
CHECK_DEADLOCK FALSE
