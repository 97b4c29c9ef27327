SPECIFICATION MCSpec
CONSTANTS
  Conns = {"a", "b"}
  Tabs = {"t1", "t2"}
  MaxRuns = 2
  MaxTabMoves = 2
  MaxTabFaults = 1
  Rows = {1, 2}
  Saves = {1, 2}
  MaxEdits = 3
  MaxGridMoves = 2
  MaxGridFaults = 1
  board = board
  Items = {board}
  Restores = {"r", "q"}
  Creator = "creator"
  MaxActs = 2
  q1 = q1
  q2 = q2
  Callers = {q1, q2}
  MaxCalls = 4
SYMMETRY Symmetry
INVARIANTS EditsLand RestoreFaithful CodesGoodOnce VerifiedAsRegistered
PROPERTY RunsAreAskedFor
CHECK_DEADLOCK FALSE
