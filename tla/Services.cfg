SPECIFICATION Spec
CONSTANTS
  x = x
  y = y
  z = z
  one = one
  two = two
  Users = {"u", "v"}
  Visits = {1, 2}
  StaleWindow = 2
  Ttl = 4
  Tabs = {"t1", "t2", "t3"}
  MaxOpens = 5
  MaxErrors = 1
  MaxEmits = 2
  Items <- MCItems
  TermsOf <- TermsOfItem
  IdOf <- IdOfItem
  Syncs = {1, 2}
  MaxSyncs = 3
  MaxDeaths = 1
  MaxRefused = 1
  Commenters = {1, 2}
  LogWindow = 3
  MaxIds = 4
  MaxResolves = 1
  MaxLost = 1
  MaxLength = 7
  MaxQuoted = 6
  Gens = {1}
  Plans = 3
  MaxAttempts = 3
  MaxChunks = 2
INVARIANTS SearchIsExact OpenStreamsHaveChannel AnsweredThreadsStay OneVoice SplitAtStatements
PROPERTIES FreshEntriesStay EmittedIsHeard ResponseEnds
CHECK_DEADLOCK FALSE
