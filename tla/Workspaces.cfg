SPECIFICATION MCSpec
CONSTANTS
  a = a
  b = b
  t1 = t1
  t2 = t2
  r1 = r1
  r2 = r2
  Users <- MCUsers
  Founder = a
  Owner = b
  TeamRequests <- MCTeamRequests
  Requests <- MCRequests
  MaxTeamCalls = 6
  MaxCrashes = 1
  MaxCalls = 3
  MaxFaults = 1
  Databases = {"shop", "depot"}
  Home = "shop"
  CanvasSaves <- MCRequests
  MaxDrawings = 2
  MaxTurns = 3
SYMMETRY Symmetry
INVARIANTS OwnerRemains HistoryFaithful PolicyFollowsSharing DrawingsStayApart
PROPERTIES AcceptNeverOverrides ScopeNeedsManage
CHECK_DEADLOCK FALSE
