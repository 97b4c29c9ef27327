SPECIFICATION Spec
CONSTANTS
  Users <- MCUsers
  First = "u"
  FirstTab = "left"
  NoUser = "nobody"
  Tabs <- MCTabs
  Requests <- MCRequests
  HomeOf <- AllLeft
  Calls = {1, 2}
  MaxActs = 4
INVARIANT RecoveryKept
CHECK_DEADLOCK FALSE
