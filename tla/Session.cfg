SPECIFICATION Spec
CONSTANTS
  Users <- MCUsers
  First = "u"
  FirstTab = "left"
  NoUser = "nobody"
  Tabs <- MCTabs
  Requests <- MCRequests
  HomeOf <- AllLeft
  Calls = {1, 2}
  MaxActs = 4
INVARIANTS SignedOutStays WorkspaceIsMine
PROPERTIES SignedOutForAReason RequestsSettle
CHECK_DEADLOCK FALSE
