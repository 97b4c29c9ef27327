SPECIFICATION FairSpec
CONSTANTS
  c1 = c1
  c2 = c2
  p1 = p1
  p2 = p2
  j1 = j1
  j2 = j2
  Clients <- MCClients
  Janitors <- MCNoJanitor
  Conns <- MCTwoConns
  SshConns = {}
  MockConns <- MCMock
  Dbs = {"a", "b"}
  None = None
  PoolTtl = 0
  PressureIdle = 0
  MaxActivePools = 1
  MaxPoolsPerConnection = 2
  MaxVersion = 1
  MaxPools = 2
  MaxTunnels = 0
  MaxClock = 1
PROPERTIES CallsAnswered
