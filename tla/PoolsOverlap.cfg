SPECIFICATION Spec
CONSTANTS
  c1 = c1
  c2 = c2
  p1 = p1
  p2 = p2
  j1 = j1
  j2 = j2
  Clients <- MCClients
  Janitors <- MCJanitors
  Conns <- MCConns
  SshConns <- MCConns
  MockConns = {}
  Dbs = {"a"}
  None = None
  PoolTtl = 0
  PressureIdle = 0
  MaxActivePools = 2
  MaxPoolsPerConnection = 2
  MaxVersion = 2
  MaxPools = 2
  MaxTunnels = 2
  MaxClock = 0
SYMMETRY Symmetry
INVARIANTS SingleFlight NoOrphanPool TunnelServesPool NoOrphanTunnel
PROPERTIES ImplementsPoolCache
CHECK_DEADLOCK TRUE
