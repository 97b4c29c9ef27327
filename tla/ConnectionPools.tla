-------------------------- MODULE ConnectionPools --------------------------
(***************************************************************************)
(* The pool cache of ConnectionsService, with the SSH tunnels it owns.     *)
(*                                                                         *)
(* The server is one JavaScript event loop: the code between two awaits is *)
(* one step, and every await lets any other call run.  A process is one    *)
(* asynchronous call: a client is a request inside getPool, a janitor is   *)
(* the cleanup timer, update, remove, removePool or onModuleDestroy.       *)
(* Clients become closers too: createAndCachePool runs cleanupPools when   *)
(* the soft limits are reached.                                            *)
(***************************************************************************)
EXTENDS Naturals, FiniteSets

CONSTANTS
  Clients,               \* requests that may be inside getPool at the same time
  Janitors,              \* calls that close pools
  Conns,                 \* connection ids
  Dbs,                   \* database names a key may end in
  SshConns,              \* connections whose row has sshHost and sshUsername
  MockConns,             \* connections of type 'mock', which has no strategy
  None,                  \* "no process"
  PoolTtl,               \* POOL_TTL, in clock units
  PressureIdle,          \* POOL_PRESSURE_IDLE_MS, in clock units
  MaxActivePools,        \* MAX_ACTIVE_POOLS
  MaxPoolsPerConnection, \* MAX_POOLS_PER_CONNECTION
  MaxVersion,            \* bound: configurations a row goes through
  MaxPools,              \* bound: pools ever created
  MaxTunnels,            \* bound: tunnels ever opened
  MaxClock               \* bound: clock units that pass

ASSUME ProcessesAssumption ==
  /\ Clients \cap Janitors = {}
  /\ None \notin Clients \cup Janitors
  /\ SshConns \subseteq Conns /\ MockConns \subseteq Conns
  /\ Clients # {} /\ Conns # {} /\ Dbs # {}

ASSUME LimitsAssumption ==
  /\ PoolTtl \in Nat /\ PressureIdle \in Nat
  /\ MaxActivePools \in Nat /\ MaxPoolsPerConnection \in Nat
  /\ MaxVersion \in Nat \ {0} /\ MaxPools \in Nat
  /\ MaxTunnels \in Nat /\ MaxClock \in Nat

Procs   == Clients \cup Janitors
Keys    == Conns \X Dbs
Pools   == 1..MaxPools
NoPool  == 0                            \* also PoolCache's empty slot
NoKey   == CHOOSE k \in Keys : TRUE     \* filler of the key fields of an idle process

VARIABLES
  row,          \* row[c]: version of the stored configuration of c, 0 once deleted
  pools,        \* pools[k]: the pool cached under k, NoPool if none
  lastAccessed, \* lastAccessed[k]: clock of the last getPool that hit k
  poolCreations,\* poolCreations[k]: the client whose creation is pending, or None
  tunnels,      \* tunnels[k]: the tunnel registered under k, 0 if none
  opened,       \* tunnels opened so far
  created,      \* pools created so far: the next one is created + 1
  pool,         \* pool[h]: the key, configuration and tunnel pool h was created from
  state,        \* state[h]: what has become of pool h
  pc,           \* pc[p]: where client p is in getPool
  req,          \* req[p]: the key and configuration client p goes by
  via,          \* via[p]: the tunnel of client p's creation, 0 if none
  got,          \* got[p]: the pool client p has created or was given
  job,          \* job[q]: the closing loop process q runs
  todo,         \* todo[q]: the keys its loop has not reached
  phase,        \* phase[q]: where q is in closePoolByKey
  target,       \* target[q]: the key it is closing and the pool it took from it
  now,          \* the clock
  overlapped,   \* history: keys whose pool two closers were closing at once
  stranded      \* history: pools left in the map by a failed health write

cacheVars == <<pools, lastAccessed, poolCreations>>
tunnelVars == <<tunnels, opened>>
poolVars == <<created, pool, state>>
callVars == <<pc, req, via, got>>
jobVars == <<job, todo, phase, target>>
history == <<overlapped, stranded>>
vars == <<row, cacheVars, tunnelVars, poolVars, callVars, jobVars, now, history>>

-----------------------------------------------------------------------------
(* Types *)

NoReq    == [key |-> NoKey, ver |-> 0]
NoJob    == [kind |-> "none", conn |-> NoKey[1], since |-> 0]
NoTarget == [key |-> NoKey, cur |-> NoPool]

\* What the maps of ConnectionsService and the calls under way may hold.
TypeOK ==
  /\ row \in [Conns -> 0..MaxVersion]
  /\ pools \in [Keys -> 0..MaxPools]
  /\ lastAccessed \in [Keys -> Nat]
  /\ poolCreations \in [Keys -> Clients \cup {None}]
  /\ tunnels \in [Keys -> Nat]
  /\ opened \in Nat
  /\ created \in 0..MaxPools
  /\ pool \in [Pools -> [key : Keys, ver : 0..MaxVersion, via : Nat]]
  /\ state \in [Pools -> {"unborn", "open", "closing", "closed"}]
  /\ pc \in [Clients -> {"idle", "fetched", "joined", "sweeping", "ssh", "connect",
                         "health", "failing", "using"}]
  /\ req \in [Clients -> [key : Keys, ver : 0..MaxVersion]]
  /\ via \in [Clients -> Nat]
  /\ got \in [Clients -> 0..MaxPools]
  /\ job \in [Procs -> [kind : {"none", "sweep", "trim", "update", "remove", "evict"},
                        conn : Conns, since : Nat]]
  /\ todo \in [Procs -> SUBSET Keys]
  /\ phase \in [Procs -> {"pick", "lookup", "ending"}]
  /\ target \in [Procs -> [key : Keys, cur : 0..MaxPools]]
  /\ now \in Nat
  /\ overlapped \subseteq Keys
  /\ stranded \subseteq 0..MaxPools

Init ==
  /\ row = [c \in Conns |-> 1]
  /\ pools = [k \in Keys |-> NoPool]
  /\ lastAccessed = [k \in Keys |-> 0]
  /\ poolCreations = [k \in Keys |-> None]
  /\ tunnels = [k \in Keys |-> 0]
  /\ opened = 0
  /\ created = 0
  /\ pool = [h \in Pools |-> [key |-> NoKey, ver |-> 0, via |-> 0]]
  /\ state = [h \in Pools |-> "unborn"]
  /\ pc = [p \in Clients |-> "idle"]
  /\ req = [p \in Clients |-> NoReq]
  /\ via = [p \in Clients |-> 0]
  /\ got = [p \in Clients |-> NoPool]
  /\ job = [q \in Procs |-> NoJob]
  /\ todo = [q \in Procs |-> {}]
  /\ phase = [q \in Procs |-> "pick"]
  /\ target = [q \in Procs |-> NoTarget]
  /\ now = 0
  /\ overlapped = {}
  /\ stranded = {}

-----------------------------------------------------------------------------
(* Helpers *)

Cached       == {k \in Keys : pools[k] # NoPool}
CachedOf(c)  == {k \in Cached : k[1] = c}
Busy(q)      == phase[q] # "pick"
ClosingAt(q, k) == Busy(q) /\ target[q].key = k

\* totalPools and the fan-out of one connection, as createAndCachePool reads them.
OverSoftLimit(c) ==
  \/ Cardinality(Cached) >= MaxActivePools
  \/ Cardinality(CachedOf(c)) >= MaxPoolsPerConnection

Expired(k, since) == pools[k] # NoPool /\ since > lastAccessed[k] + PoolTtl

\* Process q starts a loop over the keys.
StartLoop(q, kind, c, keys) ==
  /\ job[q].kind = "none"
  /\ job' = [job EXCEPT ![q] = [kind |-> kind, conn |-> c, since |-> now]]
  /\ todo' = [todo EXCEPT ![q] = keys]
  /\ UNCHANGED <<phase, target>>

\* The first loop of cleanupPools: the keys it will visit.  It re-tests each one
\* when it gets there; an entry set after `since` is never expired at `since`.
StartSweep(q) == StartLoop(q, "sweep", NoKey[1], {k \in Keys : Expired(k, now)})

\* trimIdlePoolsToSoftLimit: the least recently accessed of the idle pools, as many
\* as the map exceeds the limit by.
IdleAt(since) == {k \in Cached : lastAccessed[k] + PressureIdle <= since}
IsVictims(V, since) ==
  LET overflow == Cardinality(Cached) - MaxActivePools
      idle     == IdleAt(since)
  IN  /\ V \subseteq idle
      /\ Cardinality(V) = (IF Cardinality(idle) < overflow THEN Cardinality(idle) ELSE overflow)
      /\ \A v \in V, k \in idle \ V : lastAccessed[v] <= lastAccessed[k]

\* Where createAndCachePool goes once it has cleaned up.
ConnectStage(k) == IF k[1] \in SshConns THEN "ssh" ELSE "connect"

\* Mutant: nobody but the creator is told.
SettleCreatorOnly(p, h) ==
  /\ pc' = [pc EXCEPT ![p] = IF h = NoPool THEN "idle" ELSE "using"]
  /\ got' = [got EXCEPT ![p] = h]
  /\ req' = [req EXCEPT ![p] = NoReq]
  /\ via' = [via EXCEPT ![p] = 0]
  /\ poolCreations' = [poolCreations EXCEPT ![req[p].key] = None]

\* The promise of p's creation settles: p and everybody who awaits it get pool h, or
\* the error, in the same turn, and p's finally removes the promise from the map
\* unless another one took its place.
Settle(p, h) ==
  LET k == req[p].key
      awaits == {q \in Clients : q = p \/ (pc[q] = "joined" /\ req[q].key = k
                                                           /\ poolCreations[k] = p)}
  IN  /\ pc' = [q \in Clients |-> IF q \notin awaits THEN pc[q]
                                  ELSE IF h = NoPool THEN "idle" ELSE "using"]
      /\ got' = [q \in Clients |-> IF q \in awaits THEN h ELSE got[q]]
      /\ req' = [q \in Clients |-> IF q \in awaits THEN NoReq ELSE req[q]]
      /\ via' = [q \in Clients |-> IF q \in awaits THEN 0 ELSE via[q]]
      /\ poolCreations' = [poolCreations EXCEPT ![k] = IF @ = p THEN None ELSE @]

-----------------------------------------------------------------------------
(* getPool *)

\* getPool reads the row; the permission check that follows is awaited too.  The
\* database of the key is the override, or the one in the row: any of Dbs.
FetchConnection(p, k) ==
  /\ pc[p] = "idle"
  /\ row[k[1]] # 0
  /\ pc' = [pc EXCEPT ![p] = "fetched"]
  /\ req' = [req EXCEPT ![p] = [key |-> k, ver |-> row[k[1]]]]
  /\ UNCHANGED <<row, cacheVars, tunnelVars, poolVars, via, got, jobVars, now, history>>

\* this.pools has the key: the cached pool is returned and its access time renewed.
ServeCached(p) ==
  LET k == req[p].key IN
  /\ pc[p] = "fetched"
  /\ pools[k] # NoPool
  /\ lastAccessed' = [lastAccessed EXCEPT ![k] = now]
  /\ pc' = [pc EXCEPT ![p] = "using"]
  /\ got' = [got EXCEPT ![p] = pools[k]]
  /\ req' = [req EXCEPT ![p] = NoReq]
  /\ UNCHANGED <<row, pools, poolCreations, tunnelVars, poolVars, via, jobVars, now,
                 history>>

\* A creation is pending for the key: await the same promise.
JoinCreation(p) ==
  LET k == req[p].key IN
  /\ pc[p] = "fetched"
  /\ pools[k] = NoPool
  /\ poolCreations[k] # None
  /\ pc' = [pc EXCEPT ![p] = "joined"]
  /\ UNCHANGED <<row, cacheVars, tunnelVars, poolVars, req, via, got, jobVars, now,
                 history>>

\* Mutant: the pending creation is not looked up.
StartCreationAnyway(p) ==
  LET k == req[p].key IN
  /\ pc[p] = "fetched"
  /\ pools[k] = NoPool
  /\ poolCreations' = [poolCreations EXCEPT ![k] = p]
  /\ pc' = [pc EXCEPT ![p] = ConnectStage(k)]
  /\ UNCHANGED <<row, pools, lastAccessed, tunnelVars, poolVars, req, via, got, jobVars,
                 now, history>>

\* Mutant: the cached pool is not looked up.
StartCreationOverPool(p) ==
  LET k == req[p].key IN
  /\ pc[p] = "fetched"
  /\ poolCreations[k] = None
  /\ poolCreations' = [poolCreations EXCEPT ![k] = p]
  /\ pc' = [pc EXCEPT ![p] = ConnectStage(k)]
  /\ UNCHANGED <<row, pools, lastAccessed, tunnelVars, poolVars, req, via, got, jobVars,
                 now, history>>

\* Neither: start createAndCachePool, which runs up to its first await in the same
\* turn as the registration of its promise, and cleans up first over a soft limit.
StartCreation(p) ==
  LET k == req[p].key IN
  /\ pc[p] = "fetched"
  /\ pools[k] = NoPool
  /\ poolCreations[k] = None
  /\ poolCreations' = [poolCreations EXCEPT ![k] = p]
  /\ \/ /\ OverSoftLimit(k[1])
        /\ pc' = [pc EXCEPT ![p] = "sweeping"]
        /\ StartSweep(p)
     \/ /\ ~OverSoftLimit(k[1])
        /\ pc' = [pc EXCEPT ![p] = ConnectStage(k)]
        /\ UNCHANGED jobVars
  /\ UNCHANGED <<row, pools, lastAccessed, tunnelVars, poolVars, req, via, got, now,
                 history>>

\* cleanupPools returned to the creator.
CreatorSwept(p) ==
  /\ pc[p] = "sweeping"
  /\ job[p].kind = "none"
  /\ pc' = [pc EXCEPT ![p] = ConnectStage(req[p].key)]
  /\ UNCHANGED <<row, cacheVars, tunnelVars, poolVars, req, via, got, jobVars, now,
                 history>>

\* openTunnel resolves: the tunnel registered under the key if there is one, a new one
\* otherwise.  No other call opens this key meanwhile (SingleFlight).
OpenTunnel(p) ==
  LET k == req[p].key
      t == IF tunnels[k] # 0 THEN tunnels[k] ELSE opened + 1
  IN  /\ pc[p] = "ssh"
      /\ t <= MaxTunnels
      /\ tunnels' = [tunnels EXCEPT ![k] = t]
      /\ opened' = IF tunnels[k] # 0 THEN opened ELSE opened + 1
      /\ via' = [via EXCEPT ![p] = t]
      /\ pc' = [pc EXCEPT ![p] = "connect"]
      /\ UNCHANGED <<row, cacheVars, poolVars, req, got, jobVars, now, history>>

\* createAndCachePool throws outside its try: no host for the tunnel, openTunnel
\* rejects, or the type has no strategy.  The tunnel, if it was opened, stays.
RejectEarly(p) ==
  /\ \/ pc[p] = "ssh"
     \/ pc[p] = "connect" /\ req[p].key[1] \in MockConns
  /\ Settle(p, NoPool)
  /\ UNCHANGED <<row, pools, lastAccessed, tunnelVars, poolVars, jobVars, now, history>>

\* createPool resolves: cache the pool, then await the health write.
StorePool(p) ==
  LET k == req[p].key
      h == created + 1
  IN  /\ pc[p] = "connect"
      /\ k[1] \notin MockConns
      /\ h \in Pools
      /\ created' = h
      /\ pool' = [pool EXCEPT ![h] = [key |-> k, ver |-> req[p].ver, via |-> via[p]]]
      /\ state' = [state EXCEPT ![h] = "open"]
      /\ pools' = [pools EXCEPT ![k] = h]
      /\ lastAccessed' = [lastAccessed EXCEPT ![k] = now]
      /\ pc' = [pc EXCEPT ![p] = "health"]
      /\ got' = [got EXCEPT ![p] = h]
      /\ UNCHANGED <<row, poolCreations, tunnelVars, req, via, jobVars, now, history>>

\* Mutant: the catch forgets the tunnel.
CreatePoolFailsKeepsTunnel(p) ==
  /\ pc[p] = "connect"
  /\ req[p].key[1] \notin MockConns
  /\ pc' = [pc EXCEPT ![p] = "failing"]
  /\ UNCHANGED <<row, cacheVars, tunnelVars, poolVars, req, via, got, jobVars, now, history>>

\* createPool rejects: the catch closes the tunnel and writes the error state.
CreatePoolFails(p) ==
  /\ pc[p] = "connect"
  /\ req[p].key[1] \notin MockConns
  /\ tunnels' = [tunnels EXCEPT ![req[p].key] = 0]
  /\ pc' = [pc EXCEPT ![p] = "failing"]
  /\ UNCHANGED <<row, cacheVars, opened, poolVars, req, via, got, jobVars, now, history>>

\* The health write succeeds, which needs the row: the pool is handed out.
HealthWritten(p) ==
  /\ pc[p] = "health"
  /\ row[req[p].key[1]] # 0
  /\ Settle(p, got[p])
  /\ UNCHANGED <<row, pools, lastAccessed, tunnelVars, poolVars, jobVars, now, history>>

\* The health write rejects: the same catch closes the tunnel, but the pool stays in
\* the map for the next getPool.
HealthWriteFails(p) ==
  /\ pc[p] = "health"
  /\ tunnels' = [tunnels EXCEPT ![req[p].key] = 0]
  /\ stranded' = stranded \cup {got[p]}
  /\ pc' = [pc EXCEPT ![p] = "failing"]
  /\ got' = [got EXCEPT ![p] = NoPool]
  /\ UNCHANGED <<row, cacheVars, opened, poolVars, req, via, jobVars, now, overlapped>>

\* The second health write is over, one way or the other: the error is thrown.
RejectLate(p) ==
  /\ pc[p] = "failing"
  /\ Settle(p, NoPool)
  /\ UNCHANGED <<row, pools, lastAccessed, tunnelVars, poolVars, jobVars, now, history>>

\* The caller has finished its query.
DoneUsing(p) ==
  /\ pc[p] = "using"
  /\ pc' = [pc EXCEPT ![p] = "idle"]
  /\ got' = [got EXCEPT ![p] = NoPool]
  /\ UNCHANGED <<row, cacheVars, tunnelVars, poolVars, req, via, jobVars, now, history>>

-----------------------------------------------------------------------------
(* Closing pools *)

\* The timer fires.  Nothing stops a second sweep from starting while one runs.
StartCleanup(q) ==
  /\ StartSweep(q)
  /\ UNCHANGED <<row, cacheVars, tunnelVars, poolVars, callVars, now, history>>

\* update and remove: the row is read, then closePoolsByConnectionId takes a snapshot
\* of the keys of the connection.
StartChange(q, c, kind) ==
  /\ row[c] # 0
  /\ StartLoop(q, kind, c, CachedOf(c))
  /\ UNCHANGED <<row, cacheVars, tunnelVars, poolVars, callVars, now, history>>

\* removePool closes one key; onModuleDestroy closes all those of the moment.
StartEvict(q, keys) ==
  /\ StartLoop(q, "evict", NoKey[1], keys)
  /\ UNCHANGED <<row, cacheVars, tunnelVars, poolVars, callVars, now, history>>

\* The test closePoolByKey and the cleanup loop make on reaching a key.
Closable(q, k) ==
  IF job[q].kind = "sweep" THEN Expired(k, job[q].since) ELSE pools[k] # NoPool

SkipClose(q, k) ==
  /\ ~Busy(q) /\ k \in todo[q]
  /\ ~Closable(q, k)
  /\ todo' = [todo EXCEPT ![q] = @ \ {k}]
  /\ UNCHANGED <<row, cacheVars, tunnelVars, poolVars, callVars, job, phase, target, now,
                 history>>

\* closePoolByKey takes the pool data and awaits the row of the connection.  The pool
\* stays in the map.
BeginClose(q, k) ==
  /\ ~Busy(q) /\ k \in todo[q]
  /\ Closable(q, k)
  /\ todo' = [todo EXCEPT ![q] = @ \ {k}]
  /\ phase' = [phase EXCEPT ![q] = "lookup"]
  /\ target' = [target EXCEPT ![q] = [key |-> k, cur |-> pools[k]]]
  /\ overlapped' = overlapped \cup {x \in {k} : \E r \in Procs : ClosingAt(r, x)}
  /\ UNCHANGED <<row, cacheVars, tunnelVars, poolVars, callVars, job, now, stranded>>

\* Mutant: the tunnel goes first, while the pool can still be handed out.
EndPoolTunnelFirst(q) ==
  /\ phase[q] = "lookup"
  /\ phase' = [phase EXCEPT ![q] = "ending"]
  /\ state' = [state EXCEPT ![target[q].cur] = IF @ = "open" THEN "closing" ELSE @]
  /\ tunnels' = [tunnels EXCEPT ![target[q].key] = 0]
  /\ UNCHANGED <<row, cacheVars, opened, created, pool, callVars, job, todo, target,
                 now, history>>

\* The strategy's close, or the fallback, is called: the pool refuses new queries and
\* waits for those it is running.
EndPool(q) ==
  /\ phase[q] = "lookup"
  /\ phase' = [phase EXCEPT ![q] = "ending"]
  /\ state' = [state EXCEPT ![target[q].cur] = IF @ = "open" THEN "closing" ELSE @]
  /\ UNCHANGED <<row, cacheVars, tunnelVars, created, pool, callVars, job, todo, target,
                 now, history>>

\* The finally of closePoolByKey: whatever is under the key now leaves the map, and
\* whatever tunnel is under the key is closed.
FinishClose(q) ==
  LET k == target[q].key IN
  /\ phase[q] = "ending"
  /\ phase' = [phase EXCEPT ![q] = "pick"]
  /\ target' = [target EXCEPT ![q] = NoTarget]
  /\ state' = [state EXCEPT ![target[q].cur] = "closed"]
  /\ pools' = [pools EXCEPT ![k] = NoPool]
  /\ lastAccessed' = [lastAccessed EXCEPT ![k] = 0]
  /\ tunnels' = [tunnels EXCEPT ![k] = 0]
  /\ UNCHANGED <<row, poolCreations, opened, created, pool, callVars, job, todo, now,
                 history>>

\* The loop is over, and its call goes on or ends.
LoopDone(q) == ~Busy(q) /\ todo[q] = {}
EndJob(q) ==
  /\ job' = [job EXCEPT ![q] = NoJob]
  /\ UNCHANGED <<cacheVars, tunnelVars, poolVars, callVars, todo, phase, target, now,
                 history>>

\* cleanupPools goes on to trim; the victims are chosen now and closed one by one.
StartTrim(q) ==
  /\ LoopDone(q) /\ job[q].kind = "sweep"
  /\ Cardinality(Cached) > MaxActivePools
  /\ job' = [job EXCEPT ![q] = [kind |-> "trim", conn |-> NoKey[1], since |-> job[q].since]]
  /\ \E V \in SUBSET Keys : IsVictims(V, job[q].since) /\ todo' = [todo EXCEPT ![q] = V]
  /\ UNCHANGED <<row, cacheVars, tunnelVars, poolVars, callVars, phase, target, now,
                 history>>

EndLoop(q) ==
  /\ LoopDone(q)
  /\ \/ job[q].kind \in {"trim", "evict"}
     \/ job[q].kind = "sweep" /\ Cardinality(Cached) <= MaxActivePools
  /\ EndJob(q)
  /\ UNCHANGED row

\* update writes the row after it has closed the pools.
CommitUpdate(q) ==
  /\ LoopDone(q) /\ job[q].kind = "update"
  /\ row[job[q].conn] \in 1..(MaxVersion - 1)
  /\ row' = [row EXCEPT ![job[q].conn] = @ + 1]
  /\ EndJob(q)

\* remove deletes it after it has closed the pools.
CommitRemove(q) ==
  /\ LoopDone(q) /\ job[q].kind = "remove"
  /\ row[job[q].conn] # 0
  /\ row' = [row EXCEPT ![job[q].conn] = 0]
  /\ EndJob(q)

\* A check of update rejects the new values, or the write fails (as it does when the
\* row is gone): the pools are closed, the row is as it was.
ChangeFails(q) ==
  /\ LoopDone(q) /\ job[q].kind \in {"update", "remove"}
  /\ EndJob(q)
  /\ UNCHANGED row

Tick ==
  /\ now < MaxClock
  /\ now' = now + 1
  /\ UNCHANGED <<row, cacheVars, tunnelVars, poolVars, callVars, jobVars, history>>

-----------------------------------------------------------------------------
(* Specification *)

\* The steps a getPool call takes once it has started.
GetPoolStep(p) ==
  \/ ServeCached(p)
  \/ JoinCreation(p)
  \/ StartCreation(p)
  \/ CreatorSwept(p)
  \/ OpenTunnel(p)
  \/ RejectEarly(p)
  \/ StorePool(p)
  \/ CreatePoolFails(p)
  \/ HealthWritten(p)
  \/ HealthWriteFails(p)
  \/ RejectLate(p)

\* The steps of a closing loop once it has started.
CloserStep(q) ==
  \/ \E k \in Keys : SkipClose(q, k)
  \/ \E k \in Keys : BeginClose(q, k)
  \/ EndPool(q)
  \/ FinishClose(q)
  \/ StartTrim(q)
  \/ EndLoop(q)
  \/ CommitUpdate(q)
  \/ CommitRemove(q)
  \/ ChangeFails(q)

Next ==
  \/ \E p \in Clients, k \in Keys : FetchConnection(p, k)
  \/ \E p \in Clients : GetPoolStep(p)
  \/ \E p \in Clients : DoneUsing(p)
  \/ \E q \in Janitors : StartCleanup(q)
  \/ \E q \in Janitors, c \in Conns : StartChange(q, c, "update")
  \/ \E q \in Janitors, c \in Conns : StartChange(q, c, "remove")
  \/ \E q \in Janitors, k \in Keys : StartEvict(q, {k})
  \/ \E q \in Janitors : StartEvict(q, Cached)
  \/ \E q \in Procs : CloserStep(q)
  \/ Tick

Spec == Init /\ [][Next]_vars

\* Drivers, SSH and the database answer or time out, so an awaited step happens.
Fairness ==
  /\ \A p \in Clients : WF_vars(GetPoolStep(p))
  /\ \A q \in Procs : WF_vars(CloserStep(q))

FairSpec == Spec /\ Fairness

-----------------------------------------------------------------------------
(* Properties *)

\* A client between the registration of its promise and its settlement.
Creating(p) == pc[p] \in {"sweeping", "ssh", "connect", "health", "failing"}

\* A creation of pool key k is registered exactly while one client runs it, and those
\* who joined await a client that still runs it: one createAndCachePool per key, and
\* no promise that nobody will settle (getPool, the poolCreations map).
SingleFlight ==
  /\ \A p \in Clients : Creating(p) => poolCreations[req[p].key] = p
  /\ \A k \in Keys : poolCreations[k] # None =>
        Creating(poolCreations[k]) /\ req[poolCreations[k]].key = k
  /\ \A p \in Clients : pc[p] = "joined" => poolCreations[req[p].key] # None

\* A cached pool is never replaced by another: whoever sets a key finds it empty, so
\* no pool is dropped from the map without a close (createAndCachePool, pools.set).
PoolsNeverReplaced ==
  [][\A k \in Keys : pools[k] # NoPool => pools'[k] \in {pools[k], NoPool}]_vars

\* An open pool is in the map, unless two closers were at its key at the same time:
\* the only way to leak a pool is the overlap of two closePoolByKey of one key.
NoOrphanPool ==
  \A h \in Pools : state[h] = "open" /\ pool[h].key \notin overlapped =>
                     pools[pool[h].key] = h

\* A cached pool that goes through a tunnel finds its own tunnel open, unless the key
\* saw two closers at once or the health write after the creation failed.
TunnelServesPool ==
  \A k \in Keys :
    LET h == pools[k] IN
    h # NoPool /\ k \notin overlapped /\ h \notin stranded /\ pool[h].via # 0 =>
      tunnels[k] = pool[h].via

\* No tunnel is left behind: one that is registered belongs to the pool cached under its
\* key or to the creation in progress there (createAndCachePool closes it on failure).
NoOrphanTunnel ==
  \A k \in Keys : tunnels[k] # 0 => pools[k] # NoPool \/ poolCreations[k] # None

\* Every getPool call that started answers: nobody awaits a promise for ever, the
\* creator that stops to clean up included.
CallsAnswered ==
  \A p \in Clients : pc[p] # "idle" ~> pc[p] \in {"idle", "using"}

\* The map of pools implements PoolCache: single flight, empty slots, fresh pools.
Cache == INSTANCE PoolCache WITH
           cache   <- pools,
           filling <- {k \in Keys : poolCreations[k] # None},
           used    <- 1..created

ImplementsPoolCache == Cache!Spec

-----------------------------------------------------------------------------
(* The inductive invariant behind them *)

\* A creation that has not stored its pool has an empty slot to store it in, and once
\* it has, nothing but a close touches the slot.
CreationOwnsSlot ==
  \A p \in Clients :
    /\ pc[p] \in {"sweeping", "ssh", "connect"} => pools[req[p].key] = NoPool
    /\ pc[p] = "health" => /\ got[p] \in 1..created
                           /\ pools[req[p].key] \in {got[p], NoPool}

\* Pools are born in order, and are cached under their own key.
PoolsAccounted ==
  /\ \A h \in Pools : h > created => state[h] = "unborn"
  /\ \A k \in Keys : pools[k] # NoPool => /\ pools[k] \in 1..created
                                          /\ pool[pools[k]].key = k

\* A closer that nobody overlaps still has its pool in the map.
ClosersAccounted ==
  \A q \in Procs : Busy(q) =>
    /\ target[q].cur \in 1..created
    /\ pool[target[q].cur].key = target[q].key
    /\ target[q].key \notin overlapped => pools[target[q].key] = target[q].cur
    /\ \A r \in Procs \ {q} : ClosingAt(r, target[q].key) => target[q].key \in overlapped

\* The tunnel a creation is about to use is the one under its key.
CreationOwnsTunnel ==
  \A p \in Clients :
    /\ pc[p] = "connect" /\ via[p] # 0 /\ req[p].key \notin overlapped =>
         tunnels[req[p].key] = via[p]
    /\ pc[p] \notin {"connect", "health", "failing"} => via[p] = 0

IInv == /\ SingleFlight /\ CreationOwnsSlot /\ PoolsAccounted /\ ClosersAccounted
        /\ NoOrphanPool /\ CreationOwnsTunnel /\ TunnelServesPool

\* When every type has a strategy, tunnels are not left behind either.
TunnelInv ==
  /\ NoOrphanTunnel
  /\ \A p \in Clients :
       /\ pc[p] \in {"sweeping", "ssh", "failing"} => tunnels[req[p].key] = 0
       /\ pc[p] = "health" /\ tunnels[req[p].key] # 0 => pools[req[p].key] # NoPool

=============================================================================
