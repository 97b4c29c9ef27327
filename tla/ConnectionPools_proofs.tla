----------------------- MODULE ConnectionPools_proofs -----------------------
(***************************************************************************)
(* Proofs about ConnectionPools, for any clients, janitors, connections,   *)
(* limits and bounds.                                                      *)
(***************************************************************************)
EXTENDS ConnectionPools, TLAPS

USE DEF NoPool

-----------------------------------------------------------------------------
(* Types *)

LEMMA NoKeyIsKey == NoKey \in Keys /\ NoKey[1] \in Conns
<1>1. \E k \in Keys : TRUE
  <2>1. PICK c \in Conns, d \in Dbs : TRUE
    BY ProcessesAssumption
  <2>2. <<c, d>> \in Keys
    BY <2>1 DEF Keys
  <2> QED
    BY <2>2
<1>2. NoKey \in Keys
  BY <1>1 DEF NoKey
<1> QED
  BY <1>2 DEF Keys

LEMMA KeyHasConn == \A k \in Keys : k[1] \in Conns
BY DEF Keys

LEMMA NoReqTyped == NoReq \in [key : Keys, ver : 0..MaxVersion]
BY NoKeyIsKey, LimitsAssumption DEF NoReq

LEMMA SettleTyped ==
  ASSUME TypeOK, NEW p \in Clients, NEW h \in 0..MaxPools, Settle(p, h)
  PROVE  /\ pc' \in [Clients -> {"idle", "fetched", "joined", "sweeping", "ssh",
                                 "connect", "health", "failing", "using"}]
         /\ req' \in [Clients -> [key : Keys, ver : 0..MaxVersion]]
         /\ via' \in [Clients -> Nat]
         /\ got' \in [Clients -> 0..MaxPools]
         /\ poolCreations' \in [Keys -> Clients \cup {None}]
BY NoReqTyped DEF Settle, TypeOK

LEMMA StartLoopTyped ==
  ASSUME TypeOK, NEW q \in Procs, NEW c \in Conns, NEW keys \in SUBSET Keys,
         NEW kind \in {"sweep", "update", "remove", "evict"}, StartLoop(q, kind, c, keys)
  PROVE  /\ job' \in [Procs -> [kind : {"none", "sweep", "trim", "update", "remove",
                                        "evict"}, conn : Conns, since : Nat]]
         /\ todo' \in [Procs -> SUBSET Keys]
         /\ phase' = phase /\ target' = target
BY DEF StartLoop, TypeOK

LEMMA StartSweepTyped ==
  ASSUME TypeOK, NEW q \in Procs, StartSweep(q)
  PROVE  /\ job' \in [Procs -> [kind : {"none", "sweep", "trim", "update", "remove",
                                        "evict"}, conn : Conns, since : Nat]]
         /\ todo' \in [Procs -> SUBSET Keys]
         /\ phase' = phase /\ target' = target
<1>1. {k \in Keys : Expired(k, now)} \in SUBSET Keys
  OBVIOUS
<1> QED
  BY <1>1, StartLoopTyped, NoKeyIsKey DEF StartSweep

\* Every step of a getPool call keeps the types.
LEMMA GetPoolTyped ==
  ASSUME TypeOK, NEW p \in Clients, GetPoolStep(p)
  PROVE  TypeOK'
<1> USE DEF cacheVars, tunnelVars, poolVars, callVars, jobVars, history
<1>1. CASE ServeCached(p)
  BY <1>1, NoReqTyped DEF ServeCached, TypeOK
<1>2. CASE JoinCreation(p)
  BY <1>2 DEF JoinCreation, TypeOK
<1>3. CASE StartCreation(p)
  <2>1. job' \in [Procs -> [kind : {"none", "sweep", "trim", "update", "remove",
                                    "evict"}, conn : Conns, since : Nat]]
        /\ todo' \in [Procs -> SUBSET Keys] /\ phase' = phase /\ target' = target
    BY <1>3, StartSweepTyped DEF StartCreation, TypeOK, Procs
  <2>2. pc' \in [Clients -> {"idle", "fetched", "joined", "sweeping", "ssh", "connect",
                             "health", "failing", "using"}]
    BY <1>3 DEF StartCreation, ConnectStage, TypeOK
  <2> QED
    BY <1>3, <2>1, <2>2 DEF StartCreation, TypeOK
<1>4. CASE CreatorSwept(p)
  BY <1>4 DEF CreatorSwept, ConnectStage, TypeOK
<1>5. CASE OpenTunnel(p)
  BY <1>5 DEF OpenTunnel, TypeOK
<1>6. CASE RejectEarly(p)
  BY <1>6, SettleTyped, LimitsAssumption DEF RejectEarly, TypeOK
<1>7. CASE StorePool(p)
  <2> DEFINE h == created + 1
             rec == [key |-> req[p].key, ver |-> req[p].ver, via |-> via[p]]
  <2>1. h \in 1..MaxPools /\ rec \in [key : Keys, ver : 0..MaxVersion, via : Nat]
    BY <1>7 DEF StorePool, TypeOK, Pools
  <2>2. pool' = [pool EXCEPT ![h] = rec]
    BY <1>7 DEF StorePool
  <2>3. pool' \in [Pools -> [key : Keys, ver : 0..MaxVersion, via : Nat]]
    BY <2>1, <2>2 DEF TypeOK
  <2> QED
    BY <1>7, <2>1, <2>3 DEF StorePool, TypeOK
<1>8. CASE CreatePoolFails(p)
  BY <1>8 DEF CreatePoolFails, TypeOK
<1>9. CASE HealthWritten(p)
  BY <1>9, SettleTyped DEF HealthWritten, TypeOK
<1>10. CASE HealthWriteFails(p)
  <2>1. tunnels' \in [Keys -> Nat] /\ pc' \in [Clients -> {"idle", "fetched", "joined",
          "sweeping", "ssh", "connect", "health", "failing", "using"}]
    BY <1>10 DEF HealthWriteFails, TypeOK
  <2>2. got' \in [Clients -> 0..MaxPools] /\ stranded' \subseteq 0..MaxPools
    <3>1. 0 \in 0..MaxPools /\ got[p] \in 0..MaxPools
      BY LimitsAssumption DEF TypeOK
    <3>2. got' = [got EXCEPT ![p] = 0] /\ stranded' = stranded \cup {got[p]}
      BY <1>10 DEF HealthWriteFails
    <3> QED
      BY <3>1, <3>2 DEF TypeOK
  <2> QED
    BY <1>10, <2>1, <2>2 DEF HealthWriteFails, TypeOK
<1>11. CASE RejectLate(p)
  BY <1>11, SettleTyped, LimitsAssumption DEF RejectLate, TypeOK
<1> QED
  BY <1>1, <1>2, <1>3, <1>4, <1>5, <1>6, <1>7, <1>8, <1>9, <1>10, <1>11 DEF GetPoolStep

\* Every step of a closing loop keeps the types.
LEMMA CloserTyped ==
  ASSUME TypeOK, NEW q \in Procs, CloserStep(q)
  PROVE  TypeOK'
<1> USE DEF cacheVars, tunnelVars, poolVars, callVars, jobVars, history
<1>1. CASE \E k \in Keys : SkipClose(q, k)
  BY <1>1 DEF SkipClose, TypeOK
<1>2. CASE \E k \in Keys : BeginClose(q, k)
  BY <1>2 DEF BeginClose, TypeOK
<1>3. CASE EndPool(q)
  BY <1>3 DEF EndPool, TypeOK
<1>4. CASE FinishClose(q)
  <2>1. NoTarget \in [key : Keys, cur : 0..MaxPools]
    BY NoKeyIsKey, LimitsAssumption DEF NoTarget
  <2>2. phase' \in [Procs -> {"pick", "lookup", "ending"}]
        /\ target' \in [Procs -> [key : Keys, cur : 0..MaxPools]]
    BY <1>4, <2>1 DEF FinishClose, TypeOK
  <2>3. state' \in [Pools -> {"unborn", "open", "closing", "closed"}]
    BY <1>4 DEF FinishClose, TypeOK
  <2>4. pools' \in [Keys -> 0..MaxPools] /\ lastAccessed' \in [Keys -> Nat]
        /\ tunnels' \in [Keys -> Nat]
    BY <1>4, LimitsAssumption DEF FinishClose, TypeOK
  <2> QED
    BY <1>4, <2>2, <2>3, <2>4 DEF FinishClose, TypeOK
<1>5. NoJob \in [kind : {"none", "sweep", "trim", "update", "remove", "evict"},
                conn : Conns, since : Nat]
  BY NoKeyIsKey DEF NoJob
<1>6. CASE StartTrim(q)
  BY <1>6, NoKeyIsKey DEF StartTrim, TypeOK
<1>7. CASE EndLoop(q)
  BY <1>5, <1>7 DEF EndLoop, EndJob, TypeOK
<1>8. CASE CommitUpdate(q)
  <2>1. row' \in [Conns -> 0..MaxVersion]
    BY <1>8, LimitsAssumption DEF CommitUpdate, TypeOK
  <2> QED
    BY <1>5, <1>8, <2>1 DEF CommitUpdate, EndJob, TypeOK
<1>9. CASE CommitRemove(q)
  <2>1. row' \in [Conns -> 0..MaxVersion]
    BY <1>9, LimitsAssumption DEF CommitRemove, TypeOK
  <2> QED
    BY <1>5, <1>9, <2>1 DEF CommitRemove, EndJob, TypeOK
<1>10. CASE ChangeFails(q)
  BY <1>5, <1>10 DEF ChangeFails, EndJob, TypeOK
<1> QED
  BY <1>1, <1>2, <1>3, <1>4, <1>6, <1>7, <1>8, <1>9, <1>10 DEF CloserStep

\* The values every variable takes (all of ConnectionsService).
THEOREM TypeCorrect == Spec => []TypeOK
<1>1. Init => TypeOK
  BY NoKeyIsKey, LimitsAssumption
  DEF Init, TypeOK, NoReq, NoJob, NoTarget
<1>2. TypeOK /\ [Next]_vars => TypeOK'
  <2> USE DEF cacheVars, tunnelVars, poolVars, callVars, jobVars, history
  <2> SUFFICES ASSUME TypeOK, [Next]_vars
               PROVE  TypeOK'
    OBVIOUS
  <2>1. ASSUME NEW p \in Clients, NEW k \in Keys, FetchConnection(p, k)
        PROVE  TypeOK'
    BY <2>1, KeyHasConn DEF FetchConnection, TypeOK
  <2>2. ASSUME NEW p \in Clients, GetPoolStep(p)
        PROVE  TypeOK'
    BY <2>2, GetPoolTyped
  <2>3. ASSUME NEW p \in Clients, DoneUsing(p)
        PROVE  TypeOK'
    BY <2>3, LimitsAssumption DEF DoneUsing, TypeOK
  <2>4. ASSUME NEW q \in Janitors, StartCleanup(q)
        PROVE  TypeOK'
    BY <2>4, StartSweepTyped DEF StartCleanup, TypeOK, Procs
  <2>5. ASSUME NEW q \in Janitors, NEW c \in Conns, NEW kind \in {"update", "remove"},
               StartChange(q, c, kind)
        PROVE  TypeOK'
    <3>1. CachedOf(c) \in SUBSET Keys
      BY DEF CachedOf, Cached
    <3> QED
      BY <2>5, <3>1, StartLoopTyped DEF StartChange, TypeOK, Procs
  <2>6. ASSUME NEW q \in Janitors, NEW keys \in SUBSET Keys, StartEvict(q, keys)
        PROVE  TypeOK'
    BY <2>6, StartLoopTyped, NoKeyIsKey DEF StartEvict, TypeOK, Procs
  <2>7. ASSUME NEW q \in Procs, CloserStep(q)
        PROVE  TypeOK'
    BY <2>7, CloserTyped
  <2>8. CASE Tick
    BY <2>8 DEF Tick, TypeOK
  <2>9. CASE UNCHANGED vars
    BY <2>9 DEF vars, TypeOK
  <2>10. Cached \in SUBSET Keys
    BY DEF Cached
  <2> QED
    BY <2>1, <2>2, <2>3, <2>4, <2>5, <2>6, <2>7, <2>8, <2>9, <2>10 DEF Next
<1> QED
  BY <1>1, <1>2, PTL DEF Spec

-----------------------------------------------------------------------------
(* What a conjunct of the invariant depends on *)

LEMMA FlightFrame ==
  ASSUME SingleFlight, UNCHANGED <<pc, req, poolCreations>>
  PROVE  SingleFlight'
BY DEF SingleFlight, Creating

LEMMA SlotFrame ==
  ASSUME CreationOwnsSlot, UNCHANGED <<pc, req, got, pools, created>>
  PROVE  CreationOwnsSlot'
BY DEF CreationOwnsSlot

LEMMA AccountFrame ==
  ASSUME PoolsAccounted, UNCHANGED <<created, pool, state, pools>>
  PROVE  PoolsAccounted'
BY DEF PoolsAccounted

LEMMA CloserFrame ==
  ASSUME ClosersAccounted, UNCHANGED <<phase, target, pool, created, pools, overlapped>>
  PROVE  ClosersAccounted'
BY DEF ClosersAccounted, Busy, ClosingAt

LEMMA OrphanFrame ==
  ASSUME NoOrphanPool, UNCHANGED <<state, pool, pools, overlapped>>
  PROVE  NoOrphanPool'
BY DEF NoOrphanPool

LEMMA CreationTunnelFrame ==
  ASSUME CreationOwnsTunnel, UNCHANGED <<pc, req, via, tunnels, overlapped>>
  PROVE  CreationOwnsTunnel'
BY DEF CreationOwnsTunnel

LEMMA ServeFrame ==
  ASSUME TunnelServesPool, UNCHANGED <<pools, pool, tunnels, overlapped, stranded>>
  PROVE  TunnelServesPool'
BY DEF TunnelServesPool

-----------------------------------------------------------------------------
(* The invariant and the steps of getPool *)

\* A settlement ends the creation of its key and everybody's wait for it.
LEMMA SettleKeeps ==
  ASSUME TypeOK, IInv, NEW p \in Clients, NEW h \in 0..MaxPools, Creating(p),
         Settle(p, h), UNCHANGED <<created, pools, tunnels, overlapped>>
  PROVE  SingleFlight' /\ CreationOwnsSlot' /\ CreationOwnsTunnel'
<1> DEFINE k == req[p].key
<1>1. k \in Keys /\ poolCreations[k] = p
  BY DEF IInv, SingleFlight, TypeOK
<1>2. \A q \in Clients : Creating(q) /\ req[q].key = k => q = p
  BY <1>1 DEF IInv, SingleFlight
<1>3. poolCreations' = [poolCreations EXCEPT ![k] = None]
  BY <1>1 DEF Settle, TypeOK
<1>4. \A q \in Clients : (pc'[q] \in {"idle", "using"} /\ via'[q] = 0) \/
          (pc'[q] = pc[q] /\ req'[q] = req[q] /\ via'[q] = via[q] /\ got'[q] = got[q])
  BY DEF Settle
<1>5. pc'[p] \in {"idle", "using"}
  BY DEF Settle
<1>6. \A q \in Clients : pc'[q] = "joined" => req[q].key # k
  BY <1>1 DEF Settle
<1>7. SingleFlight'
  <2>1. ASSUME NEW q \in Clients, Creating(q)'
        PROVE  poolCreations'[req'[q].key] = q
    <3>1. Creating(q) /\ req'[q] = req[q] /\ q # p
      BY <1>4, <1>5, <2>1 DEF Creating
    <3>2. req[q].key # k /\ req[q].key \in Keys
      BY <1>2, <3>1 DEF TypeOK
    <3> QED
      BY <1>3, <3>1, <3>2 DEF IInv, SingleFlight, TypeOK
  <2>2. ASSUME NEW x \in Keys, poolCreations'[x] # None
        PROVE  (Creating(poolCreations[x]) /\ req[poolCreations[x]].key = x)'
    <3>1. x # k /\ poolCreations'[x] = poolCreations[x]
      BY <1>1, <1>3, <2>2 DEF TypeOK
    <3>2. poolCreations[x] \in Clients /\ Creating(poolCreations[x])
          /\ req[poolCreations[x]].key = x
      BY <2>2, <3>1 DEF IInv, SingleFlight, TypeOK
    <3> DEFINE c == poolCreations[x]
    <3>3. c # p /\ pc[c] # "joined"
      BY <3>1, <3>2 DEF Creating
    <3>4. pc'[c] = pc[c] /\ req'[c] = req[c]
      BY <3>2, <3>3 DEF Settle
    <3> QED
      BY <3>1, <3>2, <3>4 DEF Creating
  <2>3. ASSUME NEW q \in Clients, pc'[q] = "joined"
        PROVE  poolCreations'[req'[q].key] # None
    <3>1. pc[q] = "joined" /\ req'[q] = req[q] /\ req[q].key # k /\ req[q].key \in Keys
      BY <1>4, <1>6, <2>3 DEF TypeOK
    <3>2. poolCreations[req[q].key] # None
      BY <3>1 DEF IInv, SingleFlight
    <3> QED
      BY <1>3, <3>1, <3>2 DEF TypeOK
  <2> QED
    BY <2>1, <2>2, <2>3 DEF SingleFlight
<1>8. CreationOwnsSlot'
  BY <1>4 DEF IInv, CreationOwnsSlot
<1>9. CreationOwnsTunnel'
  BY <1>4 DEF IInv, CreationOwnsTunnel
<1> QED
  BY <1>7, <1>8, <1>9

\* The steps that touch neither the slots nor the tunnels.
LEMMA CallKeeps ==
  ASSUME TypeOK, IInv, NEW p \in Clients,
         \/ \E k \in Keys : FetchConnection(p, k)
         \/ ServeCached(p)
         \/ JoinCreation(p)
         \/ DoneUsing(p)
  PROVE  IInv'
<1> USE DEF cacheVars, tunnelVars, poolVars, callVars, jobVars, history
<1>1. /\ pc[p] \in {"idle", "fetched", "using"}
      /\ pc'[p] \in {"idle", "fetched", "joined", "using"}
      /\ \A q \in Clients \ {p} : /\ pc'[q] = pc[q] /\ req'[q] = req[q]
                                  /\ got'[q] = got[q]
      /\ UNCHANGED <<via, poolCreations, pools, created, pool, state, tunnels, overlapped,
                     stranded, phase, target>>
  BY DEF FetchConnection, ServeCached, JoinCreation, DoneUsing, TypeOK
<1>2. pc'[p] = "joined" => poolCreations[req'[p].key] # None
  BY <1>1 DEF FetchConnection, ServeCached, JoinCreation, DoneUsing, TypeOK
<1>3. SingleFlight'
  <2>1. ~Creating(p) /\ ~Creating(p)'
    BY <1>1 DEF Creating
  <2>2. ASSUME NEW q \in Clients, Creating(q)'
        PROVE  (poolCreations[req[q].key] = q)'
    BY <1>1, <2>1, <2>2 DEF IInv, SingleFlight, Creating
  <2>3. ASSUME NEW x \in Keys, poolCreations[x] # None
        PROVE  (Creating(poolCreations[x]) /\ req[poolCreations[x]].key = x)'
    <3>1. poolCreations[x] \in Clients
      BY <2>3 DEF TypeOK
    <3>2. Creating(poolCreations[x]) /\ req[poolCreations[x]].key = x
      BY <2>3 DEF IInv, SingleFlight
    <3>3. poolCreations[x] # p
      BY <2>1, <3>2
    <3> QED
      BY <1>1, <3>1, <3>2, <3>3 DEF Creating
  <2>4. ASSUME NEW q \in Clients, pc'[q] = "joined"
        PROVE  (poolCreations[req[q].key] # None)'
    BY <1>1, <1>2, <2>4 DEF IInv, SingleFlight
  <2> QED
    BY <1>1, <2>2, <2>3, <2>4 DEF SingleFlight
<1>4. CreationOwnsSlot'
  BY <1>1 DEF IInv, CreationOwnsSlot
<1>5. CreationOwnsTunnel'
  BY <1>1 DEF IInv, CreationOwnsTunnel
<1> QED
  BY <1>1, <1>3, <1>4, <1>5, AccountFrame, CloserFrame, OrphanFrame, ServeFrame DEF IInv

LEMMA StartCreationKeeps ==
  ASSUME TypeOK, IInv, NEW p \in Clients, StartCreation(p)
  PROVE  IInv'
<1> USE DEF cacheVars, tunnelVars, poolVars, callVars, jobVars, history
<1> DEFINE k == req[p].key
<1>1. /\ pc[p] = "fetched" /\ k \in Keys
      /\ pools[k] = NoPool /\ poolCreations[k] = None
      /\ poolCreations' = [poolCreations EXCEPT ![k] = p]
      /\ pc'[p] \in {"sweeping", "ssh", "connect"}
      /\ \A q \in Clients \ {p} : pc'[q] = pc[q]
      /\ UNCHANGED <<pools, created, pool, state, tunnels, overlapped, stranded, phase,
                     target, req, via, got>>
  BY DEF StartCreation, StartSweep, StartLoop, ConnectStage, TypeOK
<1>2. SingleFlight'
  <2>1. \A q \in Clients \ {p} : Creating(q) => req[q].key # k
    BY <1>1, ProcessesAssumption DEF IInv, SingleFlight
  <2>2. \A x \in Keys \ {k} : poolCreations[x] # None => poolCreations[x] \in Clients \ {p}
    BY <1>1 DEF IInv, SingleFlight, Creating, TypeOK
  <2>3. p # None
    BY ProcessesAssumption
  <2> QED
    BY <1>1, <2>1, <2>2, <2>3 DEF IInv, SingleFlight, Creating, TypeOK
<1>3. CreationOwnsSlot'
  BY <1>1 DEF IInv, CreationOwnsSlot
<1>4. CreationOwnsTunnel'
  <2>1. via[p] = 0
    BY <1>1 DEF IInv, CreationOwnsTunnel
  <2> QED
    BY <1>1, <2>1 DEF IInv, CreationOwnsTunnel
<1> QED
  BY <1>1, <1>2, <1>3, <1>4, AccountFrame, CloserFrame, OrphanFrame, ServeFrame DEF IInv

\* One creation per key, in the form the steps below use it.
LEMMA OneCreator ==
  ASSUME SingleFlight, NEW p \in Clients, NEW q \in Clients, Creating(p), Creating(q),
         req[p].key = req[q].key
  PROVE  p = q
BY DEF SingleFlight

\* A creation that goes on to its next stage stays the one of its key.
LEMMA StageFlight ==
  ASSUME TypeOK, SingleFlight, NEW p \in Clients, Creating(p),
         NEW stage \in {"sweeping", "ssh", "connect", "health", "failing"},
         pc' = [pc EXCEPT ![p] = stage], UNCHANGED <<req, poolCreations>>
  PROVE  SingleFlight'
<1>1. \A q \in Clients : Creating(q)' <=> Creating(q)
  BY DEF Creating, TypeOK
<1>2. \A q \in Clients : pc'[q] = "joined" => pc[q] = "joined"
  BY DEF TypeOK
<1>3. ASSUME NEW k \in Keys, poolCreations[k] # None
      PROVE  (Creating(poolCreations[k]) /\ req[poolCreations[k]].key = k)'
  <2>1. poolCreations[k] \in Clients
    BY <1>3 DEF TypeOK
  <2>2. Creating(poolCreations[k]) /\ req[poolCreations[k]].key = k
    BY <1>3 DEF SingleFlight
  <2>3. Creating(poolCreations[k])'
    <3> DEFINE c == poolCreations[k]
    <3>1. Creating(c)'
      BY <1>1, <2>1, <2>2
    <3> QED
      BY <3>1 DEF Creating
  <2> QED
    BY <2>2, <2>3
<1> QED
  BY <1>1, <1>2, <1>3 DEF SingleFlight

LEMMA TunnelStepsKeep ==
  ASSUME TypeOK, IInv, NEW p \in Clients, CreatorSwept(p) \/ OpenTunnel(p)
  PROVE  IInv'
<1> USE DEF cacheVars, tunnelVars, poolVars, callVars, jobVars, history
<1> DEFINE k == req[p].key
<1>1. PICK stage \in {"ssh", "connect"} : pc' = [pc EXCEPT ![p] = stage]
  BY DEF CreatorSwept, OpenTunnel, ConnectStage
<1>2. /\ pc[p] \in {"sweeping", "ssh"} /\ k \in Keys /\ Creating(p)
      /\ \A q \in Clients \ {p} : via'[q] = via[q]
      /\ \A x \in Keys \ {k} : tunnels'[x] = tunnels[x]
      /\ tunnels[k] # 0 => tunnels'[k] = tunnels[k]
      /\ via'[p] # 0 => tunnels'[k] = via'[p]
      /\ pc'[p] = "ssh" => via'[p] = via[p]
      /\ UNCHANGED <<poolCreations, pools, created, pool, state, overlapped, stranded,
                     phase, target, req, got>>
  <2>1. CASE CreatorSwept(p)
    BY <2>1 DEF CreatorSwept, TypeOK, Creating, IInv, CreationOwnsTunnel
  <2>2. CASE OpenTunnel(p)
    BY <2>2, <1>1 DEF OpenTunnel, TypeOK, Creating
  <2> QED
    BY <2>1, <2>2
<1>3. SingleFlight'
  BY <1>1, <1>2, StageFlight DEF IInv
<1>4. CreationOwnsSlot'
  BY <1>1, <1>2 DEF IInv, CreationOwnsSlot, TypeOK
<1>5. CreationOwnsTunnel'
  <2>1. ASSUME NEW q \in Clients, pc'[q] = "connect", via'[q] # 0,
               req[q].key \notin overlapped
        PROVE  tunnels'[req[q].key] = via'[q]
    <3>1. CASE q = p
      BY <1>2, <2>1, <3>1
    <3>2. CASE q # p
      <4>1. pc[q] = "connect" /\ via'[q] = via[q] /\ req[q].key \in Keys
        BY <1>1, <1>2, <2>1, <3>2 DEF TypeOK
      <4>2. req[q].key # k
        BY <1>2, <3>2, <4>1, OneCreator DEF Creating, IInv
      <4> QED
        BY <1>2, <2>1, <4>1, <4>2 DEF IInv, CreationOwnsTunnel
    <3> QED
      BY <3>1, <3>2
  <2>2. ASSUME NEW q \in Clients, pc'[q] \notin {"connect", "health", "failing"}
        PROVE  via'[q] = 0
    BY <1>1, <1>2, <2>2 DEF IInv, CreationOwnsTunnel, TypeOK
  <2> QED
    BY <1>2, <2>1, <2>2 DEF CreationOwnsTunnel
<1>6. TunnelServesPool'
  <2>1. \A x \in Keys : tunnels[x] # 0 => tunnels'[x] = tunnels[x]
    BY <1>2
  <2>2. \A x \in Keys : pools[x] # NoPool => pool[pools[x]].via \in Nat
    BY DEF TypeOK, Pools
  <2> QED
    BY <1>2, <2>1, <2>2 DEF IInv, TunnelServesPool
<1> QED
  BY <1>2, <1>3, <1>4, <1>5, <1>6, AccountFrame, CloserFrame, OrphanFrame DEF IInv

\* The steps that settle the promise.
LEMMA SettleStepsKeep ==
  ASSUME TypeOK, IInv, NEW p \in Clients,
         RejectEarly(p) \/ HealthWritten(p) \/ RejectLate(p)
  PROVE  IInv'
<1> USE DEF cacheVars, tunnelVars, poolVars, callVars, jobVars, history
<1>1. PICK h \in 0..MaxPools : Settle(p, h)
  BY LimitsAssumption DEF RejectEarly, HealthWritten, RejectLate, TypeOK
<1>2. Creating(p)
  BY DEF RejectEarly, HealthWritten, RejectLate, Creating
<1>3. UNCHANGED <<pools, created, pool, state, tunnels, overlapped, stranded, phase, target>>
  BY DEF RejectEarly, HealthWritten, RejectLate
<1>4. SingleFlight' /\ CreationOwnsSlot' /\ CreationOwnsTunnel'
  BY <1>1, <1>2, <1>3, SettleKeeps
<1> QED
  BY <1>3, <1>4, AccountFrame, CloserFrame, OrphanFrame, ServeFrame DEF IInv

LEMMA StorePoolKeeps ==
  ASSUME TypeOK, IInv, NEW p \in Clients, StorePool(p)
  PROVE  IInv'
<1> USE DEF cacheVars, tunnelVars, poolVars, callVars, jobVars, history
<1> DEFINE k == req[p].key
           h == created + 1
<1>1. /\ pc[p] = "connect" /\ k \in Keys /\ Creating(p) /\ h \in Pools /\ h # NoPool
      /\ created \in Nat /\ created' = h /\ pools[k] = NoPool
      /\ pools' = [pools EXCEPT ![k] = h]
      /\ state' = [state EXCEPT ![h] = "open"]
      /\ pc' = [pc EXCEPT ![p] = "health"]
      /\ got' = [got EXCEPT ![p] = h]
      /\ UNCHANGED <<poolCreations, tunnels, overlapped, stranded, phase, target, req, via>>
  BY LimitsAssumption
  DEF StorePool, TypeOK, Creating, Pools, IInv, CreationOwnsSlot
<1>2. /\ pool'[h] = [key |-> k, ver |-> req[p].ver, via |-> via[p]]
      /\ \A x \in Pools \ {h} : pool'[x] = pool[x] /\ state'[x] = state[x]
      /\ state'[h] = "open"
  BY <1>1 DEF StorePool, TypeOK
<1>3. SingleFlight'
  BY <1>1, StageFlight DEF IInv
<1>4. CreationOwnsSlot'
  <2>1. ASSUME NEW q \in Clients \ {p}, Creating(q)
        PROVE  /\ pc'[q] = pc[q] /\ got'[q] = got[q]
               /\ pools'[req[q].key] = pools[req[q].key]
    <3>1. req[q].key # k
      BY <1>1, <2>1, OneCreator DEF IInv
    <3> QED
      BY <1>1, <3>1 DEF TypeOK
  <2>2. \A q \in Clients \ {p} : pc'[q] = pc[q]
    BY <1>1 DEF TypeOK
  <2>3. pc'[p] = "health" /\ got'[p] = h /\ pools'[k] = h
    BY <1>1 DEF TypeOK
  <2> QED
    BY <1>1, <2>1, <2>2, <2>3 DEF IInv, CreationOwnsSlot, Creating
<1>5. PoolsAccounted'
  BY <1>1, <1>2 DEF IInv, PoolsAccounted, TypeOK, Pools
<1>6. ClosersAccounted'
  <2>1. ASSUME NEW q \in Procs, Busy(q)
        PROVE  /\ target[q].cur \in 1..created'
               /\ pool'[target[q].cur].key = target[q].key
               /\ target[q].key \notin overlapped => pools'[target[q].key] = target[q].cur
    <3>1. target[q].cur \in 1..created /\ pool[target[q].cur].key = target[q].key
      BY <2>1 DEF IInv, ClosersAccounted
    <3>2. target[q].key \notin overlapped => /\ pools[target[q].key] = target[q].cur
                                             /\ target[q].key # k
      BY <1>1, <2>1, <3>1 DEF IInv, ClosersAccounted
    <3>3. target[q].key \in Keys
      BY DEF TypeOK
    <3>4. target[q].cur \in Pools \ {h} /\ target[q].cur \in 1..h
      BY <1>1, <3>1 DEF Pools, TypeOK
    <3>5. pools'[target[q].key] = IF target[q].key = k THEN h ELSE pools[target[q].key]
      BY <1>1, <3>3 DEF TypeOK
    <3> QED
      BY <1>1, <1>2, <3>1, <3>2, <3>4, <3>5
  <2> QED
    BY <1>1, <2>1 DEF IInv, ClosersAccounted, Busy, ClosingAt
<1>7. NoOrphanPool'
  <2>1. ASSUME NEW x \in Pools, state'[x] = "open", pool'[x].key \notin overlapped
        PROVE  pools'[pool'[x].key] = x
    <3>1. CASE x = h
      BY <1>1, <1>2, <3>1 DEF TypeOK
    <3>2. CASE x # h
      <4>0. x # NoPool /\ pool[x].key \in Keys /\ pool'[x] = pool[x] /\ state[x] = "open"
        <5>1. x # NoPool
          BY LimitsAssumption DEF Pools
        <5>2. pool[x].key \in Keys
          BY DEF TypeOK
        <5>3. pool'[x] = pool[x] /\ state'[x] = state[x]
          BY <1>2, <3>2
        <5> QED
          BY <2>1, <5>1, <5>2, <5>3
      <4>1. pools[pool[x].key] = x /\ x # NoPool /\ pool[x].key \in Keys
        BY <2>1, <4>0 DEF IInv, NoOrphanPool
      <4> QED
        BY <1>1, <1>2, <3>2, <4>1 DEF TypeOK
    <3> QED
      BY <3>1, <3>2
  <2> QED
    BY <1>1, <2>1 DEF NoOrphanPool
<1>8. CreationOwnsTunnel'
  BY <1>1 DEF IInv, CreationOwnsTunnel, TypeOK
<1>9. TunnelServesPool'
  <2>1. ASSUME NEW x \in Keys, pools'[x] # NoPool, x \notin overlapped,
               pools'[x] \notin stranded, pool'[pools'[x]].via # 0
        PROVE  tunnels[x] = pool'[pools'[x]].via
    <3>1. CASE x = k
      BY <1>1, <1>2, <2>1, <3>1 DEF IInv, CreationOwnsTunnel, TypeOK
    <3>2. CASE x # k
      <4>1. pools'[x] = pools[x]
        BY <1>1, <3>2 DEF TypeOK
      <4>2. pools[x] \in 1..created
        BY <2>1, <4>1 DEF IInv, PoolsAccounted
      <4>3. pool'[pools[x]] = pool[pools[x]]
        BY <1>1, <1>2, <4>2 DEF Pools, TypeOK
      <4> QED
        BY <2>1, <4>1, <4>3 DEF IInv, TunnelServesPool
    <3> QED
      BY <3>1, <3>2
  <2> QED
    BY <1>1, <2>1 DEF TunnelServesPool
<1> QED
  BY <1>3, <1>4, <1>5, <1>6, <1>7, <1>8, <1>9 DEF IInv

\* The two ways into the catch.
LEMMA FailuresKeep ==
  ASSUME TypeOK, IInv, NEW p \in Clients, CreatePoolFails(p) \/ HealthWriteFails(p)
  PROVE  IInv'
<1> USE DEF cacheVars, tunnelVars, poolVars, callVars, jobVars, history
<1> DEFINE k == req[p].key
<1>1. /\ pc[p] \in {"connect", "health"} /\ k \in Keys /\ Creating(p)
      /\ pc' = [pc EXCEPT ![p] = "failing"]
      /\ tunnels' = [tunnels EXCEPT ![k] = 0]
      /\ \A q \in Clients \ {p} : got'[q] = got[q]
      /\ stranded \subseteq stranded'
      /\ pools[k] \in stranded' \cup {NoPool}
      /\ UNCHANGED <<poolCreations, pools, created, pool, state, overlapped, phase,
                     target, req, via>>
  BY DEF CreatePoolFails, HealthWriteFails, TypeOK, Creating, IInv, CreationOwnsSlot
<1>2. SingleFlight'
  BY <1>1, StageFlight DEF IInv
<1>3. CreationOwnsSlot'
  BY <1>1 DEF IInv, CreationOwnsSlot, TypeOK
<1>4. CreationOwnsTunnel'
  <2>1. ASSUME NEW q \in Clients \ {p}, pc[q] = "connect"
        PROVE  tunnels'[req[q].key] = tunnels[req[q].key]
    <3>1. req[q].key # k
      BY <1>1, <2>1, OneCreator DEF Creating, IInv
    <3> QED
      BY <1>1, <3>1 DEF TypeOK
  <2> QED
    BY <1>1, <2>1 DEF IInv, CreationOwnsTunnel, TypeOK
<1>5. TunnelServesPool'
  <2>1. ASSUME NEW x \in Keys, pools[x] # NoPool, pools[x] \notin stranded'
        PROVE  tunnels'[x] = tunnels[x]
    BY <1>1, <2>1 DEF TypeOK
  <2> QED
    BY <1>1, <2>1 DEF IInv, TunnelServesPool
<1> QED
  BY <1>1, <1>2, <1>3, <1>4, <1>5, AccountFrame, CloserFrame, OrphanFrame DEF IInv

-----------------------------------------------------------------------------
(* The invariant and the closing loops *)

LEMMA BeginCloseKeeps ==
  ASSUME TypeOK, IInv, NEW q \in Procs, NEW k \in Keys, BeginClose(q, k)
  PROVE  IInv'
<1> USE DEF cacheVars, tunnelVars, poolVars, callVars, jobVars, history
<1>1. /\ ~Busy(q) /\ pools[k] # NoPool
      /\ phase' = [phase EXCEPT ![q] = "lookup"]
      /\ target' = [target EXCEPT ![q] = [key |-> k, cur |-> pools[k]]]
      /\ overlapped' = overlapped \cup {x \in {k} : \E r \in Procs : ClosingAt(r, x)}
      /\ UNCHANGED <<pc, req, via, got, poolCreations, pools, created, pool, state,
                     tunnels, stranded>>
  BY DEF BeginClose, Closable, Expired
<1>2. ClosersAccounted'
  <2>1. ASSUME NEW r \in Procs, Busy(r)'
        PROVE  /\ target'[r].cur \in 1..created
               /\ pool[target'[r].cur].key = target'[r].key
               /\ target'[r].key \notin overlapped' =>
                    pools[target'[r].key] = target'[r].cur
    <3>1. CASE r = q
      BY <1>1, <3>1 DEF IInv, PoolsAccounted, TypeOK
    <3>2. CASE r # q
      <4>1. Busy(r) /\ target'[r] = target[r]
        BY <1>1, <2>1, <3>2 DEF Busy, TypeOK
      <4> QED
        BY <1>1, <4>1 DEF IInv, ClosersAccounted
    <3> QED
      BY <3>1, <3>2
  <2>2. ASSUME NEW r \in Procs, NEW s \in Procs \ {r}, Busy(r)', Busy(s)',
               target'[s].key = target'[r].key
        PROVE  target'[r].key \in overlapped'
    <3>1. CASE r = q
      <4>0. s # q /\ target'[q].key = k
        BY <1>1, <2>2, <3>1 DEF TypeOK
      <4>1. ClosingAt(s, k)
        BY <1>1, <2>2, <3>1, <4>0 DEF Busy, ClosingAt, TypeOK
      <4> QED
        BY <1>1, <3>1, <4>1 DEF TypeOK
    <3>2. CASE s = q
      <4>1. ClosingAt(r, k)
        BY <1>1, <2>2, <3>2 DEF Busy, ClosingAt, TypeOK
      <4>2. target'[r].key = k
        BY <1>1, <2>2, <3>2 DEF TypeOK
      <4> QED
        BY <1>1, <4>1, <4>2
    <3>3. CASE r # q /\ s # q
      <4>1. Busy(r) /\ ClosingAt(s, target[r].key) /\ target'[r].key = target[r].key
        BY <1>1, <2>2, <3>3 DEF Busy, ClosingAt, TypeOK
      <4> QED
        BY <1>1, <4>1 DEF IInv, ClosersAccounted
    <3> QED
      BY <3>1, <3>2, <3>3
  <2> QED
    BY <1>1, <2>1, <2>2 DEF ClosersAccounted, ClosingAt
<1>3. NoOrphanPool' /\ CreationOwnsTunnel' /\ TunnelServesPool'
  BY <1>1 DEF IInv, NoOrphanPool, CreationOwnsTunnel, TunnelServesPool
<1> QED
  BY <1>1, <1>2, <1>3, FlightFrame, SlotFrame, AccountFrame DEF IInv

LEMMA EndPoolKeeps ==
  ASSUME TypeOK, IInv, NEW q \in Procs, EndPool(q)
  PROVE  IInv'
<1> USE DEF cacheVars, tunnelVars, poolVars, callVars, jobVars, history
<1>1. /\ phase[q] = "lookup" /\ phase' = [phase EXCEPT ![q] = "ending"]
      /\ state' = [state EXCEPT ![target[q].cur] = IF @ = "open" THEN "closing" ELSE @]
      /\ UNCHANGED <<pc, req, via, got, poolCreations, pools, created, pool, target,
                     tunnels, overlapped, stranded>>
  BY DEF EndPool
<1>2. \A r \in Procs : Busy(r)' <=> Busy(r)
  BY <1>1 DEF Busy, TypeOK
<1>3. ClosersAccounted'
  BY <1>1, <1>2 DEF IInv, ClosersAccounted, ClosingAt
<1>4. PoolsAccounted' /\ NoOrphanPool'
  BY <1>1 DEF IInv, PoolsAccounted, NoOrphanPool, TypeOK
<1> QED
  BY <1>1, <1>3, <1>4, FlightFrame, SlotFrame, CreationTunnelFrame, ServeFrame DEF IInv

LEMMA FinishCloseKeeps ==
  ASSUME TypeOK, IInv, NEW q \in Procs, FinishClose(q)
  PROVE  IInv'
<1> USE DEF cacheVars, tunnelVars, poolVars, callVars, jobVars, history
<1> DEFINE k == target[q].key
           h == target[q].cur
<1>1. /\ phase[q] = "ending" /\ phase' = [phase EXCEPT ![q] = "pick"] /\ Busy(q)
      /\ k \in Keys
      /\ target' = [target EXCEPT ![q] = NoTarget]
      /\ state' = [state EXCEPT ![h] = "closed"]
      /\ pools' = [pools EXCEPT ![k] = NoPool]
      /\ tunnels' = [tunnels EXCEPT ![k] = 0]
      /\ UNCHANGED <<pc, req, via, got, poolCreations, created, pool, overlapped, stranded>>
  BY DEF FinishClose, Busy, TypeOK
<1>2. /\ h \in 1..created /\ pool[h].key = k
      /\ k \notin overlapped => /\ pools[k] = h
                                /\ \A r \in Procs \ {q} : ~ClosingAt(r, k)
  BY <1>1 DEF IInv, ClosersAccounted
<1>3. CreationOwnsSlot'
  BY <1>1 DEF IInv, CreationOwnsSlot, TypeOK
<1>4. PoolsAccounted'
  BY <1>1, <1>2 DEF IInv, PoolsAccounted, TypeOK
<1>5. ClosersAccounted'
  <2>1. ASSUME NEW r \in Procs, Busy(r)'
        PROVE  /\ r # q /\ Busy(r) /\ target'[r] = target[r]
               /\ target[r].key \notin overlapped => pools'[target[r].key] = pools[target[r].key]
    <3>1. r # q /\ Busy(r) /\ target'[r] = target[r]
      BY <1>1, <2>1 DEF Busy, TypeOK
    <3>2. target[r].key = k => k \in overlapped
      BY <1>2, <3>1 DEF ClosingAt
    <3> QED
      BY <1>1, <3>1, <3>2 DEF TypeOK
  <2>2. \A r, s \in Procs : Busy(r)' /\ ClosingAt(s, target[r].key)' =>
                              ClosingAt(s, target[r].key)
    BY <1>1, <2>1 DEF ClosingAt
  <2> QED
    BY <1>1, <2>1, <2>2 DEF IInv, ClosersAccounted, ClosingAt
<1>6. NoOrphanPool'
  <2>1. ASSUME NEW x \in Pools, state'[x] = "open", pool[x].key \notin overlapped
        PROVE  pools'[pool[x].key] = x
    <3>1. state[x] = "open" /\ x # h
      BY <1>1, <2>1 DEF TypeOK
    <3>2. pools[pool[x].key] = x
      BY <2>1, <3>1 DEF IInv, NoOrphanPool
    <3>3. pool[x].key # k
      BY <1>2, <2>1, <3>1, <3>2
    <3> QED
      BY <1>1, <3>2, <3>3 DEF TypeOK
  <2> QED
    BY <1>1, <2>1 DEF NoOrphanPool
<1>7. CreationOwnsTunnel'
  <2>1. ASSUME NEW p \in Clients, pc[p] = "connect", req[p].key \notin overlapped
        PROVE  tunnels'[req[p].key] = tunnels[req[p].key]
    <3>1. pools[req[p].key] = NoPool
      BY <2>1 DEF IInv, CreationOwnsSlot
    <3>2. req[p].key # k
      BY <1>2, <2>1, <3>1
    <3> QED
      BY <1>1, <3>2 DEF TypeOK
  <2> QED
    BY <1>1, <2>1 DEF IInv, CreationOwnsTunnel
<1>8. TunnelServesPool'
  BY <1>1 DEF IInv, TunnelServesPool, TypeOK
<1> QED
  BY <1>1, <1>3, <1>4, <1>5, <1>6, <1>7, <1>8, FlightFrame DEF IInv

\* The other steps leave everything the invariant speaks of alone.
LEMMA LoopFrame ==
  ASSUME IInv, UNCHANGED <<pc, req, via, got, poolCreations, pools, created, pool, state,
                           tunnels, overlapped, stranded, phase, target>>
  PROVE  IInv'
BY FlightFrame, SlotFrame, AccountFrame, CloserFrame, OrphanFrame, CreationTunnelFrame,
   ServeFrame DEF IInv

-----------------------------------------------------------------------------
(* The theorems *)

LEMMA GetPoolKeeps ==
  ASSUME TypeOK, IInv, NEW p \in Clients, GetPoolStep(p)
  PROVE  IInv'
BY CallKeeps, StartCreationKeeps, TunnelStepsKeep, SettleStepsKeep, StorePoolKeeps,
   FailuresKeep DEF GetPoolStep

LEMMA CloserKeeps ==
  ASSUME TypeOK, IInv, NEW q \in Procs, CloserStep(q)
  PROVE  IInv'
<1> USE DEF cacheVars, tunnelVars, poolVars, callVars, jobVars, history
<1>1. CASE \E k \in Keys : SkipClose(q, k)
  BY <1>1, LoopFrame DEF SkipClose
<1>2. CASE \E k \in Keys : BeginClose(q, k)
  BY <1>2, BeginCloseKeeps
<1>3. CASE EndPool(q)
  BY <1>3, EndPoolKeeps
<1>4. CASE FinishClose(q)
  BY <1>4, FinishCloseKeeps
<1>5. CASE StartTrim(q)
  BY <1>5, LoopFrame DEF StartTrim
<1>6. CASE EndLoop(q) \/ CommitUpdate(q) \/ CommitRemove(q) \/ ChangeFails(q)
  BY <1>6, LoopFrame DEF EndLoop, CommitUpdate, CommitRemove, ChangeFails, EndJob
<1> QED
  BY <1>1, <1>2, <1>3, <1>4, <1>5, <1>6 DEF CloserStep

LEMMA InitIInv == Init => IInv
BY ProcessesAssumption
DEF Init, IInv, SingleFlight, Creating, CreationOwnsSlot, PoolsAccounted, ClosersAccounted,
    Busy, NoOrphanPool, CreationOwnsTunnel, TunnelServesPool

LEMMA NextIInv == TypeOK /\ IInv /\ [Next]_vars => IInv'
<1> USE DEF cacheVars, tunnelVars, poolVars, callVars, jobVars, history
<1> SUFFICES ASSUME TypeOK, IInv, [Next]_vars
             PROVE  IInv'
  OBVIOUS
<1>1. ASSUME NEW p \in Clients, NEW k \in Keys, FetchConnection(p, k)
      PROVE  IInv'
  BY <1>1, CallKeeps
<1>2. ASSUME NEW p \in Clients, GetPoolStep(p)
      PROVE  IInv'
  BY <1>2, GetPoolKeeps
<1>3. ASSUME NEW p \in Clients, DoneUsing(p)
      PROVE  IInv'
  BY <1>3, CallKeeps
<1>4. ASSUME NEW q \in Janitors, StartCleanup(q)
      PROVE  IInv'
  BY <1>4, LoopFrame DEF StartCleanup, StartSweep, StartLoop
<1>5. ASSUME NEW q \in Janitors, NEW c \in Conns, NEW kind \in {"update", "remove"},
             StartChange(q, c, kind)
      PROVE  IInv'
  BY <1>5, LoopFrame DEF StartChange, StartLoop
<1>6. ASSUME NEW q \in Janitors, NEW keys, StartEvict(q, keys)
      PROVE  IInv'
  BY <1>6, LoopFrame DEF StartEvict, StartLoop
<1>7. ASSUME NEW q \in Procs, CloserStep(q)
      PROVE  IInv'
  BY <1>7, CloserKeeps
<1>8. CASE Tick
  BY <1>8, LoopFrame DEF Tick
<1>9. CASE UNCHANGED vars
  BY <1>9, LoopFrame DEF vars
<1> QED
  BY <1>1, <1>2, <1>3, <1>4, <1>5, <1>6, <1>7, <1>8, <1>9 DEF Next

\* The inductive invariant: creations own their slot, closers know their pool, and what
\* they share is consistent (createAndCachePool and closePoolByKey).
THEOREM Invariance == Spec => []IInv
<1>1. Init => IInv
  BY InitIInv
<1>2. TypeOK /\ IInv /\ [Next]_vars => IInv'
  BY NextIInv
<1> QED
  BY <1>1, <1>2, TypeCorrect, PTL DEF Spec

\* One createAndCachePool per key, and no waiter without a creator (getPool).
THEOREM OneFlightPerKey == Spec => []SingleFlight
<1>1. IInv => SingleFlight
  BY DEF IInv
<1> QED
  BY <1>1, Invariance, PTL

\* A pool leaks only where two closePoolByKey of one key overlapped.
THEOREM NoPoolLeaksUnlessOverlapped == Spec => []NoOrphanPool
<1>1. IInv => NoOrphanPool
  BY DEF IInv
<1> QED
  BY <1>1, Invariance, PTL

\* A cached pool keeps its tunnel but for overlapping closers and failed health writes.
THEOREM CachedPoolKeepsTunnel == Spec => []TunnelServesPool
<1>1. IInv => TunnelServesPool
  BY DEF IInv
<1> QED
  BY <1>1, Invariance, PTL

-----------------------------------------------------------------------------
(* Tunnels: one under a key belongs to the pool cached there or to the     *)
(* creation in progress there, if every connection type has a strategy.    *)

LEMMA TunnelFrame ==
  ASSUME TunnelInv, UNCHANGED <<tunnels, pools, poolCreations, pc, req>>
  PROVE  TunnelInv'
BY DEF TunnelInv, NoOrphanTunnel

\* A step of client p alone, which keeps the maps.
LEMMA StageKeepsTunnel ==
  ASSUME TypeOK, TunnelInv, NEW p \in Clients,
         NEW stage, pc' = [pc EXCEPT ![p] = stage],
         stage \in {"joined", "using", "fetched", "idle", "connect"}
           \/ (pc[p] = "sweeping" /\ stage = "ssh"),
         \A q \in Clients \ {p} : req'[q] = req[q],
         stage = "ssh" => req'[p] = req[p],
         UNCHANGED <<tunnels, pools, poolCreations>>
  PROVE  TunnelInv'
<1>1. NoOrphanTunnel'
  BY DEF TunnelInv, NoOrphanTunnel
<1> QED
  BY <1>1 DEF TunnelInv, TypeOK

LEMMA StartKeepsTunnel ==
  ASSUME TypeOK, TunnelInv, NEW p \in Clients, StartCreation(p)
  PROVE  TunnelInv'
<1> USE DEF tunnelVars
<1>1. PICK k \in Keys : k = req[p].key
  BY DEF TypeOK
<1>2. tunnels[k] = 0
  BY <1>1 DEF StartCreation, TunnelInv, NoOrphanTunnel
<1>3. /\ poolCreations' = [poolCreations EXCEPT ![k] = p]
      /\ UNCHANGED <<tunnels, pools, req>>
      /\ \E stage \in {"sweeping", "ssh", "connect"} : pc' = [pc EXCEPT ![p] = stage]
  BY <1>1 DEF StartCreation, ConnectStage
<1>4. NoOrphanTunnel'
  BY <1>2, <1>3 DEF TunnelInv, NoOrphanTunnel, TypeOK
<1> QED
  BY <1>1, <1>2, <1>3, <1>4 DEF TunnelInv, TypeOK

\* The creations of other keys do not see what happens to this one's.
LEMMA OthersElsewhere ==
  ASSUME TypeOK, SingleFlight, NEW p \in Clients, Creating(p), NEW q \in Clients \ {p},
         Creating(q)
  PROVE  req[q].key # req[p].key
BY OneCreator

LEMMA OpenKeepsTunnel ==
  ASSUME TypeOK, IInv, TunnelInv, NEW p \in Clients, OpenTunnel(p)
  PROVE  TunnelInv'
<1>1. PICK k \in Keys : k = req[p].key
  BY DEF TypeOK
<1>2. /\ Creating(p) /\ poolCreations[k] = p
      /\ \A x \in Keys \ {k} : tunnels'[x] = tunnels[x]
      /\ UNCHANGED <<pools, poolCreations, req>>
      /\ pc' = [pc EXCEPT ![p] = "connect"]
  BY <1>1 DEF OpenTunnel, TypeOK, cacheVars, Creating, IInv, SingleFlight
<1>3. NoOrphanTunnel'
  BY <1>2, ProcessesAssumption DEF TunnelInv, NoOrphanTunnel
<1>4. ASSUME NEW q \in Clients \ {p}, Creating(q)
      PROVE  tunnels'[req[q].key] = tunnels[req[q].key]
  BY <1>1, <1>2, <1>4, OthersElsewhere DEF IInv, TypeOK
<1> QED
  BY <1>2, <1>3, <1>4 DEF TunnelInv, TypeOK, Creating

LEMMA StoreKeepsTunnel ==
  ASSUME TypeOK, IInv, TunnelInv, NEW p \in Clients, StorePool(p)
  PROVE  TunnelInv'
<1>1. PICK k \in Keys : k = req[p].key
  BY DEF TypeOK
<1>2. /\ pools' = [pools EXCEPT ![k] = created + 1] /\ created + 1 # NoPool
      /\ UNCHANGED <<tunnels, poolCreations, req>>
      /\ pc' = [pc EXCEPT ![p] = "health"]
  BY <1>1, LimitsAssumption DEF StorePool, TypeOK, tunnelVars, NoPool
<1>3. \A x \in Keys : pools[x] # NoPool => pools'[x] # NoPool
  BY <1>2 DEF TypeOK
<1>4. pools'[req[p].key] # NoPool
  BY <1>1, <1>2 DEF TypeOK
<1>5. NoOrphanTunnel'
  BY <1>2, <1>3 DEF TunnelInv, NoOrphanTunnel
<1> QED
  BY <1>2, <1>3, <1>4, <1>5 DEF TunnelInv, TypeOK

\* The catch of createAndCachePool closes the tunnel.
LEMMA CatchKeepsTunnel ==
  ASSUME TypeOK, TunnelInv, NEW p \in Clients, CreatePoolFails(p) \/ HealthWriteFails(p)
  PROVE  TunnelInv'
<1>1. PICK k \in Keys : k = req[p].key
  BY DEF TypeOK
<1>2. /\ tunnels' = [tunnels EXCEPT ![k] = 0]
      /\ UNCHANGED <<pools, poolCreations, req>>
      /\ pc' = [pc EXCEPT ![p] = "failing"]
  BY <1>1 DEF CreatePoolFails, HealthWriteFails, cacheVars
<1>3. \A x \in Keys : tunnels'[x] # 0 => tunnels'[x] = tunnels[x]
  BY <1>2 DEF TypeOK
<1>4. tunnels'[req[p].key] = 0
  BY <1>1, <1>2 DEF TypeOK
<1>5. NoOrphanTunnel'
  BY <1>2, <1>3 DEF TunnelInv, NoOrphanTunnel
<1>6. \A q \in Clients : req[q].key \in Keys
  BY DEF TypeOK
<1> QED
  BY <1>2, <1>3, <1>4, <1>5, <1>6 DEF TunnelInv, TypeOK

\* A settlement leaves a tunnel only to a cached pool.
LEMMA SettleKeepsTunnel ==
  ASSUME TypeOK, IInv, TunnelInv, MockConns = {}, NEW p \in Clients,
         RejectEarly(p) \/ HealthWritten(p) \/ RejectLate(p)
  PROVE  TunnelInv'
<1>1. PICK k \in Keys : k = req[p].key
  BY DEF TypeOK
<1>2. /\ Creating(p) /\ UNCHANGED <<tunnels, pools>>
      /\ tunnels[k] # 0 => pools[k] # NoPool
  BY <1>1 DEF RejectEarly, HealthWritten, RejectLate, Creating, TunnelInv, tunnelVars
<1>3. PICK h : Settle(p, h)
  BY DEF RejectEarly, HealthWritten, RejectLate
<1>4. \A x \in Keys \ {k} : poolCreations'[x] = poolCreations[x]
  BY <1>1, <1>3 DEF Settle, TypeOK
<1>5. NoOrphanTunnel'
  BY <1>2, <1>4 DEF TunnelInv, NoOrphanTunnel
<1>6. ASSUME NEW q \in Clients, pc'[q] \notin {"idle", "using"}
      PROVE  pc'[q] = pc[q] /\ req'[q] = req[q]
  BY <1>3, <1>6 DEF Settle, TypeOK
<1> QED
  BY <1>2, <1>5, <1>6 DEF TunnelInv

\* closePoolByKey closes the tunnel with the pool.
LEMMA CloseKeepsTunnel ==
  ASSUME TypeOK, TunnelInv, NEW q \in Procs, FinishClose(q)
  PROVE  TunnelInv'
<1>1. PICK k \in Keys : k = target[q].key
  BY DEF TypeOK
<1>2. /\ tunnels' = [tunnels EXCEPT ![k] = 0]
      /\ pools' = [pools EXCEPT ![k] = NoPool]
      /\ UNCHANGED <<poolCreations, pc, req>>
  BY <1>1 DEF FinishClose, callVars
<1>3. \A x \in Keys : tunnels'[x] # 0 => tunnels'[x] = tunnels[x] /\ pools'[x] = pools[x]
  BY <1>2 DEF TypeOK
<1>4. NoOrphanTunnel'
  BY <1>2, <1>3 DEF TunnelInv, NoOrphanTunnel
<1>5. \A r \in Clients : req[r].key \in Keys
  BY DEF TypeOK
<1> QED
  BY <1>2, <1>3, <1>4, <1>5 DEF TunnelInv

LEMMA NextKeepsTunnel ==
  ASSUME TypeOK, IInv, TunnelInv, MockConns = {}, [Next]_vars
  PROVE  TunnelInv'
<1> USE DEF cacheVars, tunnelVars, callVars
<1>1. ASSUME NEW p \in Clients, GetPoolStep(p)
      PROVE  TunnelInv'
  <2>1. CASE ServeCached(p)
    BY <2>1, StageKeepsTunnel DEF ServeCached, TypeOK
  <2>2. CASE JoinCreation(p) \/ CreatorSwept(p)
    BY <2>2, StageKeepsTunnel DEF JoinCreation, CreatorSwept, ConnectStage
  <2>3. CASE StartCreation(p)
    BY <2>3, StartKeepsTunnel
  <2>4. CASE OpenTunnel(p)
    BY <2>4, OpenKeepsTunnel
  <2>5. CASE StorePool(p)
    BY <2>5, StoreKeepsTunnel
  <2>6. CASE CreatePoolFails(p) \/ HealthWriteFails(p)
    BY <2>6, CatchKeepsTunnel
  <2>7. CASE RejectEarly(p) \/ HealthWritten(p) \/ RejectLate(p)
    BY <2>7, SettleKeepsTunnel
  <2> QED
    BY <1>1, <2>1, <2>2, <2>3, <2>4, <2>5, <2>6, <2>7 DEF GetPoolStep
<1>2. ASSUME NEW q \in Procs, CloserStep(q)
      PROVE  TunnelInv'
  <2>1. CASE FinishClose(q)
    BY <2>1, CloseKeepsTunnel
  <2>2. CASE \E k \in Keys : SkipClose(q, k) \/ BeginClose(q, k)
    BY <2>2, TunnelFrame DEF SkipClose, BeginClose
  <2>3. CASE EndPool(q) \/ StartTrim(q)
    BY <2>3, TunnelFrame DEF EndPool, StartTrim
  <2>4. CASE EndLoop(q) \/ CommitUpdate(q) \/ CommitRemove(q) \/ ChangeFails(q)
    BY <2>4, TunnelFrame DEF EndLoop, CommitUpdate, CommitRemove, ChangeFails, EndJob
  <2> QED
    BY <1>2, <2>1, <2>2, <2>3, <2>4 DEF CloserStep
<1>3. ASSUME NEW p \in Clients, DoneUsing(p)
      PROVE  TunnelInv'
  BY <1>3, StageKeepsTunnel DEF DoneUsing
<1>4. ASSUME NEW p \in Clients, NEW k \in Keys, FetchConnection(p, k)
      PROVE  TunnelInv'
  BY <1>4, StageKeepsTunnel DEF FetchConnection, TypeOK
<1>5. CASE \E q \in Janitors : \/ StartCleanup(q)
                               \/ \E c \in Conns : StartChange(q, c, "update")
                               \/ \E c \in Conns : StartChange(q, c, "remove")
                               \/ \E k \in Keys : StartEvict(q, {k})
                               \/ StartEvict(q, Cached)
  BY <1>5, TunnelFrame DEF StartCleanup, StartChange, StartEvict
<1>6. CASE Tick \/ UNCHANGED vars
  BY <1>6, TunnelFrame DEF Tick, vars
<1> QED
  BY <1>1, <1>2, <1>3, <1>4, <1>5, <1>6 DEF Next

\* Where every type has a strategy, no tunnel outlives its pool and its creation
\* (the catch of createAndCachePool, the finally of closePoolByKey).
THEOREM NoTunnelIsLeftBehind ==
  ASSUME MockConns = {}
  PROVE  Spec => []NoOrphanTunnel
<1>1. Init => TunnelInv
  BY DEF Init, TunnelInv, NoOrphanTunnel
<1>2. TypeOK /\ IInv /\ TunnelInv /\ [Next]_vars => TunnelInv'
  BY NextKeepsTunnel
<1>3. TunnelInv => NoOrphanTunnel
  BY DEF TunnelInv
<1> QED
  BY <1>1, <1>2, <1>3, TypeCorrect, Invariance, PTL DEF Spec

-----------------------------------------------------------------------------
(* Refinement: each step that touches the maps of pools and of creations   *)
(* is one step of PoolCache, and all others are stutters.                  *)

filling == {k \in Keys : poolCreations[k] # None}
cache == <<pools, filling, 1..created>>

LEMMA InitRefines == Init => Cache!Init
BY LimitsAssumption DEF Init, Cache!Init, NoPool, Cache!NoPool

LEMMA Stutters ==
  ASSUME UNCHANGED <<pools, poolCreations, created>>
  PROVE  UNCHANGED cache
BY DEF cache, filling

\* The registration of a promise begins a fill.
LEMMA StartRefines ==
  ASSUME TypeOK, IInv, NEW p \in Clients, StartCreation(p)
  PROVE  Cache!Next
<1> PICK k \in Keys : k = req[p].key
  BY DEF TypeOK
<1>1. k \in Keys /\ p # None /\ k \notin filling
  BY ProcessesAssumption DEF StartCreation, TypeOK, filling
<1>2. filling' = filling \cup {k} /\ UNCHANGED <<pools, created>> /\ pools[k] = 0
  BY <1>1 DEF StartCreation, TypeOK, filling, poolVars, NoPool
<1>3. Cache!BeginFill(k)
  BY <1>1, <1>2 DEF Cache!BeginFill, Cache!NoPool, filling
<1> QED
  BY <1>1, <1>3 DEF Cache!Next

\* pools.set is the fill, of a slot that is still empty.
LEMMA StoreRefines ==
  ASSUME TypeOK, IInv, NEW p \in Clients, StorePool(p)
  PROVE  Cache!Next
<1> DEFINE k == req[p].key
           h == created + 1
<1>1. k \in Keys /\ h \in 1..MaxPools /\ created \in Nat
  BY LimitsAssumption DEF StorePool, TypeOK, Pools
<1>2. pools[k] = 0 /\ k \in filling
  <2>1. pools[k] = 0 /\ poolCreations[k] = p
    BY <1>1 DEF StorePool, IInv, CreationOwnsSlot, SingleFlight, Creating, NoPool
  <2> QED
    BY <1>1, <2>1, ProcessesAssumption DEF filling
<1>3. pools' = [pools EXCEPT ![k] = h] /\ created' = h /\ UNCHANGED poolCreations
  BY DEF StorePool
<1>4. 1..created' = (1..created) \cup {h} /\ h \notin 1..created
  BY <1>1, <1>3
<1>5. UNCHANGED filling
  BY <1>3 DEF filling
<1>6. Cache!Fill(k, h)
  BY <1>2, <1>3, <1>4, <1>5 DEF Cache!Fill, Cache!NoPool, filling
<1> QED
  BY <1>1, <1>6 DEF Cache!Next

\* The settlement of the promise ends the fill.
LEMMA SettleRefines ==
  ASSUME TypeOK, IInv, NEW p \in Clients, Creating(p), NEW h, Settle(p, h),
         UNCHANGED <<pools, created>>
  PROVE  Cache!Next
<1> PICK k \in Keys : k = req[p].key
  BY DEF TypeOK
<1>1. k \in Keys /\ poolCreations[k] = p /\ p # None
  BY ProcessesAssumption DEF TypeOK, IInv, SingleFlight
<1>2. poolCreations' = [poolCreations EXCEPT ![k] = None]
  BY <1>1 DEF Settle
<1>3. k \in filling /\ filling' = filling \ {k}
  BY <1>1, <1>2 DEF filling, TypeOK
<1>4. Cache!EndFill(k)
  BY <1>3 DEF Cache!EndFill, filling
<1> QED
  BY <1>1, <1>4 DEF Cache!Next

\* The delete of closePoolByKey drops a pool, or finds the slot empty.
LEMMA CloseRefines ==
  ASSUME TypeOK, NEW q \in Procs, FinishClose(q)
  PROVE  Cache!Next \/ UNCHANGED cache
<1> DEFINE k == target[q].key
<1>1. k \in Keys /\ pools' = [pools EXCEPT ![k] = 0] /\ UNCHANGED <<poolCreations, created>>
  BY DEF FinishClose, TypeOK, NoPool
<1>2. UNCHANGED filling
  BY <1>1 DEF filling
<1>3. CASE pools[k] = 0
  BY <1>1, <1>2, <1>3 DEF cache, TypeOK
<1>4. CASE pools[k] # 0
  <2>1. Cache!Drop(k)
    BY <1>1, <1>2, <1>4 DEF Cache!Drop, Cache!NoPool, filling
  <2> QED
    BY <1>1, <2>1 DEF Cache!Next
<1> QED
  BY <1>3, <1>4

LEMMA NextRefines ==
  ASSUME TypeOK, IInv, [Next]_vars
  PROVE  Cache!Next \/ UNCHANGED cache
<1> USE DEF cacheVars, poolVars
<1>1. ASSUME NEW p \in Clients, GetPoolStep(p)
      PROVE  Cache!Next \/ UNCHANGED cache
  <2>1. CASE StartCreation(p)
    BY <2>1, StartRefines
  <2>2. CASE StorePool(p)
    BY <2>2, StoreRefines
  <2>3. CASE RejectEarly(p) \/ HealthWritten(p) \/ RejectLate(p)
    <3>1. Creating(p) /\ UNCHANGED <<pools, created>>
      BY <2>3 DEF RejectEarly, HealthWritten, RejectLate, Creating
    <3>2. PICK h : Settle(p, h)
      BY <2>3 DEF RejectEarly, HealthWritten, RejectLate
    <3> QED
      BY <3>1, <3>2, SettleRefines
  <2>4. CASE ServeCached(p) \/ JoinCreation(p) \/ CreatorSwept(p)
    BY <2>4, Stutters DEF ServeCached, JoinCreation, CreatorSwept
  <2>5. CASE OpenTunnel(p) \/ CreatePoolFails(p) \/ HealthWriteFails(p)
    BY <2>5, Stutters DEF OpenTunnel, CreatePoolFails, HealthWriteFails
  <2> QED
    BY <1>1, <2>1, <2>2, <2>3, <2>4, <2>5 DEF GetPoolStep
<1>2. ASSUME NEW q \in Procs, CloserStep(q)
      PROVE  Cache!Next \/ UNCHANGED cache
  <2>1. CASE FinishClose(q)
    BY <2>1, CloseRefines
  <2>2. CASE \E k \in Keys : SkipClose(q, k) \/ BeginClose(q, k)
    BY <2>2, Stutters DEF SkipClose, BeginClose
  <2>3. CASE EndPool(q) \/ StartTrim(q)
    BY <2>3, Stutters DEF EndPool, StartTrim
  <2>4. CASE EndLoop(q) \/ CommitUpdate(q) \/ CommitRemove(q) \/ ChangeFails(q)
    BY <2>4, Stutters DEF EndLoop, CommitUpdate, CommitRemove, ChangeFails, EndJob
  <2> QED
    BY <1>2, <2>1, <2>2, <2>3, <2>4 DEF CloserStep
<1>3. CASE \E p \in Clients : DoneUsing(p) \/ (\E k \in Keys : FetchConnection(p, k))
  BY <1>3, Stutters DEF DoneUsing, FetchConnection
<1>4. CASE \E q \in Janitors : \/ StartCleanup(q)
                               \/ \E c \in Conns : StartChange(q, c, "update")
                               \/ \E c \in Conns : StartChange(q, c, "remove")
                               \/ \E k \in Keys : StartEvict(q, {k})
                               \/ StartEvict(q, Cached)
  BY <1>4, Stutters DEF StartCleanup, StartChange, StartEvict
<1>5. CASE Tick
  BY <1>5, Stutters DEF Tick
<1>6. CASE UNCHANGED vars
  BY <1>6, Stutters DEF vars
<1> QED
  BY <1>1, <1>2, <1>3, <1>4, <1>5, <1>6 DEF Next

\* getPool, createAndCachePool and closePoolByKey implement the abstract cache: one fill
\* of a key at a time, into an empty slot, with a pool never cached before.
THEOREM PoolsImplementCache == Spec => ImplementsPoolCache
<1>1. TypeOK /\ IInv /\ [Next]_vars => [Cache!Next]_<<pools, filling, 1..created>>
  BY NextRefines DEF cache
<1> QED
  BY <1>1, InitRefines, TypeCorrect, Invariance, PTL
  DEF Spec, ImplementsPoolCache, Cache!Spec, filling

\* A cached pool is never replaced by another (pools.set in createAndCachePool).
THEOREM NoPoolIsReplaced == Spec => PoolsNeverReplaced
<1>1. TypeOK /\ Cache!Next =>
        \A k \in Keys : pools[k] # NoPool => pools'[k] \in {pools[k], NoPool}
  BY DEF TypeOK, NoPool, Cache!Next, Cache!BeginFill, Cache!Fill, Cache!EndFill, Cache!Drop,
         Cache!NoPool
<1>2. TypeOK /\ IInv /\ [Next]_vars =>
        [\A k \in Keys : pools[k] # NoPool => pools'[k] \in {pools[k], NoPool}]_vars
  <2> SUFFICES ASSUME TypeOK, IInv, [Next]_vars
               PROVE  \A k \in Keys : pools[k] # NoPool => pools'[k] \in {pools[k], NoPool}
    OBVIOUS
  <2>1. CASE Cache!Next
    BY <1>1, <2>1
  <2>2. CASE UNCHANGED cache
    BY <2>2 DEF cache
  <2> QED
    BY <2>1, <2>2, NextRefines
<1> QED
  BY <1>2, TypeCorrect, Invariance, PTL DEF Spec, PoolsNeverReplaced
=============================================================================
