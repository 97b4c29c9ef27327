----------------------------- MODULE PoolCache -----------------------------
(***************************************************************************)
(* What ConnectionsService promises about its map of pools, without the    *)
(* calls, the tunnels and the closing loops: one fill of a key at a time,  *)
(* into an empty slot, with a pool that was never in the map before.       *)
(***************************************************************************)
EXTENDS Naturals

CONSTANTS Keys, MaxPools

VARIABLES
  cache,    \* cache[k]: the pool served for key k, 0 if none
  filling,  \* keys somebody is creating a pool for
  used      \* pools that have been in the map

NoPool == 0

Init ==
  /\ cache = [k \in Keys |-> NoPool]
  /\ filling = {}
  /\ used = {}

\* A fill starts where there is neither a pool nor another fill.
BeginFill(k) ==
  /\ cache[k] = NoPool /\ k \notin filling
  /\ filling' = filling \cup {k}
  /\ UNCHANGED <<cache, used>>

\* The fill puts its pool into the slot, still empty.
Fill(k, h) ==
  /\ cache[k] = NoPool /\ k \in filling
  /\ h \notin used
  /\ cache' = [cache EXCEPT ![k] = h]
  /\ used' = used \cup {h}
  /\ UNCHANGED filling

\* The fill is over, with or without a pool.
EndFill(k) ==
  /\ k \in filling
  /\ filling' = filling \ {k}
  /\ UNCHANGED <<cache, used>>

\* A pool leaves the map; it will not come back.
Drop(k) ==
  /\ cache[k] # NoPool
  /\ cache' = [cache EXCEPT ![k] = NoPool]
  /\ UNCHANGED <<filling, used>>

Next ==
  \E k \in Keys :
    \/ BeginFill(k)
    \/ \E h \in 1..MaxPools : Fill(k, h)
    \/ EndFill(k)
    \/ Drop(k)

Spec == Init /\ [][Next]_<<cache, filling, used>>
=============================================================================
