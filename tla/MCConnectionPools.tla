------------------------ MODULE MCConnectionPools ------------------------
(***************************************************************************)
(* Instances of ConnectionPools for TLC.                                   *)
(***************************************************************************)
EXTENDS ConnectionPools, TLC

CONSTANTS c1, c2, p1, p2, j1, j2

MCClients == {p1, p2}
MCJanitors == {j1, j2}
MCOneJanitor == {j1}
MCNoJanitor == {}
MCConns == {c1}
MCTwoConns == {c1, c2}
MCMock == {c2}

\* Clients are interchangeable, and so are janitors (NoKey names a connection and a
\* database, so those are not permuted).  Not used by the run of a liveness property.
Symmetry == Permutations(MCClients) \cup Permutations(MCJanitors)
=============================================================================
