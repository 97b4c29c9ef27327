----------------------------- MODULE MCEditors -----------------------------
(***************************************************************************)
(* TLC on Editors: two connections, two tabs, two rows and two saves, two  *)
(* restores of one resource, and two interchangeable calls on an account.  *)
(***************************************************************************)
EXTENDS Editors, TLC

CONSTANTS board, q1, q2

\* Nothing but its name distinguishes the connection that is active first, and
\* the resource starts in a teamspace.
MCInit == Init /\ active = "a" /\ conn = "a" /\ policy = board :> 2

MCSpec == MCInit /\ [][Next]_vars

\* The calls about an account are interchangeable.
Symmetry == Permutations({q1, q2})
=============================================================================
