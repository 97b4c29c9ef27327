---------------------------- MODULE MCWorkspaces ----------------------------
(***************************************************************************)
(* TLC on Designs: a team of two, two requests on it, two on a resource,   *)
(* and two saves of a canvas with two databases.                           *)
(***************************************************************************)
EXTENDS Designs, TLC
CONSTANTS a, b, t1, t2, r1, r2

MCUsers == {a, b}
MCTeamRequests == {t1, t2}
MCRequests == {r1, r2}
Symmetry == Permutations(MCTeamRequests) \cup Permutations(MCRequests)

\* The part that is not exercised starts in one state.  While the team does not
\* change, an administrator may do to a resource what an owner may.
MCInit ==
  /\ DesignsInit
  /\ teamCalls = MaxTeamCalls => role[b] # "ADMIN"
  /\ focus = "server" => ~page
  /\ focus = "canvas" => FromScratch

MCSpec == MCInit /\ [][DesignsNext]_<<focus, vars, erd>>
=============================================================================
