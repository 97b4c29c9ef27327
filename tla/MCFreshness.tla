----------------------------- MODULE MCFreshness -----------------------------
(***************************************************************************)
(* Instances of Freshness for TLC.                                         *)
(***************************************************************************)
EXTENDS Freshness, TLC

CONSTANTS r1, r2, j1, j2

MCReaders == {r1}
MCTwoReaders == {r1, r2}
MCJobs == {j1, j2}
MCOneJob == {j1}

\* A request or a job that names the database, or not.
MCNamed == {<<"context", TRUE>>}
MCUnnamed == {<<"context", FALSE>>, <<"hierarchy", FALSE>>}
MCWrite == {<<"write", FALSE>>}

\* On a connection with a default database, these meet in one scope.
MCCalls == {<<"write", FALSE>>, <<"refresh", TRUE>>, <<"clear", TRUE>>}

\* Jobs are interchangeable.
Symmetry == Permutations(MCJobs)
=============================================================================
