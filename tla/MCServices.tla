----------------------------- MODULE MCServices -----------------------------
(***************************************************************************)
(* An instance of Services for TLC: items of two connections, two of them  *)
(* with one id.                                                            *)
(***************************************************************************)
EXTENDS Services, TLC

CONSTANTS x, y, z, one, two

MCItems == {x, y, z}
IdOfItem == (x :> "table:users") @@ (y :> "table:orders") @@ (z :> "table:users")
TermsOfItem == (x :> {one}) @@ (y :> {one}) @@ (z :> {two})
=============================================================================
