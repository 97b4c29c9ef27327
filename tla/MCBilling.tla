----------------------------- MODULE MCBilling -----------------------------
(***************************************************************************)
(* Instances of Billing for TLC.                                           *)
(***************************************************************************)
EXTENDS Billing, TLC

CONSTANTS m1, z1, h1, h2, r1

MCPayments == {m1, z1}
MCMoMo == {m1}
MCHandlers == {h1, h2}
MCOneHandler == {h1}
MCReaders == {r1}

\* A yearly pass and a monthly one.
MCDays == [p \in MCPayments |-> IF p = m1 THEN 2 ELSE 1]

\* Webhook requests are interchangeable; payments differ in provider and length.
Symmetry == Permutations(MCHandlers)
=============================================================================
