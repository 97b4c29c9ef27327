---------------------------- MODULE MCAssistant ----------------------------
(***************************************************************************)
(* An instance of Assistant for TLC, with the readers and jobs of          *)
(* MCFreshness.                                                            *)
(***************************************************************************)
EXTENDS Assistant, MCFreshness
=============================================================================
