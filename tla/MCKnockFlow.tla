---------------------------- MODULE MCKnockFlow -----------------------------
(* An instance of KnockFlow for TLC. *)
EXTENDS KnockFlow
=============================================================================
