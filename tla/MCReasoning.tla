---------------------------- MODULE MCReasoning -----------------------------
(* An instance of Reasoning for TLC. *)
EXTENDS Reasoning
=============================================================================
