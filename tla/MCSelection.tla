---------------------------- MODULE MCSelection ----------------------------
(* An instance of Views for TLC. *)
EXTENDS Views
=============================================================================
