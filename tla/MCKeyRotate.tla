---------------------------- MODULE MCKeyRotate ----------------------------
(***************************************************************************)
(* KeyRotate for TLC.  Rotation ids are interchangeable, and so are the    *)
(* members that may act as orchestrator; sound for the safety runs.        *)
(***************************************************************************)
EXTENDS KeyRotate, TLC

Symmetry == Permutations(Rotation) \cup Permutations(Orchestrators)
=============================================================================
