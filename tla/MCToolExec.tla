----------------------------- MODULE MCToolExec -----------------------------
(* An instance of ToolExec for TLC. *)
EXTENDS ToolExec, TLC

CONSTANTS t1, t2, e1, e2

\* In step, at the edge of the tolerance on either side, and beyond it.
MCDrift == {0, -1, 1, 2}
Symmetric == Permutations({t1, t2}) \cup Permutations({e1, e2})
=============================================================================
