----------------------------- MODULE MCElection -----------------------------
(***************************************************************************)
(* Small instances of Election.  Ids 1..N; the higher id scores higher.    *)
(* MCInit starts after the members bound each other's advertisements, a    *)
(* state Election's Init reaches by Advertise steps alone.                 *)
(***************************************************************************)
EXTENDS Election

MCScore == [n \in Node |-> 10 * n]
MCAdmitted == [n \in Node |-> 0]

MCInit == InitWith({p \in Node \X Node : p[1] # p[2]})
MCSpec == MCInit /\ [][Next]_vars
MCFairSpec == MCSpec /\ Fairness
=============================================================================
