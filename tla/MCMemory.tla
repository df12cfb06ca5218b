------------------------------ MODULE MCMemory ------------------------------
(* Instances of Memory for TLC. *)
EXTENDS Memory, TLC

CONSTANTS m1, m2

MCId == {1, 2}
MCEdge == {<<2, 1>>}
MCBody == {1, 2}
MCRank == [b \in {0} \cup MCBody |-> b]
\* An imported copy may win or lose against its original.
MCImported == [b \in MCBody |-> 2]
MCRefiled == [b \in MCBody |-> [c \in MCBody |-> c]]
MCSessionOf == [b \in MCBody |-> IF b = 2 THEN 1 ELSE 0]
\* m1 already has a node that m2 has not heard of.
MCStart == [m \in {m1, m2} |->
              IF m = m1 THEN [NewGraph EXCEPT !.node[1] = [upd |-> 3, rev |-> 1, body |-> 1]]
              ELSE NewGraph]
\* m1's clock is ahead of m2's.
MCClock == (m1 :> {3}) @@ (m2 :> {1})
=============================================================================
