----------------------------- MODULE MemoryAbs -----------------------------
(***************************************************************************)
(* What Clan Memory promises of the graph each member keeps on disk: it    *)
(* only ever holds versions that somebody wrote, and it only ever moves    *)
(* forward, a version giving way to a winner and an edge never vanishing,  *)
(* unless the operator of that very machine asked for a replacement        *)
(* (import --replace, wipe).  A replacement may take effect later than the *)
(* request (erasing), when its own save failed.                            *)
(***************************************************************************)
EXTENDS MemoryGraph

CONSTANT Member

VARIABLES
  view,      \* the durable graph of each member
  written,   \* every <<id, version>> written or imported anywhere so far
  erasing,   \* members with a replacement that has not reached the disk
  replaced   \* number of replacements requested at each member

absVars == <<view, written, erasing, replaced>>

AbsInit ==
  /\ \A m \in Member : view[m] \in Graph /\ Pairs(view[m]) \subseteq written
  /\ erasing = {}
  /\ replaced = [m \in Member |-> 0]

\* Whatever a step does at m, only m's graph moves and nothing is invented.
Local(m) ==
  /\ written \subseteq written'
  /\ Pairs(view'[m]) \subseteq written'
  /\ \A p \in Member \ {m} : view'[p] = view[p] /\ (p \in erasing' <=> p \in erasing)

\* A write, a merge, a restart: forward, unless a replacement is pending.
Advance(m) ==
  /\ Local(m)
  /\ m \notin erasing => Leq(view[m], view'[m]) /\ m \notin erasing'
  /\ UNCHANGED replaced

\* The operator of m replaces its graph.
Replacement(m) ==
  /\ Local(m)
  /\ replaced' = [replaced EXCEPT ![m] = @ + 1]

AbsNext == \E m \in Member : Advance(m) \/ Replacement(m)

AbsSpec == AbsInit /\ [][AbsNext]_absVars
=============================================================================
