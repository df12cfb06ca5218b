---------------------------- MODULE MemoryGraph ----------------------------
(***************************************************************************)
(* The pure layer of Clan Memory: cland/internal/memory/graph.go.          *)
(* A graph maps every node id to the version held of it (or to Absent) and *)
(* carries a set of edges.  A version keeps what the rules compare: the    *)
(* UpdatedAt stamp, the revision, and the rest of the node as one member   *)
(* of Body.  Rank orders bodies as sha256 orders their canonical bytes.    *)
(* The creation metadata of an edge is neither compared nor digested, so   *)
(* an edge is its key; relations are not told apart.                       *)
(***************************************************************************)
EXTENDS Integers, FiniteSets

CONSTANTS
  Id,        \* node ids
  Edge,      \* edge keys <<from, to>>
  Body,      \* what a node says: type, title, body, status, provenance, ...
  NoBody,    \* the body of a node that is not in the graph
  Rank       \* sha256 of the canonical bytes, as a number

ASSUME EdgeAssumption == Edge \subseteq Id \X Id
ASSUME BodyAssumption ==
  /\ NoBody \notin Body
  /\ Rank \in [Body \cup {NoBody} -> Nat]
  /\ \A b, c \in Body \cup {NoBody} : Rank[b] = Rank[c] => b = c

Absent == [upd |-> 0, rev |-> 0, body |-> NoBody]
Version == [upd : Nat \ {0}, rev : Nat \ {0}, body : Body]
Slot == Version \cup {Absent}

Graph == [node : [Id -> Slot], edge : SUBSET Edge]
NewGraph == [node |-> [i \in Id |-> Absent], edge |-> {}]

\* The ids present in a graph.
Nodes(gr) == {i \in Id : gr.node[i] # Absent}

\* nodeWins: the greater (UpdatedAt, Rev, hash) wins.
nodeWins(a, b) ==
  \/ a.upd > b.upd
  \/ a.upd = b.upd /\ a.rev > b.rev
  \/ a.upd = b.upd /\ a.rev = b.rev /\ Rank[a.body] > Rank[b.body]

\* (faulty) Merge that takes every remote node.
MergeRemoteWins(local, remote) ==
  [node |-> [i \in Id |-> IF i \in Nodes(remote) THEN remote.node[i] ELSE local.node[i]],
   edge |-> local.edge \cup remote.edge]

\* (faulty) Merge that forgets the remote edges.
MergeOwnEdges(local, remote) ==
  [node |-> [i \in Id |-> IF nodeWins(remote.node[i], local.node[i])
                            THEN remote.node[i] ELSE local.node[i]],
   edge |-> local.edge]

\* Merge: per id the winner, local kept on a tie; the union of the edges.
Merge(local, remote) ==
  [node |-> [i \in Id |-> IF nodeWins(remote.node[i], local.node[i])
                            THEN remote.node[i] ELSE local.node[i]],
   edge |-> local.edge \cup remote.edge]

\* Digest: the (id, rev, updated_at) lines of the nodes and the edge keys.
\* What a node says is not in it.
Digest(gr) ==
  [node |-> [i \in Id |-> <<gr.node[i].rev, gr.node[i].upd>>], edge |-> gr.edge]

\* The greatest UpdatedAt of a graph: the loops that rebuild maxUpdated, from
\* a floor.
MaxUpdated(gr, floor) ==
  CHOOSE t \in {gr.node[i].upd : i \in Id} \cup {floor} :
    t >= floor /\ \A i \in Id : gr.node[i].upd <= t

-----------------------------------------------------------------------------
\* The order that Merge is meant to be the join of.
AtLeast(a, b) == a = b \/ nodeWins(a, b)
Leq(h, k) == (\A i \in Id : AtLeast(k.node[i], h.node[i])) /\ h.edge \subseteq k.edge

\* The <<id, version>> pairs of a graph.
Pairs(gr) == {<<i, gr.node[i]>> : i \in Nodes(gr)}
=============================================================================
