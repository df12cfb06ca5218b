---------------------------- MODULE MemoryProofs ----------------------------
(***************************************************************************)
(* Proofs about Clan Memory for any members, nodes, clocks, edits and      *)
(* faults: Merge is the join of the order nodeWins gives (MemoryGraph),    *)
(* the digest and the high-water mark of every Service are right and its   *)
(* graph never rewinds (Memory), and the graphs on disk implement          *)
(* MemoryAbs.  The second half is about the Scribe and the memory commands *)
(* of people (Scribe), composed with one member's Service.                 *)
(***************************************************************************)
EXTENDS Scribe, FiniteSetTheorems, SequenceTheorems, TLAPS

-----------------------------------------------------------------------------
\* What a stored node compares by is a triple of numbers.
LEMMA SlotType ==
  ASSUME NEW a \in Slot
  PROVE  /\ a.upd \in Nat /\ a.rev \in Nat /\ a.body \in Body \cup {NoBody}
         /\ Rank[a.body] \in Nat
         /\ a = [upd |-> a.upd, rev |-> a.rev, body |-> a.body]
BY BodyAssumption DEF Slot, Version, Absent

\* Different bodies hash differently, so nodeWins compares any two versions.
LEMMA WinsTotal ==
  ASSUME NEW a \in Slot, NEW b \in Slot
  PROVE  a = b \/ nodeWins(a, b) \/ nodeWins(b, a)
<1>1. CASE a.upd = b.upd /\ a.rev = b.rev /\ Rank[a.body] = Rank[b.body]
  <2>1. a.body = b.body
    BY <1>1, SlotType, BodyAssumption
  <2> QED
    BY <1>1, <2>1, SlotType
<1>2. CASE ~ (a.upd = b.upd /\ a.rev = b.rev /\ Rank[a.body] = Rank[b.body])
  BY <1>2, SlotType DEF nodeWins
<1> QED
  BY <1>1, <1>2

\* nodeWins never holds both ways.
LEMMA WinsAsym ==
  ASSUME NEW a \in Slot, NEW b \in Slot, nodeWins(a, b)
  PROVE  ~ nodeWins(b, a) /\ a # b
BY SlotType DEF nodeWins

\* A winner's winner wins.
LEMMA WinsTrans ==
  ASSUME NEW a \in Slot, NEW b \in Slot, NEW c \in Slot, nodeWins(a, b), nodeWins(b, c)
  PROVE  nodeWins(a, c)
BY SlotType DEF nodeWins

\* A stored node wins against none.
LEMMA VersionWins ==
  ASSUME NEW a \in Version
  PROVE  nodeWins(a, Absent) /\ a # Absent /\ a \in Slot
BY DEF nodeWins, Version, Absent, Slot

LEMMA GraphType ==
  ASSUME NEW h \in Graph
  PROVE  /\ h = [node |-> h.node, edge |-> h.edge]
         /\ h.node \in [Id -> Slot] /\ h.edge \subseteq Edge
         /\ \A i \in Id : h.node[i] \in Slot
BY DEF Graph

LEMMA NewGraphType == NewGraph \in Graph /\ Nodes(NewGraph) = {} /\ Pairs(NewGraph) = {}
BY DEF NewGraph, Graph, Slot, Nodes, Pairs

\* AtLeast is an order on versions.
LEMMA AtLeastOrder ==
  ASSUME NEW a \in Slot, NEW b \in Slot, NEW c \in Slot
  PROVE  /\ AtLeast(a, a)
         /\ AtLeast(a, b) /\ AtLeast(b, c) => AtLeast(a, c)
         /\ AtLeast(a, b) /\ AtLeast(b, a) => a = b
         /\ AtLeast(a, b) \/ AtLeast(b, a)
BY WinsTrans, WinsAsym, WinsTotal DEF AtLeast

\* Leq is an order on graphs.
LEMMA LeqRefl ==
  ASSUME NEW h \in Graph PROVE Leq(h, h)
BY DEF Leq, AtLeast

LEMMA LeqTrans ==
  ASSUME NEW h \in Graph, NEW k \in Graph, NEW l \in Graph, Leq(h, k), Leq(k, l)
  PROVE  Leq(h, l)
<1>1. ASSUME NEW i \in Id PROVE AtLeast(l.node[i], h.node[i])
  <2>1. h.node[i] \in Slot /\ k.node[i] \in Slot /\ l.node[i] \in Slot
    BY GraphType
  <2>2. AtLeast(l.node[i], k.node[i]) /\ AtLeast(k.node[i], h.node[i])
    BY DEF Leq
  <2> QED
    BY <2>1, <2>2, AtLeastOrder
<1> QED
  BY <1>1 DEF Leq

LEMMA LeqAntisym ==
  ASSUME NEW h \in Graph, NEW k \in Graph, Leq(h, k), Leq(k, h)
  PROVE  h = k
<1>1. ASSUME NEW i \in Id PROVE h.node[i] = k.node[i]
  <2>1. h.node[i] \in Slot /\ k.node[i] \in Slot
    BY GraphType
  <2> QED
    BY <2>1, AtLeastOrder DEF Leq
<1>2. h.edge = k.edge
  BY DEF Leq
<1>3. h.node = k.node
  BY <1>1, GraphType
<1> QED
  BY <1>2, <1>3, GraphType

-----------------------------------------------------------------------------
\* Merge keeps what it is given: the result is a graph whose nodes come from one
\* side or the other.
LEMMA MergeType ==
  ASSUME NEW h \in Graph, NEW k \in Graph
  PROVE  /\ Merge(h, k) \in Graph
         /\ Merge(h, k).edge = h.edge \cup k.edge
         /\ \A i \in Id : Merge(h, k).node[i] =
              IF nodeWins(k.node[i], h.node[i]) THEN k.node[i] ELSE h.node[i]
<1>1. \A i \in Id : (IF nodeWins(k.node[i], h.node[i]) THEN k.node[i] ELSE h.node[i]) \in Slot
  BY GraphType
<1>2. h.edge \cup k.edge \subseteq Edge
  BY GraphType
<1> QED
  BY <1>1, <1>2 DEF Merge, Graph

\* Merge of graph.go is the least upper bound: neither side loses anything, and
\* nothing else comes in.
THEOREM MergeIsJoin ==
  ASSUME NEW h \in Graph, NEW k \in Graph
  PROVE  /\ Leq(h, Merge(h, k)) /\ Leq(k, Merge(h, k))
         /\ \A l \in Graph : Leq(h, l) /\ Leq(k, l) => Leq(Merge(h, k), l)
<1>1. ASSUME NEW i \in Id
      PROVE  /\ AtLeast(Merge(h, k).node[i], h.node[i]) /\ AtLeast(Merge(h, k).node[i], k.node[i])
             /\ Merge(h, k).node[i] \in {h.node[i], k.node[i]}
  <2>1. h.node[i] \in Slot /\ k.node[i] \in Slot
    BY GraphType
  <2> QED
    BY <2>1, MergeType, WinsTotal DEF AtLeast
<1>2. Leq(h, Merge(h, k)) /\ Leq(k, Merge(h, k))
  BY <1>1, MergeType DEF Leq
<1>3. ASSUME NEW l \in Graph, Leq(h, l), Leq(k, l) PROVE Leq(Merge(h, k), l)
  BY <1>1, <1>3, MergeType DEF Leq
<1> QED
  BY <1>2, <1>3

\* Gossip may deliver graphs in any order, twice, and by any route: Merge is
\* idempotent, commutative and associative, whatever the two graphs hold.
THEOREM MergeLaws ==
  ASSUME NEW h \in Graph, NEW k \in Graph, NEW l \in Graph
  PROVE  /\ Merge(h, h) = h
         /\ Merge(h, k) = Merge(k, h)
         /\ Merge(Merge(h, k), l) = Merge(h, Merge(k, l))
<1>1. /\ Merge(h, h) \in Graph /\ Merge(h, k) \in Graph /\ Merge(k, h) \in Graph
      /\ Merge(k, l) \in Graph /\ Merge(Merge(h, k), l) \in Graph /\ Merge(h, Merge(k, l)) \in Graph
  BY MergeType
<1>2. Merge(h, h) = h
  <2>1. Leq(h, Merge(h, h)) /\ Leq(Merge(h, h), h)
    BY MergeIsJoin, LeqRefl
  <2> QED
    BY <1>1, <2>1, LeqAntisym
<1>3. Merge(h, k) = Merge(k, h)
  <2>1. Leq(Merge(h, k), Merge(k, h)) /\ Leq(Merge(k, h), Merge(h, k))
    BY <1>1, MergeIsJoin
  <2> QED
    BY <1>1, <2>1, LeqAntisym
<1>4. Merge(Merge(h, k), l) = Merge(h, Merge(k, l))
  <2> DEFINE left == Merge(Merge(h, k), l)
             right == Merge(h, Merge(k, l))
  <2>1. /\ Leq(h, Merge(h, k)) /\ Leq(k, Merge(h, k)) /\ Leq(Merge(h, k), left) /\ Leq(l, left)
        /\ Leq(k, Merge(k, l)) /\ Leq(l, Merge(k, l)) /\ Leq(h, right) /\ Leq(Merge(k, l), right)
    BY <1>1, MergeIsJoin
  <2>2. Leq(h, left) /\ Leq(k, left) /\ Leq(k, right) /\ Leq(l, right)
    BY <1>1, <2>1, LeqTrans
  <2>3. Leq(left, right)
    <3>1. Leq(Merge(h, k), right)
      BY <1>1, <2>1, <2>2, MergeIsJoin
    <3> QED
      BY <1>1, <2>2, <3>1, MergeIsJoin
  <2>4. Leq(right, left)
    <3>1. Leq(Merge(k, l), left)
      BY <1>1, <2>1, <2>2, MergeIsJoin
    <3> QED
      BY <1>1, <2>2, <3>1, MergeIsJoin
  <2> QED
    BY <1>1, <2>3, <2>4, LeqAntisym
<1> QED
  BY <1>2, <1>3, <1>4

-----------------------------------------------------------------------------
\* Among finitely many nodes one has the latest stamp: a smallest set without
\* one cannot exist.
LEMMA LatestStamp ==
  ASSUME NEW f \in [Id -> Nat], Id # {}
  PROVE  \E i \in Id : \A j \in Id : f[j] <= f[i]
<1> DEFINE Topped(U) == \E i \in U : \A j \in U : f[j] <= f[i]
           Bad == {U \in SUBSET Id : U # {} /\ ~ Topped(U)}
<1>1. IsFiniteSet(Id)
  BY MemberAssumption
<1>2. IsWellFoundedOn(StrictSubsetOrdering(Id), SUBSET Id)
  BY <1>1, FS_StrictSubsetOrderingWellFounded, FS_FiniteSubsetsOfFinite
<1>3. SUFFICES ASSUME Id \in Bad PROVE FALSE
  OBVIOUS
<1>4. PICK U \in Bad : \A V \in Bad : ~ (<<V, U>> \in StrictSubsetOrdering(Id))
  <2>1. Bad \subseteq SUBSET Id /\ Bad # {}
    BY <1>3
  <2> HIDE DEF Bad
  <2> QED
    BY <1>2, <2>1, WFMin
<1>5. PICK x \in U : TRUE
  OBVIOUS
<1>6. U \ {x} \notin Bad
  BY <1>4, <1>5 DEF StrictSubsetOrdering
<1>7. CASE U \ {x} = {}
  <2>1. \A j \in U : j = x
    BY <1>7
  <2>2. f[x] \in Nat
    BY <1>5
  <2>3. Topped(U)
    BY <1>5, <2>1, <2>2
  <2> QED
    BY <2>3
<1>8. CASE U \ {x} # {}
  <2>1. Topped(U \ {x})
    BY <1>6, <1>8
  <2>2. PICK y \in U \ {x} : \A j \in U \ {x} : f[j] <= f[y]
    BY <2>1
  <2>3. \A j \in U : f[j] \in Nat
    OBVIOUS
  <2>4. CASE f[y] <= f[x]
    <3>1. \A j \in U : f[j] <= f[x]
      BY <1>5, <2>2, <2>3, <2>4
    <3>2. Topped(U)
      BY <1>5, <3>1
    <3> QED
      BY <3>2
  <2>5. CASE f[x] <= f[y]
    <3>1. \A j \in U : f[j] <= f[y]
      BY <1>5, <2>2, <2>3, <2>5
    <3>2. Topped(U)
      BY <2>2, <3>1
    <3> QED
      BY <3>2
  <2> QED
    BY <1>5, <2>2, <2>3, <2>4, <2>5
<1> QED
  BY <1>7, <1>8

\* The loops that rebuild maxUpdated find a bound of the floor and of every
\* stamp.
LEMMA MaxUpdatedBound ==
  ASSUME NEW h \in Graph, NEW floor \in Nat
  PROVE  /\ MaxUpdated(h, floor) \in Nat /\ MaxUpdated(h, floor) >= floor
         /\ \A i \in Id : h.node[i].upd <= MaxUpdated(h, floor)
<1> DEFINE f == [i \in Id |-> h.node[i].upd]
           S == {h.node[i].upd : i \in Id} \cup {floor}
<1>1. f \in [Id -> Nat] /\ \A i \in Id : f[i] = h.node[i].upd
  BY GraphType, SlotType
<1>2. S \subseteq Nat
  BY <1>1
<1>3. \E t \in S : t >= floor /\ \A i \in Id : h.node[i].upd <= t
  <2>1. CASE Id = {}
    BY <2>1
  <2>2. CASE Id # {}
    <3>1. PICK i \in Id : \A j \in Id : f[j] <= f[i]
      BY <1>1, <2>2, LatestStamp
    <3>2. CASE f[i] >= floor
      BY <1>1, <3>1, <3>2
    <3>3. CASE f[i] < floor
      <4>1. ASSUME NEW j \in Id PROVE h.node[j].upd <= floor
        BY <1>1, <3>1, <3>3
      <4> QED
        BY <4>1
    <3> QED
      BY <1>1, <3>2, <3>3
  <2> QED
    BY <2>1, <2>2
<1>4. /\ MaxUpdated(h, floor) \in S /\ MaxUpdated(h, floor) >= floor
      /\ \A i \in Id : h.node[i].upd <= MaxUpdated(h, floor)
  BY <1>3 DEF MaxUpdated
<1> QED
  BY <1>2, <1>4

-----------------------------------------------------------------------------
\* What a graph holds are versions, and what it does not hold is absent.
LEMMA PairsType ==
  ASSUME NEW h \in Graph
  PROVE  Pairs(h) \subseteq Id \X Version /\ \A i \in Nodes(h) : h.node[i] \in Version
BY DEF Pairs, Nodes, Graph, Slot

LEMMA DigestType ==
  ASSUME NEW h \in Graph
  PROVE  Digest(h) \in [node : [Id -> Nat \X Nat], edge : SUBSET Edge]
<1>1. \A i \in Id : <<h.node[i].rev, h.node[i].upd>> \in Nat \X Nat
  BY GraphType, SlotType
<1>2. [i \in Id |-> <<h.node[i].rev, h.node[i].upd>>] \in [Id -> Nat \X Nat]
  BY <1>1
<1> QED
  BY <1>2, GraphType DEF Digest

\* A node put into a graph.
LEMMA PutNode ==
  ASSUME NEW h \in Graph, NEW i \in Id, NEW v \in Version
  PROVE  LET k == [h EXCEPT !.node[i] = v]
         IN  /\ k \in Graph /\ k.edge = h.edge
             /\ \A j \in Id : k.node[j] = IF j = i THEN v ELSE h.node[j]
             /\ Pairs(k) \subseteq Pairs(h) \cup {<<i, v>>}
             /\ nodeWins(v, h.node[i]) => Leq(h, k)
<1> DEFINE k == [h EXCEPT !.node[i] = v]
<1>1. k = [node |-> [h.node EXCEPT ![i] = v], edge |-> h.edge]
  BY GraphType
<1>2. [h.node EXCEPT ![i] = v] \in [Id -> Slot]
  BY GraphType, VersionWins
<1>3. k \in Graph /\ k.edge = h.edge /\ \A j \in Id : k.node[j] = IF j = i THEN v ELSE h.node[j]
  BY <1>1, <1>2, GraphType DEF Graph
<1> HIDE DEF k
<1>4. Pairs(k) \subseteq Pairs(h) \cup {<<i, v>>}
  BY <1>3 DEF Pairs, Nodes
<1>5. nodeWins(v, h.node[i]) => Leq(h, k)
  BY <1>3 DEF Leq, AtLeast
<1> QED
  BY <1>3, <1>4, <1>5 DEF k

\* An edge put into a graph.
LEMMA PutEdge ==
  ASSUME NEW h \in Graph, NEW e \in Edge
  PROVE  LET k == [h EXCEPT !.edge = @ \cup {e}]
         IN  /\ k \in Graph /\ k.node = h.node /\ Pairs(k) = Pairs(h) /\ Leq(h, k)
<1> DEFINE k == [h EXCEPT !.edge = @ \cup {e}]
<1>1. k = [node |-> h.node, edge |-> h.edge \cup {e}]
  BY GraphType
<1>2. h.edge \cup {e} \subseteq Edge
  BY GraphType
<1>3. k \in Graph /\ k.node = h.node /\ k.edge = h.edge \cup {e}
  BY <1>1, <1>2, GraphType DEF Graph
<1> HIDE DEF k
<1>4. Pairs(k) = Pairs(h) /\ Leq(h, k)
  BY <1>3 DEF Pairs, Nodes, Leq, AtLeast
<1> QED
  BY <1>3, <1>4 DEF k

\* A merge brings in nothing that neither side had.
LEMMA MergePairs ==
  ASSUME NEW h \in Graph, NEW k \in Graph
  PROVE  Pairs(Merge(h, k)) \subseteq Pairs(h) \cup Pairs(k)
BY MergeType DEF Pairs, Nodes

LEMMA MarkImportedType ==
  ASSUME NEW h \in Graph
  PROVE  /\ MarkImported(h) \in Graph /\ MarkImported(h).edge = h.edge
         /\ \A i \in Id : MarkImported(h).node[i] =
              IF i \in Nodes(h) THEN [h.node[i] EXCEPT !.body = Imported[h.node[i].body]] ELSE Absent
<1> DEFINE f == [i \in Id |-> IF i \in Nodes(h)
                               THEN [h.node[i] EXCEPT !.body = Imported[h.node[i].body]] ELSE Absent]
<1>1. MarkImported(h) = [h EXCEPT !.node = f]
  BY DEF MarkImported
<1>2. \A i \in Nodes(h) : [h.node[i] EXCEPT !.body = Imported[h.node[i].body]] \in Version
  BY PairsType, BodyMapAssumption DEF Version
<1>3. f \in [Id -> Slot]
  BY <1>2 DEF Slot
<1>4. MarkImported(h) = [node |-> f, edge |-> h.edge]
  BY <1>1, GraphType
<1> QED
  BY <1>3, <1>4, GraphType DEF Graph

LEMMA ExportType ==
  ASSUME NEW h \in Graph, NEW s
  PROVE  ExportBlueprint(h, s) \in Graph
<1>1. [i \in Id |-> IF i \in keep(h, s) THEN h.node[i] ELSE Absent] \in [Id -> Slot]
  BY GraphType DEF Slot
<1> QED
  BY <1>1, GraphType DEF ExportBlueprint, Graph

-----------------------------------------------------------------------------
\* Every version that some Service, its disk or a reply under way holds was
\* written by somebody.
HeldWritten ==
  /\ \A m \in Member : Pairs(g[m]) \subseteq written /\ Pairs(disk[m]) \subseteq written
  /\ \A m, p \in Member : Pairs(job[m][p].gr) \subseteq written

MemInv == MemTypeOK /\ DigestOfDisk /\ HighWater /\ HeldWritten

\* What any step does to the Service of m: its graph grows, with or without the
\* disk; or it is reloaded from the disk; or it is replaced on request.
Effect(m) ==
  /\ g' = [g EXCEPT ![m] = g'[m]] /\ g'[m] \in Graph
  /\ disk' = [disk EXCEPT ![m] = disk'[m]] /\ disk'[m] \in Graph
  /\ dig' = [dig EXCEPT ![m] = Digest(disk'[m])]
  /\ hwm' = [hwm EXCEPT ![m] = hwm'[m]] /\ hwm'[m] \in Nat
  /\ \A i \in Id : g'[m].node[i].upd <= hwm'[m]
  /\ written \subseteq written'
  /\ Pairs(g'[m]) \subseteq written' /\ Pairs(disk'[m]) \subseteq written'
  /\ \/ replaced' = replaced /\ Leq(g[m], g'[m]) /\ disk'[m] \in {disk[m], g'[m]}
     \/ replaced' = replaced /\ g'[m] = disk[m] /\ disk'[m] = disk[m]
     \/ /\ replaced' = [replaced EXCEPT ![m] = @ + 1]
        /\ disk'[m] \in {disk[m], g'[m]}

\* persistLocked keeps the digest with the disk.
LEMMA PersistEffect ==
  ASSUME MemInv, NEW m \in Member, NEW h \in Graph, NEW saved \in BOOLEAN,
         persistLocked(m, h, saved),
         hwm' = [hwm EXCEPT ![m] = hwm'[m]], hwm'[m] \in Nat,
         \A i \in Id : h.node[i].upd <= hwm'[m],
         written \subseteq written', Pairs(h) \subseteq written',
         \/ replaced' = replaced /\ Leq(g[m], h)
         \/ replaced' = [replaced EXCEPT ![m] = @ + 1]
  PROVE  Effect(m)
<1>1. /\ g \in [Member -> Graph] /\ disk \in [Member -> Graph]
      /\ DOMAIN dig = Member /\ dig[m] = Digest(disk[m]) /\ Pairs(disk[m]) \subseteq written
  BY DEF MemInv, MemTypeOK, DigestOfDisk, HeldWritten
<1>2. g'[m] = h /\ g' = [g EXCEPT ![m] = g'[m]]
  BY <1>1 DEF persistLocked
<1>3. CASE saved
  <2>1. disk'[m] = h /\ disk' = [disk EXCEPT ![m] = disk'[m]] /\ dig' = [dig EXCEPT ![m] = Digest(h)]
    BY <1>1, <1>3 DEF persistLocked
  <2> QED
    BY <1>2, <2>1 DEF Effect
<1>4. CASE ~ saved
  <2>1. disk' = disk /\ dig' = dig
    BY <1>4 DEF persistLocked
  <2>2. disk' = [disk EXCEPT ![m] = disk'[m]] /\ dig' = [dig EXCEPT ![m] = Digest(disk'[m])]
    BY <1>1, <2>1, DigestType DEF MemInv, MemTypeOK
  <2> QED
    BY <1>1, <1>2, <2>1, <2>2 DEF Effect
<1> QED
  BY <1>3, <1>4

\* A step that leaves the graphs, the mark and the history alone.
LEMMA IdleEffect ==
  ASSUME MemInv, NEW m \in Member, UNCHANGED <<g, disk, dig, written, replaced>>,
         hwm' = [hwm EXCEPT ![m] = hwm'[m]], hwm'[m] \in Nat, hwm'[m] >= hwm[m]
  PROVE  Effect(m)
<1>1. /\ g \in [Member -> Graph] /\ disk \in [Member -> Graph] /\ hwm[m] \in Nat
      /\ dig \in [Member -> [node : [Id -> Nat \X Nat], edge : SUBSET Edge]]
      /\ dig[m] = Digest(disk[m]) /\ Pairs(disk[m]) \subseteq written /\ Pairs(g[m]) \subseteq written
  BY DEF MemInv, MemTypeOK, DigestOfDisk, HeldWritten
<1>2. \A i \in Id : g[m].node[i].upd \in Nat /\ g[m].node[i].upd <= hwm[m]
  BY <1>1, GraphType, SlotType DEF MemInv, HighWater
<1>3. \A i \in Id : g'[m].node[i].upd <= hwm'[m]
  BY <1>1, <1>2
<1>4. g' = [g EXCEPT ![m] = g'[m]] /\ disk' = [disk EXCEPT ![m] = disk'[m]]
  BY <1>1
<1>5. dig' = [dig EXCEPT ![m] = Digest(disk'[m])]
  BY <1>1
<1>6. Leq(g[m], g'[m])
  BY <1>1, LeqRefl
<1> QED
  BY <1>1, <1>3, <1>4, <1>5, <1>6 DEF Effect

\* stampLocked beats every stamp the member holds, whatever its clock shows, so
\* what AddOrUpdateNode stores wins against what it edits.
LEMMA StoredWins ==
  ASSUME MemInv, NEW m \in Member, NEW i \in Id, NEW b \in Body, NEW now \in Nat \ {0}
  PROVE  LET v == stored(m, i, b, now)
         IN  v \in Version /\ v.upd > hwm[m] /\ nodeWins(v, g[m].node[i])
<1> DEFINE v == stored(m, i, b, now)
<1>1. g[m] \in Graph /\ hwm[m] \in Nat
  BY DEF MemInv, MemTypeOK
<1>2. g[m].node[i].upd \in Nat /\ g[m].node[i].rev \in Nat /\ g[m].node[i].upd <= hwm[m]
  BY <1>1, GraphType, SlotType DEF MemInv, HighWater
<1>3. stampLocked(m, now) \in Nat \ {0} /\ stampLocked(m, now) > hwm[m]
  BY <1>1 DEF stampLocked
<1>4. (IF i \in Nodes(g[m]) THEN Refiled[g[m].node[i].body][b] ELSE b) \in Body
  <2>1. CASE i \in Nodes(g[m])
    <3>1. g[m].node[i].body \in Body
      BY <1>1, <2>1, PairsType DEF Version
    <3> QED
      BY <2>1, <3>1, BodyMapAssumption
  <2> QED
    BY <2>1
<1>5. v \in Version /\ v.upd = stampLocked(m, now)
  BY <1>2, <1>3, <1>4 DEF stored, Version
<1> QED
  BY <1>1, <1>2, <1>3, <1>5 DEF nodeWins

LEMMA AddEffect ==
  ASSUME MemInv, NEW m \in Member, NEW i \in Id, NEW b \in Body, NEW now \in Nat \ {0},
         NEW out \in Outcome, AddOrUpdateNode(m, i, b, now, out)
  PROVE  Effect(m) /\ written' \subseteq written \cup {<<i, stored(m, i, b, now)>>}
<1> DEFINE v == stored(m, i, b, now)
           h == [g[m] EXCEPT !.node[i] = v]
<1>1. v \in Version /\ v.upd > hwm[m] /\ nodeWins(v, g[m].node[i])
  BY StoredWins
<1>2. g[m] \in Graph /\ hwm \in [Member -> Nat] /\ Pairs(g[m]) \subseteq written
  BY DEF MemInv, MemTypeOK, HeldWritten
<1>3. hwm' = [hwm EXCEPT ![m] = v.upd] /\ replaced' = replaced
  BY DEF AddOrUpdateNode
<1>4. v.upd \in Nat /\ hwm[m] \in Nat
  BY <1>1, <1>2 DEF Version
<1>5. hwm' = [hwm EXCEPT ![m] = hwm'[m]] /\ hwm'[m] = v.upd /\ hwm'[m] \in Nat
  BY <1>2, <1>3, <1>4
<1>6. CASE out = "size"
  <2>1. UNCHANGED <<g, disk, dig, written, replaced>>
    BY <1>3, <1>6 DEF AddOrUpdateNode
  <2> QED
    BY <1>1, <1>4, <1>5, <2>1, IdleEffect
<1>7. CASE out # "size"
  <2>1. persistLocked(m, h, out = "ok") /\ written' = written \cup {<<i, v>>}
    BY <1>7 DEF AddOrUpdateNode
  <2>2. /\ h \in Graph /\ Leq(g[m], h) /\ Pairs(h) \subseteq Pairs(g[m]) \cup {<<i, v>>}
        /\ \A j \in Id : h.node[j] = IF j = i THEN v ELSE g[m].node[j]
    BY <1>1, <1>2, PutNode
  <2>3. \A j \in Id : g[m].node[j].upd \in Nat /\ g[m].node[j].upd <= hwm[m]
    BY <1>2, GraphType, SlotType DEF MemInv, HighWater
  <2>4. \A j \in Id : h.node[j].upd <= hwm'[m]
    BY <1>1, <1>4, <1>5, <2>2, <2>3
  <2>5. Pairs(h) \subseteq written'
    BY <1>2, <2>1, <2>2
  <2>6. \E saved \in BOOLEAN : persistLocked(m, h, saved)
    <3>1. CASE out = "ok"
      BY <2>1, <3>1 DEF persistLocked
    <3>2. CASE out # "ok"
      BY <2>1, <3>2 DEF persistLocked
    <3> QED
      BY <3>1, <3>2
  <2> HIDE DEF h
  <2> QED
    BY <1>3, <1>5, <2>1, <2>2, <2>4, <2>5, <2>6, PersistEffect
<1> QED
  BY <1>6, <1>7

LEMMA EdgeEffect ==
  ASSUME MemInv, NEW m \in Member, NEW e \in Edge, NEW saved \in BOOLEAN, AddEdge(m, e, saved)
  PROVE  Effect(m)
<1> DEFINE h == [g[m] EXCEPT !.edge = @ \cup {e}]
<1>1. g[m] \in Graph /\ hwm \in [Member -> Nat] /\ Pairs(g[m]) \subseteq written
  BY DEF MemInv, MemTypeOK, HeldWritten
<1>2. h \in Graph /\ h.node = g[m].node /\ Pairs(h) = Pairs(g[m]) /\ Leq(g[m], h)
  BY <1>1, PutEdge
<1>3. persistLocked(m, h, saved) /\ UNCHANGED <<hwm, written, replaced>>
  BY DEF AddEdge
<1>4. hwm' = [hwm EXCEPT ![m] = hwm'[m]] /\ hwm'[m] \in Nat
  BY <1>1, <1>3
<1>5. \A i \in Id : h.node[i].upd <= hwm'[m]
  BY <1>2, <1>3 DEF MemInv, HighWater
<1> HIDE DEF h
<1> QED
  BY <1>1, <1>2, <1>3, <1>4, <1>5, PersistEffect

\* A merge, of a fetched or of an imported graph: a join with what was written.
LEMMA MergedEffect ==
  ASSUME MemInv, NEW m \in Member, NEW k \in Graph, NEW saved \in BOOLEAN,
         ApplyMerged(m, k, saved),
         written \subseteq written', Pairs(k) \subseteq written', replaced' = replaced
  PROVE  Effect(m)
<1> DEFINE h == Merge(g[m], k)
<1>1. /\ g \in [Member -> Graph] /\ disk \in [Member -> Graph] /\ hwm \in [Member -> Nat]
      /\ dig \in [Member -> [node : [Id -> Nat \X Nat], edge : SUBSET Edge]]
      /\ Pairs(g[m]) \subseteq written /\ Pairs(disk[m]) \subseteq written
      /\ dig[m] = Digest(disk[m]) /\ \A i \in Id : g[m].node[i].upd <= hwm[m]
  BY DEF MemInv, MemTypeOK, HeldWritten, DigestOfDisk, HighWater
<1>2. h \in Graph /\ Leq(g[m], h) /\ Pairs(h) \subseteq written'
  BY <1>1, MergeType, MergeIsJoin, MergePairs
<1>3. CASE Digest(h) = dig[m]
  <2>1. UNCHANGED <<g, disk, dig, hwm>>
    BY <1>3 DEF ApplyMerged
  <2>2. /\ g' = [g EXCEPT ![m] = g'[m]] /\ disk' = [disk EXCEPT ![m] = disk'[m]]
        /\ hwm' = [hwm EXCEPT ![m] = hwm'[m]] /\ hwm'[m] \in Nat
        /\ dig' = [dig EXCEPT ![m] = Digest(disk'[m])]
    BY <1>1, <2>1
  <2>3. Leq(g[m], g'[m])
    BY <1>1, <2>1, LeqRefl
  <2>4. Pairs(g'[m]) \subseteq written' /\ Pairs(disk'[m]) \subseteq written'
    BY <1>1, <2>1
  <2> QED
    BY <1>1, <2>1, <2>2, <2>3, <2>4 DEF Effect
<1>4. CASE Digest(h) # dig[m]
  <2>1. /\ hwm' = [hwm EXCEPT ![m] = MaxUpdated(h, hwm[m])]
        /\ persistLocked(m, h, saved)
    BY <1>4 DEF ApplyMerged
  <2>2. /\ MaxUpdated(h, hwm[m]) \in Nat
        /\ \A i \in Id : h.node[i].upd <= MaxUpdated(h, hwm[m])
    BY <1>1, <1>2, MaxUpdatedBound
  <2>3. hwm' = [hwm EXCEPT ![m] = hwm'[m]] /\ hwm'[m] = MaxUpdated(h, hwm[m])
    BY <1>1, <2>1
  <2> HIDE DEF h
  <2> QED
    BY <1>2, <2>1, <2>2, <2>3, PersistEffect, ZenonT(60)
<1> QED
  BY <1>3, <1>4

LEMMA ReplaceEffect ==
  ASSUME MemInv, NEW m \in Member, NEW bp \in Graph, NEW saved \in BOOLEAN, Replace(m, bp, saved)
  PROVE  Effect(m)
<1> DEFINE h == MarkImported(bp)
<1>1. h \in Graph
  BY MarkImportedType
<1>2. MaxUpdated(h, 0) \in Nat /\ \A i \in Id : h.node[i].upd <= MaxUpdated(h, 0)
  BY <1>1, MaxUpdatedBound
<1>3. /\ hwm' = [hwm EXCEPT ![m] = MaxUpdated(h, 0)] /\ persistLocked(m, h, saved)
      /\ written' = written \cup Pairs(h) /\ replaced' = [replaced EXCEPT ![m] = @ + 1]
  BY DEF Replace
<1>4. hwm' = [hwm EXCEPT ![m] = hwm'[m]] /\ hwm'[m] = MaxUpdated(h, 0)
  BY <1>3 DEF MemInv, MemTypeOK
<1> HIDE DEF h
<1>5. written \subseteq written' /\ Pairs(h) \subseteq written'
  BY <1>3
<1>6. hwm'[m] \in Nat /\ \A i \in Id : h.node[i].upd <= hwm'[m]
  BY <1>2, <1>4
<1>7. persistLocked(m, h, saved) /\ replaced' = [replaced EXCEPT ![m] = @ + 1]
  BY <1>3
<1> QED
  BY <1>1, <1>4, <1>5, <1>6, <1>7, PersistEffect

LEMMA ReloadEffect ==
  ASSUME MemInv, NEW m \in Member, NewService(m)
  PROVE  Effect(m)
<1>1. /\ g \in [Member -> Graph] /\ disk \in [Member -> Graph] /\ hwm \in [Member -> Nat]
      /\ DOMAIN dig = Member /\ Pairs(disk[m]) \subseteq written
  BY DEF MemInv, MemTypeOK, HeldWritten
<1>2. /\ g' = [g EXCEPT ![m] = disk[m]] /\ UNCHANGED <<disk, written, replaced>>
      /\ dig' = [dig EXCEPT ![m] = Digest(disk[m])]
      /\ hwm' = [hwm EXCEPT ![m] = MaxUpdated(disk[m], 0)]
  BY DEF NewService
<1>3. /\ MaxUpdated(disk[m], 0) \in Nat
      /\ \A i \in Id : disk[m].node[i].upd <= MaxUpdated(disk[m], 0)
  BY <1>1, MaxUpdatedBound
<1>4. /\ g'[m] = disk[m] /\ disk'[m] = disk[m] /\ hwm'[m] = MaxUpdated(disk[m], 0)
      /\ g' = [g EXCEPT ![m] = g'[m]] /\ disk' = [disk EXCEPT ![m] = disk'[m]]
      /\ hwm' = [hwm EXCEPT ![m] = hwm'[m]]
  BY <1>1, <1>2
<1> QED
  BY <1>1, <1>2, <1>3, <1>4 DEF Effect

\* Every step of the system is such a step of one member's Service.
LEMMA StepEffect ==
  ASSUME MemInv, MemNext
  PROVE  \E m \in Member : Effect(m)
<1>1. PICK m \in Member :
        \/ handleNode(m) \/ RecordSystemEvent(m) \/ handleEdge(m)
        \/ \E s \in Id \cup {NoId} : cmdMemoryExport(m, s)
        \/ cmdMemoryImport(m) \/ \E saved \in BOOLEAN : cmdMemoryWipe(m, saved)
        \/ NewService(m)
        \/ \E p \in Member : SyncStep(m, p) \/ ApplyRemote(m, p, FALSE) \/ FetchFail(m, p)
  BY DEF MemNext
<1>2. Clock[m] \subseteq Nat \ {0}
  BY ClockAssumption
<1>3. CASE handleNode(m)
  BY <1>2, <1>3, AddEffect DEF handleNode
<1>4. CASE RecordSystemEvent(m)
  BY <1>2, <1>4, AddEffect, BodyMapAssumption DEF RecordSystemEvent
<1>5. CASE handleEdge(m)
  BY <1>5, EdgeEffect DEF handleEdge
<1>6. ASSUME UNCHANGED <<g, disk, dig, hwm, written, replaced>> PROVE Effect(m)
  <2>1. hwm' = [hwm EXCEPT ![m] = hwm'[m]] /\ hwm'[m] \in Nat /\ hwm'[m] >= hwm[m]
    BY <1>6 DEF MemInv, MemTypeOK
  <2> QED
    BY <1>6, <2>1, IdleEffect
<1>7. CASE \E s \in Id \cup {NoId} : cmdMemoryExport(m, s)
  BY <1>6, <1>7 DEF cmdMemoryExport
<1>8. CASE cmdMemoryImport(m)
  <2>1. PICK saved \in BOOLEAN, bp \in file : ImportMerge(m, bp, saved) \/ Replace(m, bp, saved)
    BY <1>8 DEF cmdMemoryImport
  <2>2. bp \in Graph
    BY DEF MemInv, MemTypeOK
  <2>3. CASE Replace(m, bp, saved)
    BY <2>2, <2>3, ReplaceEffect
  <2>4. CASE ImportMerge(m, bp, saved)
    <3>1. /\ ApplyMerged(m, MarkImported(bp), saved) /\ replaced' = replaced
          /\ written \subseteq written' /\ Pairs(MarkImported(bp)) \subseteq written'
      BY <2>4 DEF ImportMerge
    <3>2. MarkImported(bp) \in Graph
      BY <2>2, MarkImportedType
    <3> QED
      BY <3>1, <3>2, MergedEffect
  <2> QED
    BY <2>1, <2>3, <2>4
<1>9. CASE \E saved \in BOOLEAN : cmdMemoryWipe(m, saved)
  BY <1>9, ReplaceEffect, NewGraphType DEF cmdMemoryWipe
<1>10. CASE NewService(m)
  BY <1>10, ReloadEffect
<1>11. ASSUME NEW p \in Member, NEW saved \in BOOLEAN, ApplyRemote(m, p, saved) PROVE Effect(m)
  <2>1. job[m][p].gr \in Graph /\ Pairs(job[m][p].gr) \subseteq written
    BY DEF MemInv, MemTypeOK, Job, HeldWritten
  <2>2. ApplyMerged(m, job[m][p].gr, saved) /\ UNCHANGED <<written, replaced>>
    BY <1>11 DEF ApplyRemote
  <2> QED
    BY <2>1, <2>2, MergedEffect
<1>12. CASE \E p \in Member : SyncStep(m, p) \/ ApplyRemote(m, p, FALSE) \/ FetchFail(m, p)
  BY <1>6, <1>11, <1>12 DEF SyncStep, MaybeSync, Fetch, FetchFail
<1> QED
  BY <1>1, <1>3, <1>4, <1>5, <1>7, <1>8, <1>9, <1>10, <1>12

-----------------------------------------------------------------------------
\* The counters stay numbers.
LEMMA StepCounts ==
  ASSUME MemInv, MemNext
  PROVE  edits' \in Nat /\ faults' \in Nat
<1> DEFINE Goal == edits' \in Nat /\ faults' \in Nat
<1>1. edits \in Nat /\ faults \in Nat
  BY DEF MemInv, MemTypeOK
<1>2. Edit => edits' \in Nat
  BY <1>1 DEF Edit
<1>3. /\ \A saved \in BOOLEAN : Fault(~ saved) => faults' \in Nat
      /\ \A out \in Outcome : Fault(out # "ok") => faults' \in Nat
      /\ Fault(TRUE) => faults' \in Nat
  BY <1>1 DEF Fault
<1>4. ASSUME NEW m, NEW k, NEW saved \in BOOLEAN, ApplyMerged(m, k, saved) PROVE faults' \in Nat
  <2>1. faults' = faults \/ Fault(~ saved)
    BY <1>4 DEF ApplyMerged
  <2> QED
    BY <1>1, <1>3, <2>1
<1>5. ASSUME NEW m, NEW i, NEW b, NEW now, NEW out \in Outcome, AddOrUpdateNode(m, i, b, now, out)
      PROVE  faults' \in Nat
  BY <1>3, <1>5 DEF AddOrUpdateNode
<1>6. ASSUME NEW m, handleNode(m) \/ RecordSystemEvent(m) PROVE Goal
  BY <1>2, <1>5, <1>6 DEF handleNode, RecordSystemEvent
<1>7. ASSUME NEW m, handleEdge(m) PROVE Goal
  BY <1>2, <1>3, <1>7 DEF handleEdge, AddEdge
<1>8. ASSUME NEW m, NEW bp, NEW saved \in BOOLEAN, ImportMerge(m, bp, saved) \/ Replace(m, bp, saved)
      PROVE  Goal
  <2>1. CASE ImportMerge(m, bp, saved)
    BY <1>2, <1>4, <2>1 DEF ImportMerge
  <2>2. CASE Replace(m, bp, saved)
    BY <1>2, <1>3, <2>2 DEF Replace
  <2> QED
    BY <1>8, <2>1, <2>2
<1>9. ASSUME NEW m, NEW p, NEW saved \in BOOLEAN, ApplyRemote(m, p, saved) PROVE Goal
  BY <1>1, <1>4, <1>9 DEF ApplyRemote
<1>10. ASSUME NEW m, NEW p, NEW s, \/ cmdMemoryExport(m, s) \/ NewService(m)
                                   \/ MaybeSync(m, p) \/ Fetch(m, p) \/ FetchFail(m, p)
       PROVE  Goal
  BY <1>1, <1>3, <1>10 DEF cmdMemoryExport, NewService, MaybeSync, Fetch, FetchFail
<1> HIDE DEF Goal
<1>11. Goal
  BY <1>6, <1>7, <1>8, <1>9, <1>10 DEF MemNext, cmdMemoryImport, cmdMemoryWipe, SyncStep
<1> QED
  BY <1>11 DEF Goal

\* A reply under way is a graph its sender held, and a blueprint is a graph.
LEMMA StepJobs ==
  ASSUME MemInv, MemNext
  PROVE  /\ job' \in [Member -> [Member -> Job]]
         /\ \A m, p \in Member : job'[m][p].gr \in {job[m][p].gr, NewGraph, g[p]}
         /\ file' \in SUBSET Graph
<1> DEFINE Goal == /\ job' \in [Member -> [Member -> Job]]
                   /\ \A m, p \in Member : job'[m][p].gr \in {job[m][p].gr, NewGraph, g[p]}
<1>1. g \in [Member -> Graph] /\ job \in [Member -> [Member -> Job]] /\ file \in SUBSET Graph
  BY DEF MemInv, MemTypeOK
<1>2. Idle \in Job /\ Idle.gr = NewGraph
  BY NewGraphType DEF Idle, Job
<1>3. job' = job => Goal
  BY <1>1
<1>4. ASSUME NEW m \in Member, NEW p \in Member, MaybeSync(m, p) PROVE Goal
  <2> DEFINE j == [job[m][p] EXCEPT !.st = "asked"]
  <2>1. j \in Job /\ j.gr = job[m][p].gr
    <3>1. job[m][p] \in Job
      BY <1>1
    <3>2. j = [st |-> "asked", gr |-> job[m][p].gr] /\ job[m][p].gr \in Graph
      BY <3>1 DEF Job
    <3> QED
      BY <3>2 DEF Job
  <2>2. job' = [job EXCEPT ![m] = [job[m] EXCEPT ![p] = j]]
    BY <1>4 DEF MaybeSync
  <2> HIDE DEF j
  <2> QED
    BY <1>1, <2>1, <2>2
<1>5. ASSUME NEW m \in Member, NEW p \in Member, NEW j \in Job, j.gr \in {NewGraph, g[p]},
             job' = [job EXCEPT ![m] = [job[m] EXCEPT ![p] = j]]
      PROVE  Goal
  BY <1>1, <1>5
<1>6. ASSUME NEW m \in Member, NEW p \in Member, Fetch(m, p) PROVE Goal
  <2>1. [st |-> "got", gr |-> g[p]] \in Job
    BY <1>1 DEF Job
  <2>2. job' = [job EXCEPT ![m] = [job[m] EXCEPT ![p] = [st |-> "got", gr |-> g[p]]]]
    BY <1>6 DEF Fetch
  <2> QED
    BY <1>5, <2>1, <2>2
<1>7. ASSUME NEW m \in Member, NEW p \in Member, NEW saved, FetchFail(m, p) \/ ApplyRemote(m, p, saved)
      PROVE  Goal
  <2>1. job' = [job EXCEPT ![m] = [job[m] EXCEPT ![p] = Idle]]
    BY <1>7 DEF FetchFail, ApplyRemote
  <2> QED
    BY <1>2, <1>5, <2>1
<1>8. ASSUME NEW m \in Member, NewService(m) PROVE Goal
  <2>1. job' = [job EXCEPT ![m] = [p \in Member |-> Idle]]
    BY <1>8 DEF NewService
  <2> QED
    BY <1>1, <1>2, <2>1
<1>9. \A m, i, b, now, out : AddOrUpdateNode(m, i, b, now, out) => UNCHANGED <<job, file>>
  BY DEF AddOrUpdateNode
<1>10. \A m, e, saved : AddEdge(m, e, saved) => UNCHANGED <<job, file>>
  BY DEF AddEdge
<1>11. \A m : handleNode(m) \/ RecordSystemEvent(m) \/ handleEdge(m) => UNCHANGED <<job, file>>
  BY <1>9, <1>10 DEF handleNode, RecordSystemEvent, handleEdge
<1>12. \A m, bp, saved : ImportMerge(m, bp, saved) \/ Replace(m, bp, saved) => UNCHANGED <<job, file>>
  BY DEF ImportMerge, Replace
<1>13. ASSUME NEW m \in Member, NEW s, cmdMemoryExport(m, s)
       PROVE  UNCHANGED job /\ file' \in SUBSET Graph
  BY <1>1, <1>13, ExportType DEF cmdMemoryExport
<1>14. /\ \A m : NewService(m) => UNCHANGED file
       /\ \A m, p : MaybeSync(m, p) \/ Fetch(m, p) \/ FetchFail(m, p) => UNCHANGED file
       /\ \A m, p, saved : ApplyRemote(m, p, saved) => UNCHANGED file
  BY DEF NewService, MaybeSync, Fetch, FetchFail, ApplyRemote
<1>15. file' \in SUBSET Graph
  <2> DEFINE Kept == file' \in SUBSET Graph
  <2>1. file' = file => Kept
    BY <1>1
  <2>2. \A m : handleNode(m) \/ RecordSystemEvent(m) \/ handleEdge(m) => Kept
    BY <1>11, <2>1
  <2>3. \A m, bp, saved : ImportMerge(m, bp, saved) \/ Replace(m, bp, saved) => Kept
    BY <1>12, <2>1
  <2>4. \A m \in Member : \A s : cmdMemoryExport(m, s) => Kept
    BY <1>13
  <2>5. /\ \A m : NewService(m) => Kept
        /\ \A m, p : MaybeSync(m, p) \/ Fetch(m, p) \/ FetchFail(m, p) => Kept
        /\ \A m, p, saved : ApplyRemote(m, p, saved) => Kept
    BY <1>14, <2>1
  <2> HIDE DEF Kept
  <2>6. Kept
    BY <2>2, <2>3, <2>4, <2>5 DEF MemNext, cmdMemoryImport, cmdMemoryWipe, SyncStep
  <2> QED
    BY <2>6 DEF Kept
<1>16. Goal
  <2> HIDE DEF Goal
  <2> QED
    BY <1>3, <1>4, <1>6, <1>7, <1>8, <1>11, <1>12, <1>13
       DEF MemNext, cmdMemoryImport, cmdMemoryWipe, SyncStep
<1> QED
  BY <1>15, <1>16

\* Only versions enter the history.
LEMMA StepWritten ==
  ASSUME MemInv, MemNext
  PROVE  written' \subseteq Id \X Version
<1> DEFINE Goal == written' \subseteq Id \X Version
<1>1. written \subseteq Id \X Version /\ file \subseteq Graph
  BY DEF MemInv, MemTypeOK
<1>2. written' = written => Goal
  BY <1>1
<1>3. ASSUME NEW m \in Member, NEW i \in Id, NEW b \in Body, NEW now \in Clock[m], NEW out \in Outcome,
             AddOrUpdateNode(m, i, b, now, out)
      PROVE  Goal
  <2>1. now \in Nat \ {0}
    BY ClockAssumption
  <2>2. stored(m, i, b, now) \in Version /\ written' \subseteq written \cup {<<i, stored(m, i, b, now)>>}
    BY <1>3, <2>1, StoredWins, AddEffect
  <2> QED
    BY <1>1, <2>2
<1>4. ASSUME NEW m, NEW bp \in Graph, NEW saved, ImportMerge(m, bp, saved) \/ Replace(m, bp, saved)
      PROVE  Goal
  <2>1. written' = written \cup Pairs(MarkImported(bp))
    BY <1>4 DEF ImportMerge, Replace
  <2>2. MarkImported(bp) \in Graph
    BY MarkImportedType
  <2> QED
    BY <1>1, <2>1, <2>2, PairsType
<1>5. \A m, e, saved : AddEdge(m, e, saved) => Goal
  BY <1>2 DEF AddEdge
<1>6. /\ \A m, s : cmdMemoryExport(m, s) => written' = written
      /\ \A m : NewService(m) => written' = written
      /\ \A m, p : MaybeSync(m, p) \/ Fetch(m, p) \/ FetchFail(m, p) => written' = written
      /\ \A m, p, saved : ApplyRemote(m, p, saved) => written' = written
  BY DEF cmdMemoryExport, NewService, MaybeSync, Fetch, FetchFail, ApplyRemote
<1> HIDE DEF Goal
<1>7. \A m \in Member : handleNode(m) \/ RecordSystemEvent(m) \/ handleEdge(m) => Goal
  BY <1>3, <1>5, BodyMapAssumption DEF handleNode, RecordSystemEvent, handleEdge
<1>8. \A m : cmdMemoryImport(m) \/ (\E saved \in BOOLEAN : cmdMemoryWipe(m, saved)) => Goal
  BY <1>1, <1>4, NewGraphType DEF cmdMemoryImport, cmdMemoryWipe
<1>9. Goal
  BY <1>2, <1>6, <1>7, <1>8 DEF MemNext, SyncStep
<1> QED
  BY <1>9 DEF Goal

LEMMA MemInitInv == MemInit => MemInv
<1> SUFFICES ASSUME MemInit PROVE MemInv
  OBVIOUS
<1>1. \A m \in Member : Start[m] \in Graph
  BY StartAssumption
<1>2. MemTypeOK
  <2>1. \A m \in Member : Digest(Start[m]) \in [node : [Id -> Nat \X Nat], edge : SUBSET Edge]
    BY <1>1, DigestType
  <2>2. \A m \in Member : MaxUpdated(Start[m], 0) \in Nat
    BY <1>1, MaxUpdatedBound
  <2>3. Idle \in Job
    BY NewGraphType DEF Idle, Job
  <2>4. written \subseteq Id \X Version
    BY <1>1, PairsType DEF MemInit
  <2> QED
    BY <2>1, <2>2, <2>3, <2>4, StartAssumption DEF MemInit, MemTypeOK
<1>3. DigestOfDisk
  BY DEF MemInit, DigestOfDisk
<1>4. HighWater
  BY <1>1, MaxUpdatedBound DEF MemInit, HighWater
<1>5. HeldWritten
  <2>1. Pairs(NewGraph) = {}
    BY NewGraphType DEF Pairs, Nodes, NewGraph
  <2>2. \A m, p \in Member : job[m][p].gr = NewGraph
    BY DEF MemInit, Idle
  <2>3. \A m \in Member : g[m] = Start[m] /\ disk[m] = Start[m] /\ Pairs(Start[m]) \subseteq written
    BY DEF MemInit
  <2> QED
    BY <2>1, <2>2, <2>3 DEF HeldWritten
<1> QED
  BY <1>2, <1>3, <1>4, <1>5 DEF MemInv

\* A step of one Service keeps the invariant, if the jobs, the blueprint file and
\* the histories stay what they are meant to be.
LEMMA EffectInv ==
  ASSUME MemInv, NEW m \in Member, Effect(m),
         job' \in [Member -> [Member -> Job]],
         \A n, p \in Member : job'[n][p].gr \in {job[n][p].gr, NewGraph, g[p]},
         file' \in SUBSET Graph, edits' \in Nat, faults' \in Nat,
         written' \subseteq Id \X Version
  PROVE  MemInv'
<1>1. /\ g \in [Member -> Graph] /\ disk \in [Member -> Graph] /\ hwm \in [Member -> Nat]
      /\ dig \in [Member -> [node : [Id -> Nat \X Nat], edge : SUBSET Edge]]
      /\ replaced \in [Member -> Nat]
  BY DEF MemInv, MemTypeOK
<1>2. /\ \A p \in Member \ {m} : g'[p] = g[p] /\ disk'[p] = disk[p] /\ dig'[p] = dig[p] /\ hwm'[p] = hwm[p]
      /\ dig'[m] = Digest(disk'[m])
  BY <1>1 DEF Effect
<1>3. MemTypeOK'
  <2>1. g' \in [Member -> Graph] /\ disk' \in [Member -> Graph] /\ hwm' \in [Member -> Nat]
    BY <1>1 DEF Effect
  <2>2. Digest(disk'[m]) \in [node : [Id -> Nat \X Nat], edge : SUBSET Edge]
    BY <2>1, DigestType
  <2>3. dig' \in [Member -> [node : [Id -> Nat \X Nat], edge : SUBSET Edge]]
    BY <1>1, <2>2 DEF Effect
  <2>4. replaced' \in [Member -> Nat]
    <3>1. replaced' = replaced \/ replaced' = [replaced EXCEPT ![m] = @ + 1]
      BY DEF Effect
    <3>2. replaced \in [Member -> Nat]
      BY <1>1
    <3> QED
      BY <3>1, <3>2
  <2> QED
    <3>1. written' \in SUBSET (Id \X Version)
      OBVIOUS
    <3> QED
      BY <2>1, <2>3, <2>4, <3>1 DEF MemTypeOK
<1>4. DigestOfDisk'
  BY <1>2 DEF MemInv, DigestOfDisk
<1>5. HighWater'
  BY <1>2 DEF Effect, MemInv, HighWater
<1>6. HeldWritten'
  <2>1. \A p \in Member : Pairs(g'[p]) \subseteq written' /\ Pairs(disk'[p]) \subseteq written'
    BY <1>2 DEF Effect, MemInv, HeldWritten
  <2>2. Pairs(NewGraph) = {}
    BY NewGraphType DEF Pairs, Nodes, NewGraph
  <2>3. ASSUME NEW n \in Member, NEW p \in Member PROVE Pairs(job'[n][p].gr) \subseteq written'
    <3>1. written \subseteq written'
      BY DEF Effect
    <3> QED
      BY <2>2, <3>1 DEF MemInv, HeldWritten
  <2> QED
    BY <2>1, <2>3 DEF HeldWritten
<1> QED
  BY <1>3, <1>4, <1>5, <1>6 DEF MemInv

LEMMA MemNextInv ==
  ASSUME MemInv, [MemNext]_memVars
  PROVE  MemInv'
<1>1. CASE UNCHANGED memVars
  BY <1>1 DEF memVars, MemInv, MemTypeOK, DigestOfDisk, HighWater, HeldWritten
<1>2. CASE MemNext
  BY <1>2, StepEffect, StepCounts, StepJobs, StepWritten, EffectInv
<1> QED
  BY <1>1, <1>2

-----------------------------------------------------------------------------
\* The inductive invariant of the memory Service.
THEOREM MemorySafe == MemSpec => []MemInv
<1>1. MemInv /\ [MemNext]_memVars => MemInv'
  BY MemNextInv
<1> QED
  BY <1>1, MemInitInv, PTL DEF MemSpec

\* The digest a heartbeat carries is that of memory.json (persistLocked).
THEOREM MemoryDigest == MemSpec => []DigestOfDisk
<1>1. MemInv => DigestOfDisk
  BY DEF MemInv
<1> QED
  BY <1>1, MemorySafe, PTL

\* maxUpdated bounds every stamp the member holds (stampLocked, ApplyRemote,
\* ImportGraph, NewService), for every clock and every graph received.
THEOREM MemoryHighWater == MemSpec => []HighWater
<1>1. MemInv => HighWater
  BY DEF MemInv
<1> QED
  BY <1>1, MemorySafe, PTL

\* Replacements and restarts aside, a step moves every working copy forward.
LEMMA StepForward ==
  ASSUME MemInv, MemNext
  PROVE  \A m \in Member :
           replaced'[m] = replaced[m] /\ g'[m] # disk[m] => Leq(g[m], g'[m])
<1>1. PICK m \in Member : Effect(m)
  BY StepEffect
<1>2. g \in [Member -> Graph] /\ replaced \in [Member -> Nat]
  BY DEF MemInv, MemTypeOK
<1>3. ASSUME NEW p \in Member, p # m PROVE Leq(g[p], g'[p])
  <2>1. g'[p] = g[p]
    BY <1>1, <1>2, <1>3 DEF Effect
  <2> QED
    BY <1>2, <2>1, LeqRefl
<1>4. replaced'[m] = replaced[m] => replaced' # [replaced EXCEPT ![m] = @ + 1]
  BY <1>2
<1>5. replaced'[m] = replaced[m] /\ g'[m] # disk[m] => Leq(g[m], g'[m])
  BY <1>1, <1>4 DEF Effect
<1> QED
  BY <1>3, <1>5

\* No step but a replacement or a restart makes a working copy lose a version
\* to one that does not win, or an edge.
THEOREM MemoryForward == MemSpec => NeverRewinds
<1>1. MemInv /\ [MemNext]_memVars
        => [\A m \in Member :
              replaced'[m] = replaced[m] /\ g'[m] # disk[m] => Leq(g[m], g'[m])]_memVars
  BY StepForward
<1> QED
  BY <1>1, MemorySafe, PTL DEF MemSpec, NeverRewinds

-----------------------------------------------------------------------------
\* MemoryAbs reads graphs as this module does.
LEMMA SameGraphs ==
  /\ Durable!Graph = Graph
  /\ \A h : Durable!Pairs(h) = Pairs(h)
  /\ \A h, k : Durable!Leq(h, k) = Leq(h, k)
BY DEF Durable!Graph, Durable!Slot, Durable!Version, Durable!Absent, Graph, Slot, Version, Absent,
       Durable!Pairs, Durable!Nodes, Pairs, Nodes,
       Durable!Leq, Durable!AtLeast, Durable!nodeWins, Leq, AtLeast, nodeWins

LEMMA AbstractInit == MemInit => Durable!AbsInit
<1> SUFFICES ASSUME MemInit PROVE Durable!AbsInit
  OBVIOUS
<1>1. \A m \in Member : disk[m] \in Graph /\ Pairs(disk[m]) \subseteq written /\ Leq(disk[m], g[m])
  BY StartAssumption, LeqRefl DEF MemInit
<1>2. {m \in Member : ~ Durable!Leq(disk[m], g[m])} = {}
  BY <1>1, SameGraphs
<1>3. \A m \in Member : disk[m] \in Durable!Graph /\ Durable!Pairs(disk[m]) \subseteq written
  BY <1>1, SameGraphs
<1> QED
  BY <1>1, <1>2, <1>3 DEF MemInit, Durable!AbsInit

\* A step of a Service is a step of MemoryAbs: what a failed replacement has
\* not yet erased from the disk is what `erasing` says of the member.
LEMMA AbstractStep ==
  ASSUME MemInv, NEW m \in Member, Effect(m)
  PROVE  Durable!Advance(m) \/ Durable!Replacement(m)
<1> DEFINE er == {p \in Member : ~ Leq(disk[p], g[p])}
           er2 == {p \in Member : ~ Leq(disk'[p], g'[p])}
<1>1. g \in [Member -> Graph] /\ disk \in [Member -> Graph]
  BY DEF MemInv, MemTypeOK
<1>2. g'[m] \in Graph /\ disk'[m] \in Graph /\ g[m] \in Graph /\ disk[m] \in Graph
  BY <1>1 DEF Effect
<1>3. \A p \in Member \ {m} : disk'[p] = disk[p] /\ g'[p] = g[p]
  BY <1>1 DEF Effect
<1>4. \A p \in Member \ {m} : p \in er2 <=> p \in er
  BY <1>3
<1>5. Durable!Local(m)
  <2>1. written \subseteq written' /\ Pairs(disk'[m]) \subseteq written'
    BY DEF Effect
  <2> QED
    BY <1>3, <1>4, <2>1, SameGraphs DEF Durable!Local
<1>6. CASE replaced' = [replaced EXCEPT ![m] = @ + 1]
  BY <1>5, <1>6 DEF Durable!Replacement
<1>7. CASE replaced' = replaced
  <2>1. \/ Leq(g[m], g'[m]) /\ disk'[m] \in {disk[m], g'[m]}
        \/ g'[m] = disk[m] /\ disk'[m] = disk[m]
        \/ replaced' = [replaced EXCEPT ![m] = @ + 1]
    BY DEF Effect
  <2>2. ASSUME Leq(disk[m], g[m]), ~ replaced' = [replaced EXCEPT ![m] = @ + 1]
        PROVE  Leq(disk[m], disk'[m]) /\ Leq(disk'[m], g'[m])
    <3>1. CASE g'[m] = disk[m] /\ disk'[m] = disk[m]
      BY <1>2, <3>1, LeqRefl
    <3>2. CASE Leq(g[m], g'[m]) /\ disk'[m] \in {disk[m], g'[m]}
      <4>1. Leq(disk[m], g'[m]) /\ Leq(disk[m], disk[m]) /\ Leq(g'[m], g'[m])
        BY <1>2, <2>2, <3>2, LeqTrans, LeqRefl
      <4> QED
        BY <3>2, <4>1
    <3> QED
      BY <2>1, <2>2, <3>1, <3>2
  <2>3. m \notin er /\ ~ replaced' = [replaced EXCEPT ![m] = @ + 1]
          => Leq(disk[m], disk'[m]) /\ m \notin er2
    BY <2>2
  <2>4. CASE ~ replaced' = [replaced EXCEPT ![m] = @ + 1]
    BY <1>5, <1>7, <2>3, <2>4, SameGraphs DEF Durable!Advance
  <2> QED
    BY <1>6, <2>4
<1> QED
  BY <1>6, <1>7 DEF Effect

\* The durable graphs implement MemoryAbs: memory.json only ever holds versions
\* somebody wrote and only moves forward, unless the operator of that machine
\* asked for a replacement, whatever saves fail and whenever a Service restarts.
THEOREM MemoryImplements == MemSpec => DurableForward
<1>1. MemInv /\ [MemNext]_memVars => [Durable!AbsNext]_(Durable!absVars)
  <2>1. ASSUME UNCHANGED memVars PROVE UNCHANGED Durable!absVars
    BY <2>1 DEF memVars, Durable!absVars
  <2>2. ASSUME MemInv, MemNext PROVE Durable!AbsNext
    BY <2>2, StepEffect, AbstractStep DEF Durable!AbsNext
  <2> QED
    BY <2>1, <2>2
<1> QED
  BY <1>1, AbstractInit, MemorySafe, PTL DEF MemSpec, DurableForward, Durable!AbsSpec

-----------------------------------------------------------------------------
\* What the Scribe and the memory commands of people do to one member's graph,
\* for any bodies, ids and clocks, any number of clients, any budget, and any
\* failures of saves and restarts in between.

\* The unreviewed proposals of the Scribe in a graph.
Unreviewed(h) ==
  {i \in Nodes(h) : h.node[i].body.status = "proposed" /\ h.node[i].body.src = "scribe"}

\* People stand behind every active node of the Scribe in a graph.
Promoted(h) ==
  \A i \in Nodes(h) :
    h.node[i].body.src = "scribe" /\ h.node[i].body.status = "active" => <<i, h.node[i]>> \in people

\* A version older than another, or that same version, imported or not.
Older(a, b) ==
  \/ a.upd < b.upd
  \/ a.upd = b.upd /\ a.rev = b.rev /\ a.body.status = b.body.status

\* What a client is about to post, and what a pass is about to write.
InHand ==
  /\ \A c \in Client : cli[c].st = "post" => cli[c].id \in Id /\ cli[c].body \in Body
  /\ pass.st # "idle" => pass.now # 0
  /\ pass.st \in {"idle", "model"} => pass.left = 0

\* Neither the graph nor the disk, which a restart brings back, promotes.
Promotions == Promoted(g[Self]) /\ Promoted(disk[Self])

\* The proposals of a pass are counted before they are written.
Pending ==
  /\ Cardinality(Unreviewed(g[Self])) + pass.left <= Budget + MaxProposals + demoted
  /\ pass.st = "model" => Cardinality(Unreviewed(g[Self])) <= Budget + demoted
  /\ Cardinality(Unreviewed(disk[Self])) <= Budget + MaxProposals + demoted

\* The mark is behind everything offered.
Watched ==
  /\ seenFrom <= mark
  /\ \A k \in 1..Len(offered) : offered[k].chunk <= mark

\* While stamps are a record of the graph, the blueprint is behind it.
Behind ==
  replaced[Self] = 0 /\ ~ lost =>
    \A bp \in file : \A i \in Id : Older(bp.node[i], g[Self].node[i])

ScribeInv ==
  /\ MemInv /\ ScribeTypeOK /\ InHand
  /\ Promotions /\ Pending /\ Watched /\ FreshOnce /\ Behind

-----------------------------------------------------------------------------
\* What a step does to the nodes of the graph: nothing, one write that beats
\* all stamps, a merge of a blueprint, a replacement, or a reload.
NodesStay ==
  /\ g'[Self].node = g[Self].node /\ disk'[Self] \in {disk[Self], g'[Self]}
  /\ UNCHANGED replaced
  /\ file' = file \/ \E s : file' = {ExportBlueprint(g[Self], s)}

NodePut(i, v) ==
  /\ i \in Id /\ v \in Version /\ v.upd > hwm[Self]
  /\ \A j \in Id : g'[Self].node[j] = IF j = i THEN v ELSE g[Self].node[j]
  /\ disk'[Self] \in {disk[Self], g'[Self]}
  /\ UNCHANGED <<replaced, file>>

NodesMerged ==
  /\ \E bp \in file : \A j \in Id :
       g'[Self].node[j] = IF nodeWins(MarkImported(bp).node[j], g[Self].node[j])
                            THEN MarkImported(bp).node[j] ELSE g[Self].node[j]
  /\ disk'[Self] \in {disk[Self], g'[Self]}
  /\ UNCHANGED <<replaced, file>>

NodesSwapped ==
  /\ \E bp \in Graph : g'[Self] = MarkImported(bp)
  /\ disk'[Self] \in {disk[Self], g'[Self]}
  /\ replaced'[Self] > 0 /\ UNCHANGED file

NodesReloaded ==
  /\ g'[Self] = disk[Self] /\ disk'[Self] = disk[Self]
  /\ UNCHANGED <<replaced, file>>

LEMMA SelfType ==
  ASSUME MemInv
  PROVE  /\ Self \in Member
         /\ g[Self] \in Graph /\ disk[Self] \in Graph /\ hwm[Self] \in Nat
         /\ file \subseteq Graph /\ edits \in Nat /\ faults \in Nat
         /\ job \in [Member -> [Member -> Job]]
         /\ written \subseteq Id \X Version
         /\ g \in [Member -> Graph] /\ disk \in [Member -> Graph] /\ hwm \in [Member -> Nat]
         /\ replaced \in [Member -> Nat]
BY ScribeAssumption DEF MemInv, MemTypeOK

\* The counters stay numbers.
LEMMA CountsType ==
  ASSUME MemInv
  PROVE  /\ Edit => edits' \in Nat
         /\ \A saved \in BOOLEAN : Fault(~ saved) => faults' \in Nat
         /\ \A out \in Outcome : Fault(out # "ok") => faults' \in Nat
         /\ Fault(TRUE) => faults' \in Nat
BY SelfType DEF Edit, Fault

\* A step that leaves the Service alone, but for the count of faults.
LEMMA OpNone ==
  ASSUME MemInv, UNCHANGED <<g, disk, dig, hwm, job, written, replaced, edits>>, faults' \in Nat,
         file' = file \/ \E s : file' = {ExportBlueprint(g[Self], s)}
  PROVE  MemInv' /\ NodesStay
<1>1. hwm' = [hwm EXCEPT ![Self] = hwm'[Self]] /\ hwm'[Self] \in Nat /\ hwm'[Self] >= hwm[Self]
  BY SelfType
<1>2. Effect(Self)
  BY <1>1, SelfType, IdleEffect
<1>3. file' \in SUBSET Graph
  BY SelfType, ExportType
<1>4. /\ job' \in [Member -> [Member -> Job]]
      /\ \A n, p \in Member : job'[n][p].gr \in {job[n][p].gr, NewGraph, g[p]}
      /\ edits' \in Nat /\ written' \subseteq Id \X Version
  BY SelfType
<1>5. MemInv'
  BY <1>2, <1>3, <1>4, SelfType, EffectInv
<1> QED
  BY <1>5 DEF NodesStay

\* One write of AddOrUpdateNode.
LEMMA OpAdd ==
  ASSUME MemInv, NEW i \in Id, NEW b \in Body, NEW now \in Nat \ {0}, NEW out \in Outcome,
         Edit, AddOrUpdateNode(Self, i, b, now, out)
  PROVE  /\ MemInv'
         /\ out = "size" => NodesStay
         /\ out # "size" => NodePut(i, stored(Self, i, b, now))
<1> DEFINE v == stored(Self, i, b, now)
<1>1. v \in Version /\ v.upd > hwm[Self]
  BY SelfType, StoredWins
<1>2. Effect(Self) /\ written' \subseteq written \cup {<<i, v>>}
  BY SelfType, AddEffect
<1>3. written' \subseteq Id \X Version
  BY <1>1, <1>2, SelfType
<1>4. UNCHANGED <<job, file, replaced>> /\ Fault(out # "ok")
  BY DEF AddOrUpdateNode
<1>5. edits' \in Nat /\ faults' \in Nat /\ file' \in SUBSET Graph
  BY <1>4, CountsType, SelfType
<1>6. /\ job' \in [Member -> [Member -> Job]]
      /\ \A n, p \in Member : job'[n][p].gr \in {job[n][p].gr, NewGraph, g[p]}
  BY <1>4, SelfType
<1>7. MemInv'
  BY <1>2, <1>3, <1>5, <1>6, SelfType, EffectInv
<1>8. out = "size" => NodesStay
  BY <1>4 DEF AddOrUpdateNode, NodesStay
<1>9. ASSUME out # "size" PROVE NodePut(i, v)
  <2> DEFINE h == [g[Self] EXCEPT !.node[i] = v]
  <2>1. persistLocked(Self, h, out = "ok")
    BY <1>9 DEF AddOrUpdateNode
  <2>2. \A j \in Id : h.node[j] = IF j = i THEN v ELSE g[Self].node[j]
    <3>1. g[Self] \in Graph /\ v \in Version
      BY <1>1, SelfType
    <3> QED
      BY <3>1, GraphType
  <2> HIDE DEF h
  <2>3. g'[Self] = h /\ disk'[Self] \in {disk[Self], h}
    <3>1. CASE out = "ok"
      BY <2>1, <3>1, SelfType DEF persistLocked
    <3>2. CASE out # "ok"
      BY <2>1, <3>2, SelfType DEF persistLocked
    <3> QED
      BY <3>1, <3>2
  <2> QED
    BY <1>1, <1>4, <2>2, <2>3 DEF NodePut
<1> QED
  BY <1>7, <1>8, <1>9

\* An edge.
LEMMA OpEdge ==
  ASSUME MemInv, NEW e \in Edge, NEW saved \in BOOLEAN, AddEdge(Self, e, saved), edits' \in Nat
  PROVE  MemInv' /\ NodesStay
<1> DEFINE h == [g[Self] EXCEPT !.edge = @ \cup {e}]
<1>1. Effect(Self)
  BY SelfType, EdgeEffect
<1>2. UNCHANGED <<job, file, replaced, written>> /\ Fault(~ saved)
  BY DEF AddEdge
<1>3. faults' \in Nat /\ file' \in SUBSET Graph /\ written' \subseteq Id \X Version
  BY <1>2, CountsType, SelfType
<1>4. /\ job' \in [Member -> [Member -> Job]]
      /\ \A n, p \in Member : job'[n][p].gr \in {job[n][p].gr, NewGraph, g[p]}
  BY <1>2, SelfType
<1>5. MemInv'
  BY <1>1, <1>3, <1>4, SelfType, EffectInv
<1>6. persistLocked(Self, h, saved)
  BY DEF AddEdge
<1>7. h.node = g[Self].node
  BY SelfType, PutEdge
<1> HIDE DEF h
<1>8. g'[Self] = h /\ disk'[Self] \in {disk[Self], h}
  BY <1>6, SelfType DEF persistLocked
<1> QED
  BY <1>2, <1>5, <1>7, <1>8 DEF NodesStay

\* An import of a blueprint, merged.
LEMMA OpImport ==
  ASSUME MemInv, NEW bp \in file, NEW saved \in BOOLEAN, ImportMerge(Self, bp, saved)
  PROVE  MemInv' /\ (NodesStay \/ NodesMerged)
<1> DEFINE k == MarkImported(bp)
           h == Merge(g[Self], k)
<1>1. bp \in Graph /\ k \in Graph
  BY SelfType, MarkImportedType
<1>2. /\ ApplyMerged(Self, k, saved) /\ UNCHANGED <<job, file, replaced>>
      /\ written' = written \cup Pairs(k) /\ Edit
  BY DEF ImportMerge
<1>3. h \in Graph /\ \A j \in Id : h.node[j] = IF nodeWins(k.node[j], g[Self].node[j])
                                                  THEN k.node[j] ELSE g[Self].node[j]
  BY <1>1, SelfType, MergeType
<1>4. ASSUME Digest(h) = dig[Self] PROVE NodesStay
  <2>1. UNCHANGED <<g, disk, dig, hwm>> /\ faults' = faults
    BY <1>2, <1>4 DEF ApplyMerged
  <2> QED
    BY <1>2, <2>1 DEF NodesStay
<1>5. ASSUME Digest(h) # dig[Self] PROVE NodesMerged
  <2>1. persistLocked(Self, h, saved)
    BY <1>2, <1>5 DEF ApplyMerged
  <2>2. g'[Self] = h /\ disk'[Self] \in {disk[Self], h}
    <3> HIDE DEF h
    <3> QED
      BY <2>1, SelfType DEF persistLocked
  <2>3. \A j \in Id : g'[Self].node[j] = IF nodeWins(k.node[j], g[Self].node[j])
                                           THEN k.node[j] ELSE g[Self].node[j]
    <3> HIDE DEF h
    <3> QED
      BY <1>3, <2>2
  <2> QED
    BY <1>2, <2>2, <2>3 DEF NodesMerged
<1>6. faults' \in Nat
  <2>1. faults' = faults \/ Fault(~ saved)
    BY <1>2 DEF ApplyMerged
  <2> QED
    BY <2>1, CountsType, SelfType
<1>7. Pairs(k) \subseteq Id \X Version
  BY <1>1, PairsType
<1> HIDE DEF k, h
<1>8. Effect(Self)
  BY <1>1, <1>2, SelfType, MergedEffect
<1>9. edits' \in Nat /\ file' \in SUBSET Graph /\ written' \subseteq Id \X Version
  BY <1>2, <1>7, CountsType, SelfType
<1>10. /\ job' \in [Member -> [Member -> Job]]
       /\ \A n, p \in Member : job'[n][p].gr \in {job[n][p].gr, NewGraph, g[p]}
  BY <1>2, SelfType
<1>11. MemInv'
  BY <1>6, <1>8, <1>9, <1>10, SelfType, EffectInv
<1> QED
  BY <1>4, <1>5, <1>11

\* A replacement, by a blueprint or by nothing.
LEMMA OpReplace ==
  ASSUME MemInv, NEW bp \in Graph, NEW saved \in BOOLEAN, Replace(Self, bp, saved)
  PROVE  MemInv' /\ NodesSwapped
<1> DEFINE k == MarkImported(bp)
<1>1. k \in Graph /\ Pairs(k) \subseteq Id \X Version
  BY MarkImportedType, PairsType
<1>2. Effect(Self)
  BY SelfType, ReplaceEffect
<1>3. /\ UNCHANGED <<job, file>> /\ Edit /\ Fault(~ saved)
      /\ written' = written \cup Pairs(k) /\ persistLocked(Self, k, saved)
      /\ replaced' = [replaced EXCEPT ![Self] = @ + 1]
  BY DEF Replace
<1> HIDE DEF k
<1>4. edits' \in Nat /\ faults' \in Nat /\ file' \in SUBSET Graph /\ written' \subseteq Id \X Version
  BY <1>1, <1>3, CountsType, SelfType
<1>5. /\ job' \in [Member -> [Member -> Job]]
      /\ \A n, p \in Member : job'[n][p].gr \in {job[n][p].gr, NewGraph, g[p]}
  BY <1>3, SelfType
<1>6. MemInv'
  BY <1>2, <1>4, <1>5, SelfType, EffectInv
<1>7. replaced'[Self] > 0
  <2>1. replaced \in [Member -> Nat] /\ Self \in Member
    BY SelfType
  <2>2. replaced'[Self] = replaced[Self] + 1
    BY <1>3, <2>1
  <2> QED
    BY <2>1, <2>2
<1>8. g'[Self] = k /\ disk'[Self] \in {disk[Self], k}
  BY <1>3, SelfType DEF persistLocked
<1> QED
  BY <1>3, <1>6, <1>7, <1>8 DEF NodesSwapped, k

\* A restart of the Service.
LEMMA OpReload ==
  ASSUME MemInv, NewService(Self)
  PROVE  MemInv' /\ NodesReloaded
<1>1. Effect(Self)
  BY SelfType, ReloadEffect
<1>2. /\ UNCHANGED <<disk, file, edits, written, replaced>> /\ Fault(TRUE)
      /\ g' = [g EXCEPT ![Self] = disk[Self]]
      /\ job' = [job EXCEPT ![Self] = [p \in Member |-> Idle]]
  BY DEF NewService
<1>3. Idle \in Job /\ Idle.gr = NewGraph
  BY NewGraphType DEF Idle, Job
<1>4. /\ job' \in [Member -> [Member -> Job]]
      /\ \A n, p \in Member : job'[n][p].gr \in {job[n][p].gr, NewGraph, g[p]}
  BY <1>2, <1>3, SelfType
<1>5. edits' \in Nat /\ faults' \in Nat /\ file' \in SUBSET Graph /\ written' \subseteq Id \X Version
  BY <1>2, CountsType, SelfType
<1>6. MemInv'
  BY <1>1, <1>4, <1>5, SelfType, EffectInv
<1> QED
  BY <1>2, <1>6, SelfType DEF NodesReloaded

-----------------------------------------------------------------------------
\* The steps as the invariant sees them: what becomes of the nodes, of the
\* histories, and of the proposals a pass may still write.
StepStays ==
  /\ NodesStay /\ UNCHANGED <<people, lost>>
  /\ demoted' \in Nat /\ demoted' >= demoted
  /\ pass'.left <= pass.left /\ (pass'.st = "model" => pass.st = "model")

StepAsks ==
  /\ NodesStay /\ UNCHANGED <<people, lost, demoted>>
  /\ pass'.left = 0 /\ Cardinality(pendingProposals) <= Budget

StepDistills ==
  /\ NodesStay /\ UNCHANGED <<people, lost, demoted>>
  /\ pass.st = "model" /\ pass'.left \in 1..MaxProposals /\ pass'.st # "model"

StepProposes(i, v) ==
  /\ NodePut(i, v) /\ v.body.status = "proposed"
  /\ i \notin Nodes(g[Self]) \/ \E s \in Session : i = SummaryId[s]
  /\ pass.left > 0 /\ pass'.left = pass.left - 1 /\ pass'.st # "model"
  /\ UNCHANGED <<people, demoted, lost>>

StepPosts(i, v) ==
  /\ NodePut(i, v) /\ people' = people \cup {<<i, v>>}
  /\ demoted' = demoted + (IF v.body.status = "proposed" THEN 1 ELSE 0)
  /\ UNCHANGED <<lost, pass>>

StepImports == (NodesMerged \/ NodesSwapped) /\ UNCHANGED <<people, demoted, lost, pass>>

StepRestarts ==
  /\ NodesReloaded /\ UNCHANGED <<people, demoted>>
  /\ lost' = (lost \/ g[Self] # disk[Self]) /\ pass' = NoPass

LEMMA InvType ==
  ASSUME ScribeInv
  PROVE  /\ MemInv /\ ScribeTypeOK
         /\ pass.left \in Nat /\ pass.left <= MaxProposals /\ pass.now \in Nat
         /\ pass \in [st : {"idle", "model", "writing", "edge"}, left : 0..MaxProposals,
                      open : SUBSET Id, node : Id \cup {NoId}, now : Nat]
         /\ demoted \in Nat /\ Budget \in Nat /\ MaxProposals \in Nat /\ MaxProposals > 0
         /\ people \subseteq Id \X Version
BY ScribeAssumption DEF ScribeInv, ScribeTypeOK

\* A write keeps the status it is given: an update changes the provenance only.
LEMMA StoredStatus ==
  ASSUME MemInv, NEW i \in Id, NEW b \in Body, NEW now
  PROVE  stored(Self, i, b, now).body.status = b.status
<1>1. i \in Nodes(g[Self]) => g[Self].node[i].body \in Body
  BY SelfType, PairsType DEF Version
<1> QED
  BY <1>1, ScribeBodies DEF stored

LEMMA PostStep ==
  ASSUME ScribeInv, NEW i \in Id, NEW b \in Body, NEW out \in Outcome, PostMemoryNode(i, b, out)
  PROVE  MemInv' /\ (StepStays \/ \E v : StepPosts(i, v))
<1>1. PICK now \in Clock[Self] :
        /\ AddOrUpdateNode(Self, i, b, now, out)
        /\ people' = IF out = "size" THEN people
                     ELSE people \cup {<<i, stored(Self, i, b, now)>>}
  BY DEF PostMemoryNode
<1>2. now \in Nat \ {0}
  BY ClockAssumption, ScribeAssumption
<1>3. /\ Edit /\ demoted' = demoted + (IF b.status = "proposed" THEN 1 ELSE 0)
      /\ lost' = lost /\ pass' = pass
  BY DEF PostMemoryNode, scribeVars
<1>4. /\ MemInv' /\ (out = "size" => NodesStay)
      /\ (out # "size" => NodePut(i, stored(Self, i, b, now)))
  BY <1>1, <1>2, <1>3, InvType, OpAdd
<1>5. demoted' \in Nat /\ demoted' >= demoted /\ pass'.left <= pass.left
  BY <1>3, InvType
<1>6. CASE out = "size"
  BY <1>1, <1>3, <1>4, <1>5, <1>6 DEF StepStays
<1>7. CASE out # "size"
  <2>1. stored(Self, i, b, now).body.status = b.status
    BY InvType, StoredStatus
  <2>2. StepPosts(i, stored(Self, i, b, now))
    BY <1>1, <1>3, <1>4, <1>7, <2>1 DEF StepPosts
  <2> QED
    BY <1>4, <2>2
<1> QED
  BY <1>6, <1>7

LEMMA ProposeStep ==
  ASSUME ScribeInv, NEW s \in Session \cup {NoId}, NEW i \in Id, NEW out \in Outcome,
         WriteProposal(s, i, out)
  PROVE  MemInv' /\ (StepStays \/ \E v : StepProposes(i, v))
<1>1. /\ pass.st = "writing" /\ pass.left > 0 /\ Edit
      /\ AddOrUpdateNode(Self, i, Proposal(s), pass.now, out)
      /\ i \in Minted("finding") \/ (s # NoId /\ i = SummaryId[s])
      /\ UNCHANGED <<people, demoted, lost>>
  BY DEF WriteProposal, peopleVars
<1>2. Proposal(s) \in Body /\ Proposal(s).status = "proposed"
  <2>1. Proposal(s) \in [type : {"finding"}, status : {"proposed"}, src : {"scribe"},
                         session : Session \cup {NoId}]
    BY DEF Proposal
  <2> QED
    BY <2>1, ScribeBodies DEF Proposal
<1>3. pass.now \in Nat \ {0}
  BY <1>1, InvType DEF ScribeInv, InHand
<1>4. pass'.left = pass.left - 1 /\ pass'.st # "model"
  <2>1. pass' = [pass EXCEPT !.left = pass.left - 1, !.node = i,
                             !.st = IF out = "ok" /\ s # NoId THEN "edge" ELSE "writing"]
    BY DEF WriteProposal
  <2> QED
    BY <2>1, InvType
<1>5. /\ MemInv' /\ (out = "size" => NodesStay)
      /\ (out # "size" => NodePut(i, stored(Self, i, Proposal(s), pass.now)))
  BY <1>1, <1>2, <1>3, InvType, OpAdd
<1>6. CASE out = "size"
  <2>1. demoted' \in Nat /\ demoted' >= demoted /\ pass'.left <= pass.left
    BY <1>1, <1>4, InvType
  <2> QED
    BY <1>1, <1>4, <1>5, <1>6, <2>1 DEF StepStays
<1>7. CASE out # "size"
  <2>1. stored(Self, i, Proposal(s), pass.now).body.status = "proposed"
    BY <1>2, InvType, StoredStatus
  <2>2. i \notin Nodes(g[Self]) \/ \E x \in Session : i = SummaryId[x]
    <3> DEFINE unused == {j \in Id \ Nodes(g[Self]) : /\ j \in Session <=> "finding" = "research_session"
                                                      /\ \A x \in Session : j # SummaryId[x]}
    <3>1. CASE i \in Minted("finding")
      <4>1. Minted("finding") \subseteq unused
        BY Zenon DEF Minted
      <4> QED
        BY <3>1, <4>1
    <3> QED
      BY <1>1, <3>1
  <2>3. StepProposes(i, stored(Self, i, Proposal(s), pass.now))
    BY <1>1, <1>4, <1>5, <1>7, <2>1, <2>2 DEF StepProposes
  <2> QED
    BY <1>5, <2>3
<1> QED
  BY <1>6, <1>7

\* The steps of a pass that leave the Service alone, and the commands that are
\* between two requests.
LEMMA ThinkStep ==
  ASSUME ScribeInv, UNCHANGED <<memVars, people, lost, demoted>>
  PROVE  /\ MemInv' /\ NodesStay
         /\ pass'.left <= pass.left /\ (pass'.st = "model" => pass.st = "model") => StepStays
<1>1. /\ UNCHANGED <<g, disk, dig, hwm, job, written, replaced, edits>> /\ faults' = faults
      /\ file' = file
  BY DEF memVars
<1>2. faults' \in Nat
  BY <1>1, InvType, SelfType
<1>3. MemInv' /\ NodesStay
  BY <1>1, <1>2, InvType, OpNone
<1>4. demoted' \in Nat /\ demoted' >= demoted
  BY InvType
<1> QED
  BY <1>3, <1>4 DEF StepStays

LEMMA EdgeStep ==
  ASSUME ScribeInv, NEW e \in Edge, NEW saved \in BOOLEAN, AddEdge(Self, e, saved), edits' \in Nat,
         UNCHANGED <<people, lost, demoted>>,
         pass'.left <= pass.left, pass'.st = "model" => pass.st = "model"
  PROVE  MemInv' /\ StepStays
<1>1. MemInv' /\ NodesStay
  BY InvType, OpEdge
<1>2. demoted' \in Nat /\ demoted' >= demoted
  BY InvType
<1> QED
  BY <1>1, <1>2 DEF StepStays

\* link, export, import and wipe.
LEMMA CommandStep ==
  ASSUME ScribeInv, OtherCommands
  PROVE  MemInv' /\ (StepStays \/ StepImports)
<1>1. /\ UNCHANGED <<people, lost, demoted>> /\ pass' = pass
      /\ pass'.left <= pass.left
  BY InvType DEF OtherCommands, scribeVars, peopleVars
<1>2. ASSUME NEW e \in Edge, NEW saved \in BOOLEAN, cmdMemoryLink(e, saved)
      PROVE  MemInv' /\ StepStays
  <2>1. edits' \in Nat /\ AddEdge(Self, e, saved)
    BY <1>2, InvType, CountsType DEF cmdMemoryLink
  <2> QED
    BY <1>1, <2>1, EdgeStep
<1>3. ASSUME NEW s, cmdMemoryExport(Self, s) PROVE MemInv' /\ StepStays
  <2>1. /\ UNCHANGED <<g, disk, dig, hwm, job, written, replaced, edits>> /\ faults' = faults
        /\ file' = {ExportBlueprint(g[Self], s)}
    BY <1>3 DEF cmdMemoryExport
  <2>2. faults' \in Nat
    BY <2>1, InvType, SelfType
  <2>3. MemInv' /\ NodesStay
    BY <2>1, <2>2, InvType, OpNone
  <2>4. demoted' \in Nat /\ demoted' >= demoted
    BY <1>1, InvType
  <2> QED
    BY <1>1, <2>3, <2>4 DEF StepStays
<1>4. NodesStay => StepStays
  <2>1. demoted' \in Nat /\ demoted' >= demoted
    BY <1>1, InvType
  <2> QED
    BY <1>1, <2>1 DEF StepStays
<1>5. ASSUME NEW bp \in Graph, NEW saved \in BOOLEAN, Replace(Self, bp, saved)
      PROVE  MemInv' /\ StepImports
  BY <1>1, <1>5, InvType, OpReplace DEF StepImports
<1>6. ASSUME NEW bp \in file, NEW saved \in BOOLEAN, ImportMerge(Self, bp, saved)
      PROVE  MemInv' /\ (StepStays \/ StepImports)
  BY <1>1, <1>4, <1>6, InvType, OpImport DEF StepImports
<1>7. file \subseteq Graph /\ NewGraph \in Graph
  BY InvType, SelfType, NewGraphType
<1> QED
  BY <1>2, <1>3, <1>5, <1>6, <1>7 DEF OtherCommands, cmdMemoryImport, cmdMemoryWipe

\* Every step is one of these.
LEMMA StepKinds ==
  ASSUME ScribeInv, ScribeNext
  PROVE  /\ MemInv'
         /\ \/ StepStays \/ StepAsks \/ StepDistills
            \/ \E i, v : StepProposes(i, v)
            \/ \E i, v : StepPosts(i, v)
            \/ StepImports \/ StepRestarts
<1> DEFINE Goal == /\ MemInv'
                   /\ \/ StepStays \/ StepAsks \/ StepDistills
                      \/ \E i, v : StepProposes(i, v)
                      \/ \E i, v : StepPosts(i, v)
                      \/ StepImports \/ StepRestarts
<1>1. /\ pass \in [st : {"idle", "model", "writing", "edge"}, left : 0..MaxProposals,
                   open : SUBSET Id, node : Id \cup {NoId}, now : Nat]
      /\ pass.left \in Nat
  BY InvType
<1>2. NoPass.left = 0 /\ NoPass.st = "idle"
  BY DEF NoPass
<1>3. ASSUME UNCHANGED <<memVars, people, lost, demoted>>,
             pass'.left <= pass.left, pass'.st = "model" => pass.st = "model"
      PROVE  Goal
  BY <1>3, ThinkStep
<1>4. ASSUME UNCHANGED <<memVars, people, lost, demoted>>, pass' = pass \/ pass' = NoPass PROVE Goal
  BY <1>1, <1>2, <1>3, <1>4
<1>5. ASSUME NEW now \in Clock[Self], tick(now) PROVE Goal
  <2>1. UNCHANGED <<memVars, people, lost, demoted>>
    BY <1>5 DEF tick, peopleVars
  <2>2. \/ pass' = pass
        \/ /\ pass' = [NoPass EXCEPT !.st = "model", !.now = now]
           /\ Cardinality(pendingProposals) <= Budget
    BY <1>5, Zenon DEF tick
  <2>3. CASE pass' = [NoPass EXCEPT !.st = "model", !.now = now] /\ Cardinality(pendingProposals) <= Budget
    <3>1. pass'.left = 0
      BY <2>3 DEF NoPass
    <3> QED
      BY <2>1, <2>3, <3>1, ThinkStep DEF StepAsks
  <2> QED
    BY <1>4, <2>1, <2>2, <2>3
<1>6. ASSUME DistillNothing \/ PassDone PROVE Goal
  BY <1>4, <1>6 DEF DistillNothing, PassDone, peopleVars
<1>7. ASSUME NEW n \in 1..MaxProposals, Distill(n) PROVE Goal
  <2>1. UNCHANGED <<memVars, people, lost, demoted>> /\ pass.st = "model"
    BY <1>7 DEF Distill, peopleVars
  <2>2. pass'.left = n /\ pass'.st = "writing"
    BY <1>1, <1>7 DEF Distill
  <2> QED
    BY <2>1, <2>2, ThinkStep DEF StepDistills
<1>8. ASSUME NEW s \in Session \cup {NoId}, NEW i \in Id, NEW out \in Outcome, WriteProposal(s, i, out)
      PROVE  Goal
  BY <1>8, ProposeStep
<1>9. ASSUME ProposalRefused PROVE Goal
  <2>1. UNCHANGED <<memVars, people, lost, demoted>> /\ pass.st = "writing"
    BY <1>9 DEF ProposalRefused, peopleVars
  <2>2. pass'.left = pass.left - 1 /\ pass'.st = pass.st
    BY <1>1, <1>9 DEF ProposalRefused
  <2>3. pass'.left <= pass.left
    BY <1>1, <2>2
  <2> QED
    BY <1>3, <2>1, <2>2, <2>3
<1>10. ASSUME NEW e \in Edge, NEW saved \in BOOLEAN, WriteEdge(e, saved) PROVE Goal
  <2>1. UNCHANGED <<people, lost, demoted>>
    BY <1>10 DEF WriteEdge, peopleVars
  <2>2. pass'.left = pass.left /\ pass'.st = "writing"
    BY <1>1, <1>10 DEF WriteEdge
  <2>3. pass'.left <= pass.left /\ pass'.st # "model"
    BY <1>1, <2>2
  <2>4. (AddEdge(Self, e, saved) /\ UNCHANGED edits) \/ UNCHANGED memVars
    BY <1>10 DEF WriteEdge
  <2>5. edits \in Nat
    BY InvType, SelfType
  <2> QED
    BY <1>3, <2>1, <2>3, <2>4, <2>5, EdgeStep
<1>11. ASSUME NEW i \in Id, NEW b \in Body, NEW out \in Outcome, PostMemoryNode(i, b, out) PROVE Goal
  BY <1>11, PostStep
<1>12. ASSUME NEW c \in Client, NEW i \in Id, NEW b \in Posted, NEW out \in Outcome,
              cmdMemoryAdd(c, i, b, out)
       PROVE  Goal
  BY <1>11, <1>12, ScribeAssumption DEF cmdMemoryAdd
<1>13. ASSUME NEW c \in Client, NEW saved \in BOOLEAN, AddSecondHalf(c, saved) PROVE Goal
  <2> DEFINE e == <<cli[c].id, cli[c].body.session>>
  <2>1. UNCHANGED <<people, lost, demoted>> /\ pass' = pass
    BY <1>13 DEF AddSecondHalf, scribeVars
  <2>2. (e \in Edge /\ AddEdge(Self, e, saved) /\ UNCHANGED edits) \/ UNCHANGED memVars
    BY <1>13 DEF AddSecondHalf
  <2>3. edits \in Nat /\ pass'.left <= pass.left /\ (pass'.st = "model" => pass.st = "model")
    BY <1>1, <2>1, InvType, SelfType
  <2> HIDE DEF e
  <2> QED
    BY <1>3, <2>1, <2>2, <2>3, EdgeStep
<1>14. ASSUME NEW c \in Client, NEW i \in Id, NEW out \in Outcome, cmdResearchStart(c, i, out)
       PROVE  Goal
  <2>1. NewSession \in Body
    BY ScribeBodies DEF NewSession
  <2> QED
    BY <1>11, <1>14, <2>1 DEF cmdResearchStart
<1>15. ASSUME NEW c \in Client, NEW i \in Id, ReadToArchive(c, i) \/ cmdResearchClose(c, i)
       PROVE  Goal
  BY <1>4, <1>15 DEF ReadToArchive, cmdResearchClose, scribeVars
<1>16. ASSUME NEW c \in Client, Killed(c) PROVE Goal
  BY <1>4, <1>16 DEF Killed, scribeVars
<1>17. ASSUME NEW c \in Client, NEW out \in Outcome, cmdMemoryArchive(c, out) PROVE Goal
  <2>1. cli[c].id \in Id /\ cli[c].body \in Body
    BY <1>17 DEF cmdMemoryArchive, ScribeInv, InHand
  <2> QED
    BY <1>11, <1>17, <2>1 DEF cmdMemoryArchive
<1>18. ASSUME OtherCommands PROVE Goal
  BY <1>18, CommandStep
<1>19. ASSUME LogGrows \/ RoleMoves PROVE Goal
  BY <1>4, <1>19 DEF LogGrows, RoleMoves, scribeVars, peopleVars
<1>20. ASSUME LogCut PROVE Goal
  <2>1. /\ UNCHANGED <<g, disk, dig, hwm, job, written, replaced, edits>> /\ file' = file
        /\ UNCHANGED <<people, lost, demoted>> /\ pass' = pass /\ Fault(TRUE)
    BY <1>20 DEF LogCut, peopleVars
  <2>2. faults' \in Nat
    BY <2>1, InvType, CountsType
  <2>3. MemInv' /\ NodesStay
    BY <2>1, <2>2, InvType, OpNone
  <2>4. demoted' \in Nat /\ demoted' >= demoted /\ pass'.left <= pass.left
    BY <2>1, InvType
  <2> QED
    BY <2>1, <2>3, <2>4 DEF StepStays
<1>21. ASSUME Restart PROVE Goal
  <2>1. /\ NewService(Self) /\ pass' = NoPass /\ UNCHANGED <<people, demoted>>
        /\ lost' = (lost \/ g[Self] # disk[Self])
    BY <1>21 DEF Restart
  <2> QED
    BY <2>1, InvType, OpReload DEF StepRestarts
<1>22. Goal
  <2> HIDE DEF Goal
  <2> QED
    BY <1>5, <1>6, <1>7, <1>8, <1>9, <1>10, <1>12, <1>13, <1>14, <1>15, <1>16, <1>17, <1>18,
       <1>19, <1>20, <1>21
       DEF ScribeNext
<1> QED
  BY <1>22

-----------------------------------------------------------------------------
\* The state of a pass.
PassSet == [st : {"idle", "model", "writing", "edge"}, left : 0..MaxProposals,
            open : SUBSET Id, node : Id \cup {NoId}, now : Nat]

PassInHand(p) ==
  /\ p \in PassSet
  /\ p.st # "idle" => p.now # 0
  /\ p.st \in {"idle", "model"} => p.left = 0

LEMMA NoPassInHand == PassInHand(NoPass)
BY ScribeAssumption DEF PassInHand, PassSet, NoPass

LEMMA PassStep ==
  ASSUME ScribeInv, ScribeNext
  PROVE  PassInHand(pass')
<1> DEFINE Goal == PassInHand(pass')
<1>1. pass \in PassSet /\ PassInHand(pass) /\ pass.left \in Nat /\ pass.left <= MaxProposals
  BY InvType DEF ScribeInv, InHand, PassInHand, PassSet
<1>2. pass' = pass \/ pass' = NoPass => Goal
  BY <1>1, NoPassInHand
<1>3. MaxProposals \in Nat /\ NoId \in Id \cup {NoId}
  BY InvType
<1>4. ASSUME NEW now \in Clock[Self], tick(now) PROVE Goal
  <2>1. \/ pass' = pass
        \/ pass' = [NoPass EXCEPT !.st = "model", !.now = now]
    BY <1>4, Zenon DEF tick
  <2>2. now \in Nat \ {0}
    BY ClockAssumption, ScribeAssumption
  <2>3. CASE pass' = [NoPass EXCEPT !.st = "model", !.now = now]
    <3>1. pass' = [st |-> "model", left |-> 0, open |-> {}, node |-> NoId, now |-> now]
      BY <2>3 DEF NoPass
    <3> QED
      BY <1>3, <2>2, <3>1 DEF PassInHand, PassSet
  <2> QED
    BY <1>2, <2>1, <2>3
<1>5. ASSUME NEW st \in {"writing", "edge"}, NEW n \in 0..MaxProposals, NEW o \in SUBSET Id,
             NEW i \in Id \cup {NoId}, pass.st # "idle",
             pass' = [pass EXCEPT !.st = st, !.left = n, !.open = o, !.node = i]
      PROVE  Goal
  <2>1. pass' = [st |-> st, left |-> n, open |-> o, node |-> i, now |-> pass.now]
    BY <1>1, <1>5 DEF PassSet
  <2>2. pass.now \in Nat /\ pass.now # 0
    BY <1>1, <1>5 DEF PassInHand, PassSet
  <2> QED
    BY <2>1, <2>2 DEF PassInHand, PassSet
<1>6. pass = [st |-> pass.st, left |-> pass.left, open |-> pass.open, node |-> pass.node, now |-> pass.now]
  BY <1>1 DEF PassSet
<1>7. pass.open \in SUBSET Id /\ pass.node \in Id \cup {NoId} /\ pass.left \in 0..MaxProposals
  BY <1>1 DEF PassSet
<1>8. ASSUME NEW n \in 1..MaxProposals, Distill(n) PROVE Goal
  <2>1. pass.st = "model" /\ pass' = [pass EXCEPT !.st = "writing", !.left = n, !.open = openSessions]
    BY <1>8 DEF Distill
  <2>2. pass' = [pass EXCEPT !.st = "writing", !.left = n, !.open = openSessions, !.node = pass.node]
    BY <1>6, <2>1
  <2>3. openSessions \in SUBSET Id /\ n \in 0..MaxProposals
    BY <1>3 DEF openSessions, Nodes
  <2> QED
    BY <1>5, <1>7, <2>1, <2>2, <2>3
<1>9. pass.left > 0 => pass.left - 1 \in 0..MaxProposals
  BY <1>1, <1>3
<1>10. ASSUME NEW s \in Session \cup {NoId}, NEW i \in Id, NEW out \in Outcome, WriteProposal(s, i, out)
      PROVE  Goal
  <2> DEFINE st2 == IF out = "ok" /\ s # NoId THEN "edge" ELSE "writing"
  <2>1. /\ pass.st = "writing" /\ pass.left > 0
        /\ pass' = [pass EXCEPT !.left = pass.left - 1, !.node = i, !.st = st2]
    BY <1>10 DEF WriteProposal
  <2>2. st2 \in {"writing", "edge"}
    OBVIOUS
  <2> HIDE DEF st2
  <2>3. pass' = [pass EXCEPT !.st = st2, !.left = pass.left - 1, !.open = pass.open, !.node = i]
    BY <1>6, <2>1
  <2>4. pass.left - 1 \in 0..MaxProposals /\ i \in Id \cup {NoId} /\ pass.st # "idle"
    BY <1>9, <2>1
  <2> QED
    BY <1>5, <1>7, <2>2, <2>3, <2>4
<1>11. ASSUME ProposalRefused PROVE Goal
  <2>1. /\ pass.st = "writing" /\ pass.left > 0 /\ pass' = [pass EXCEPT !.left = pass.left - 1]
    BY <1>11 DEF ProposalRefused
  <2>2. pass' = [pass EXCEPT !.st = "writing", !.left = pass.left - 1, !.open = pass.open, !.node = pass.node]
    BY <1>6, <2>1
  <2>3. pass.left - 1 \in 0..MaxProposals /\ pass.st # "idle"
    BY <1>9, <2>1
  <2> QED
    BY <1>5, <1>7, <2>2, <2>3
<1>12. ASSUME NEW e \in Edge, NEW saved \in BOOLEAN, WriteEdge(e, saved) PROVE Goal
  <2>1. pass.st = "edge" /\ pass' = [pass EXCEPT !.st = "writing"]
    BY <1>12 DEF WriteEdge
  <2>2. pass' = [pass EXCEPT !.st = "writing", !.left = pass.left, !.open = pass.open, !.node = pass.node]
    BY <1>6, <2>1
  <2>3. pass.st # "idle"
    BY <2>1
  <2> QED
    BY <1>5, <1>7, <2>2, <2>3
<1>13. DistillNothing \/ PassDone \/ Restart => Goal
  BY <1>2 DEF DistillNothing, PassDone, Restart
<1>14. LogGrows \/ LogCut \/ RoleMoves \/ OtherCommands => Goal
  BY <1>2 DEF LogGrows, LogCut, RoleMoves, OtherCommands, scribeVars
<1>15. \A i, b, out : PostMemoryNode(i, b, out) => pass' = pass
  BY DEF PostMemoryNode, scribeVars
<1>16. \A c, i, b, out : cmdMemoryAdd(c, i, b, out) => Goal
  BY <1>2, <1>15 DEF cmdMemoryAdd
<1>17. \A c, i, out : cmdResearchStart(c, i, out) => Goal
  BY <1>2, <1>15 DEF cmdResearchStart
<1>18. \A c, out : cmdMemoryArchive(c, out) => Goal
  BY <1>2, <1>15 DEF cmdMemoryArchive
<1>19. /\ \A c, saved : AddSecondHalf(c, saved) => Goal
       /\ \A c : Killed(c) => Goal
       /\ \A c, i : ReadToArchive(c, i) \/ cmdResearchClose(c, i) => Goal
  BY <1>2 DEF AddSecondHalf, Killed, ReadToArchive, cmdResearchClose, scribeVars
<1> HIDE DEF Goal
<1>20. Goal
  BY <1>4, <1>8, <1>10, <1>11, <1>12, <1>13, <1>14, <1>16, <1>17, <1>18, <1>19 DEF ScribeNext
<1> QED
  BY <1>20 DEF Goal

-----------------------------------------------------------------------------
\* What MarkImported hands over is nobody's proposal, and keeps stamp, revision
\* and status.
LEMMA ImportedSlot ==
  ASSUME NEW bp \in Graph, NEW j \in Id
  PROVE  LET w == MarkImported(bp).node[j]
         IN  /\ w # Absent => /\ w.body.src = "import" /\ w.body.status = bp.node[j].body.status
                              /\ w.upd = bp.node[j].upd /\ w.rev = bp.node[j].rev
             /\ w = Absent <=> bp.node[j] = Absent
<1> DEFINE w == MarkImported(bp).node[j]
<1>1. CASE j \in Nodes(bp)
  <2>1. bp.node[j] \in Version /\ bp.node[j] # Absent
    BY <1>1, PairsType DEF Nodes
  <2>2. w = [bp.node[j] EXCEPT !.body = Imported[bp.node[j].body]]
    BY <1>1, MarkImportedType
  <2>3. w = [upd |-> bp.node[j].upd, rev |-> bp.node[j].rev, body |-> Imported[bp.node[j].body]]
    BY <2>1, <2>2 DEF Version
  <2>4. bp.node[j].body \in Body /\ bp.node[j].upd \in Nat \ {0}
    BY <2>1 DEF Version
  <2>5. w # Absent
    BY <2>3, <2>4 DEF Absent
  <2> QED
    BY <2>1, <2>3, <2>4, <2>5, ScribeBodies
<1>2. CASE j \notin Nodes(bp)
  BY <1>2, MarkImportedType DEF Nodes
<1> QED
  BY <1>1, <1>2

\* How a graph can come to hold a node it did not: imported, proposed by the
\* Scribe or posted by people.
LEMMA StepSlots ==
  ASSUME ScribeInv,
         \/ StepStays \/ StepAsks \/ StepDistills
         \/ \E i, v : StepProposes(i, v)
         \/ \E i, v : StepPosts(i, v)
         \/ StepImports \/ StepRestarts
  PROVE  /\ people \subseteq people'
         /\ disk'[Self] \in {disk[Self], g'[Self]}
         /\ \/ g'[Self] = disk[Self]
            \/ \A j \in Nodes(g'[Self]) :
                 \/ j \in Nodes(g[Self]) /\ g'[Self].node[j] = g[Self].node[j]
                 \/ g'[Self].node[j].body.src = "import"
                 \/ g'[Self].node[j].body.status = "proposed"
                 \/ <<j, g'[Self].node[j]>> \in people'
<1>1. CASE StepStays \/ StepAsks \/ StepDistills
  BY <1>1 DEF StepStays, StepAsks, StepDistills, NodesStay, Nodes
<1>2. ASSUME NEW i, NEW v, StepProposes(i, v) \/ StepPosts(i, v)
      PROVE  /\ people \subseteq people' /\ disk'[Self] \in {disk[Self], g'[Self]}
             /\ \A j \in Nodes(g'[Self]) :
                 \/ j \in Nodes(g[Self]) /\ g'[Self].node[j] = g[Self].node[j]
                 \/ g'[Self].node[j].body.status = "proposed"
                 \/ <<j, g'[Self].node[j]>> \in people'
  BY <1>2 DEF StepProposes, StepPosts, NodePut, Nodes
<1>3. CASE StepImports
  <2>1. CASE NodesMerged
    <3>1. PICK bp \in file : \A j \in Id :
            g'[Self].node[j] = IF nodeWins(MarkImported(bp).node[j], g[Self].node[j])
                                 THEN MarkImported(bp).node[j] ELSE g[Self].node[j]
      BY <2>1 DEF NodesMerged
    <3>2. bp \in Graph
      BY InvType, SelfType
    <3>3. ASSUME NEW j \in Nodes(g'[Self])
          PROVE  \/ j \in Nodes(g[Self]) /\ g'[Self].node[j] = g[Self].node[j]
                 \/ g'[Self].node[j].body.src = "import"
      <4>1. j \in Id /\ g'[Self].node[j] # Absent
        BY DEF Nodes
      <4>2. g'[Self].node[j] = MarkImported(bp).node[j] \/ g'[Self].node[j] = g[Self].node[j]
        BY <3>1, <4>1
      <4>3. MarkImported(bp).node[j] # Absent => MarkImported(bp).node[j].body.src = "import"
        BY <3>2, <4>1, ImportedSlot
      <4> QED
        BY <4>1, <4>2, <4>3 DEF Nodes
    <3> QED
      BY <1>3, <2>1, <3>3 DEF NodesMerged, StepImports
  <2>2. CASE NodesSwapped
    <3>1. PICK bp \in Graph : g'[Self] = MarkImported(bp)
      BY <2>2 DEF NodesSwapped
    <3>2. \A j \in Nodes(g'[Self]) : g'[Self].node[j].body.src = "import"
      BY <3>1, ImportedSlot DEF Nodes
    <3> QED
      BY <1>3, <2>2, <3>2 DEF NodesSwapped, StepImports
  <2> QED
    BY <1>3, <2>1, <2>2 DEF StepImports
<1>4. CASE StepRestarts
  BY <1>4 DEF StepRestarts, NodesReloaded
<1> QED
  BY <1>1, <1>2, <1>3, <1>4

LEMMA PromotionsStep ==
  ASSUME ScribeInv, ScribeNext
  PROVE  Promotions'
<1> DEFINE Backed(h) == \A i \in Nodes(h) :
             h.node[i].body.src = "scribe" /\ h.node[i].body.status = "active" => <<i, h.node[i]>> \in people'
<1>1. /\ people \subseteq people'
      /\ disk'[Self] \in {disk[Self], g'[Self]}
      /\ \/ g'[Self] = disk[Self]
         \/ \A j \in Nodes(g'[Self]) :
              \/ j \in Nodes(g[Self]) /\ g'[Self].node[j] = g[Self].node[j]
              \/ g'[Self].node[j].body.src = "import"
              \/ g'[Self].node[j].body.status = "proposed"
              \/ <<j, g'[Self].node[j]>> \in people'
  BY StepKinds, StepSlots
<1>2. Backed(g[Self]) /\ Backed(disk[Self])
  BY <1>1 DEF ScribeInv, Promotions, Promoted
<1>3. Backed(g'[Self])
  <2>1. CASE g'[Self] = disk[Self]
    BY <1>2, <2>1
  <2>2. ASSUME NEW j \in Nodes(g'[Self]),
               \/ j \in Nodes(g[Self]) /\ g'[Self].node[j] = g[Self].node[j]
               \/ g'[Self].node[j].body.src = "import"
               \/ g'[Self].node[j].body.status = "proposed"
               \/ <<j, g'[Self].node[j]>> \in people',
               g'[Self].node[j].body.src = "scribe", g'[Self].node[j].body.status = "active"
        PROVE  <<j, g'[Self].node[j]>> \in people'
    BY <1>2, <2>2
  <2> QED
    BY <1>1, <2>1, <2>2
<1>4. Backed(disk'[Self])
  BY <1>1, <1>2, <1>3
<1>5. Promoted(g[Self])' /\ Promoted(disk[Self])'
  BY <1>3, <1>4 DEF Promoted, Nodes
<1> QED
  BY <1>5 DEF Promotions

-----------------------------------------------------------------------------
\* Counting unreviewed proposals.
LEMMA UnreviewedCount ==
  ASSUME NEW h, NEW k
  PROVE  /\ Cardinality(Unreviewed(h)) \in Nat
         /\ Unreviewed(k) \subseteq Unreviewed(h)
              => Cardinality(Unreviewed(k)) <= Cardinality(Unreviewed(h))
         /\ \A i : Unreviewed(k) \subseteq Unreviewed(h) \cup {i}
              => Cardinality(Unreviewed(k)) <= Cardinality(Unreviewed(h)) + 1
<1>1. IsFiniteSet(Unreviewed(h)) /\ IsFiniteSet(Unreviewed(k))
  <2>1. Unreviewed(h) \subseteq Id /\ Unreviewed(k) \subseteq Id
    BY DEF Unreviewed, Nodes
  <2> QED
    BY <2>1, MemberAssumption, FS_Subset
<1>2. Cardinality(Unreviewed(h)) \in Nat /\ Cardinality(Unreviewed(k)) \in Nat
  BY <1>1, FS_CardinalityType
<1>3. Unreviewed(k) \subseteq Unreviewed(h)
        => Cardinality(Unreviewed(k)) <= Cardinality(Unreviewed(h))
  BY <1>1, FS_Subset
<1>4. ASSUME NEW i, Unreviewed(k) \subseteq Unreviewed(h) \cup {i}
      PROVE  Cardinality(Unreviewed(k)) <= Cardinality(Unreviewed(h)) + 1
  <2>1. /\ IsFiniteSet(Unreviewed(h) \cup {i})
        /\ Cardinality(Unreviewed(h) \cup {i}) \in {Cardinality(Unreviewed(h)), Cardinality(Unreviewed(h)) + 1}
    BY <1>1, FS_AddElement
  <2>2. Cardinality(Unreviewed(k)) <= Cardinality(Unreviewed(h) \cup {i})
    BY <1>4, <2>1, FS_Subset
  <2> QED
    BY <1>2, <2>1, <2>2
<1> QED
  BY <1>2, <1>3, <1>4

\* Only a write can add to the unreviewed proposals, and only one.
LEMMA StayUnreviewed ==
  ASSUME NodesStay
  PROVE  Unreviewed(g'[Self]) = Unreviewed(g[Self])
BY DEF NodesStay, Unreviewed, Nodes

LEMMA PutUnreviewed ==
  ASSUME NEW i, NEW v, NodePut(i, v)
  PROVE  /\ Unreviewed(g'[Self]) \subseteq Unreviewed(g[Self]) \cup {i}
         /\ v.body.status # "proposed" => Unreviewed(g'[Self]) \subseteq Unreviewed(g[Self])
BY DEF NodePut, Unreviewed, Nodes

LEMMA ImportUnreviewed ==
  ASSUME ScribeInv, StepImports
  PROVE  Unreviewed(g'[Self]) \subseteq Unreviewed(g[Self])
<1>1. CASE NodesMerged
  <2>1. PICK bp \in file : \A j \in Id :
          g'[Self].node[j] = IF nodeWins(MarkImported(bp).node[j], g[Self].node[j])
                               THEN MarkImported(bp).node[j] ELSE g[Self].node[j]
    BY <1>1 DEF NodesMerged
  <2>2. bp \in Graph
    BY InvType, SelfType
  <2>3. ASSUME NEW j \in Unreviewed(g'[Self]) PROVE j \in Unreviewed(g[Self])
    <3>1. j \in Id /\ g'[Self].node[j] # Absent /\ g'[Self].node[j].body.src = "scribe"
      BY DEF Unreviewed, Nodes
    <3>2. g'[Self].node[j] = MarkImported(bp).node[j] \/ g'[Self].node[j] = g[Self].node[j]
      BY <2>1, <3>1
    <3>3. MarkImported(bp).node[j] # Absent => MarkImported(bp).node[j].body.src = "import"
      BY <2>2, <3>1, ImportedSlot
    <3>4. g'[Self].node[j] = g[Self].node[j]
      BY <3>1, <3>2, <3>3
    <3> QED
      BY <3>1, <3>4 DEF Unreviewed, Nodes
  <2> QED
    BY <2>3
<1>2. CASE NodesSwapped
  <2>1. PICK bp \in Graph : g'[Self] = MarkImported(bp)
    BY <1>2 DEF NodesSwapped
  <2>2. \A j \in Nodes(g'[Self]) : g'[Self].node[j].body.src = "import"
    BY <2>1, ImportedSlot DEF Nodes
  <2> QED
    BY <2>2 DEF Unreviewed
<1> QED
  BY <1>1, <1>2 DEF StepImports

LEMMA PendingStep ==
  ASSUME ScribeInv, ScribeNext
  PROVE  Pending'
<1> DEFINE cg == Cardinality(Unreviewed(g[Self]))
           cd == Cardinality(Unreviewed(disk[Self]))
           cg2 == Cardinality(Unreviewed(g'[Self]))
           cd2 == Cardinality(Unreviewed(disk'[Self]))
           left2 == pass'.left
           d2 == demoted'
           Goal == /\ cg2 + left2 <= Budget + MaxProposals + d2
                   /\ pass'.st = "model" => cg2 <= Budget + d2
                   /\ d2 \in Nat /\ d2 >= demoted
<1>1. /\ cg \in Nat /\ cd \in Nat /\ cg2 \in Nat /\ cd2 \in Nat
      /\ Budget \in Nat /\ MaxProposals \in Nat /\ demoted \in Nat /\ pass.left \in Nat
  BY InvType, UnreviewedCount
<1>2. /\ cg + pass.left <= Budget + MaxProposals + demoted
      /\ pass.st = "model" => cg <= Budget + demoted
      /\ cd <= Budget + MaxProposals + demoted
  BY DEF ScribeInv, Pending
<1>3. Unreviewed(g[Self]) = pendingProposals
  BY DEF Unreviewed, pendingProposals, BodyOf
<1>4. Unreviewed(g'[Self]) \subseteq Unreviewed(g[Self]) => cg2 <= cg
  BY UnreviewedCount
<1>5. \A i : Unreviewed(g'[Self]) \subseteq Unreviewed(g[Self]) \cup {i} => cg2 <= cg + 1
  BY UnreviewedCount
<1>6. NodesStay => cg2 = cg
  BY StayUnreviewed
<1>7. /\ left2 \in Nat /\ left2 <= MaxProposals
      /\ pass'.st \in {"idle", "model"} => left2 = 0
  <2>1. PassInHand(pass')
    BY PassStep
  <2> QED
    BY <1>1, <2>1 DEF PassInHand, PassSet
<1>8. cg = Cardinality(pendingProposals)
  BY <1>3
<1>9. g'[Self] = disk[Self] => cg2 = cd
  OBVIOUS
<1>10. disk'[Self] \in {disk[Self], g'[Self]} => cd2 = cd \/ cd2 = cg2
  OBVIOUS
<1> HIDE DEF cg, cg2, cd, cd2, left2, d2
<1>11. ASSUME StepStays PROVE Goal
  <2>1. /\ cg2 = cg /\ d2 \in Nat /\ d2 >= demoted /\ left2 <= pass.left
        /\ pass'.st = "model" => pass.st = "model"
    BY <1>6, <1>11 DEF StepStays, left2, d2
  <2>2. cg + pass.left <= Budget + MaxProposals + demoted /\ left2 \in Nat
    BY <1>2, <1>7
  <2>3. cg2 + left2 <= Budget + MaxProposals + d2
    BY <1>1, <2>1, <2>2
  <2>4. cg <= Budget + demoted => cg2 <= Budget + d2
    BY <1>1, <2>1
  <2> QED
    BY <1>2, <2>1, <2>3, <2>4
<1>12. ASSUME StepAsks PROVE Goal
  <2>1. cg2 = cg /\ d2 = demoted /\ left2 = 0 /\ cg <= Budget
    BY <1>6, <1>8, <1>12 DEF StepAsks, left2, d2
  <2> QED
    BY <1>1, <1>2, <1>7, <2>1
<1>13. ASSUME StepDistills PROVE Goal
  <2>1. cg2 = cg /\ d2 = demoted /\ pass.st = "model" /\ pass'.st # "model"
    BY <1>6, <1>13 DEF StepDistills, d2
  <2> QED
    BY <1>1, <1>2, <1>7, <2>1
<1>14. ASSUME NEW i, NEW v, StepProposes(i, v) PROVE Goal
  <2>1. /\ cg2 <= cg + 1 /\ d2 = demoted /\ pass'.st # "model" /\ left2 = pass.left - 1
    BY <1>5, <1>14, PutUnreviewed DEF StepProposes, left2, d2
  <2> QED
    BY <1>1, <1>2, <1>7, <2>1
<1>15. ASSUME NEW i, NEW v, StepPosts(i, v) PROVE Goal
  <2>1. left2 = pass.left /\ pass'.st = pass.st
    BY <1>15 DEF StepPosts, left2
  <2>2. CASE v.body.status = "proposed"
    <3>1. cg2 <= cg + 1 /\ d2 = demoted + 1
      BY <1>5, <1>15, <2>2, PutUnreviewed DEF StepPosts, d2
    <3> QED
      BY <1>1, <1>2, <1>7, <2>1, <3>1
  <2>3. CASE v.body.status # "proposed"
    <3>1. cg2 <= cg /\ d2 = demoted + 0
      BY <1>4, <1>15, <2>3, PutUnreviewed DEF StepPosts, d2
    <3> QED
      BY <1>1, <1>2, <1>7, <2>1, <3>1
  <2> QED
    BY <2>2, <2>3
<1>16. ASSUME StepImports PROVE Goal
  <2>1. cg2 <= cg /\ d2 = demoted /\ left2 = pass.left /\ pass'.st = pass.st
    BY <1>4, <1>16, ImportUnreviewed DEF StepImports, left2, d2
  <2> QED
    BY <1>1, <1>2, <1>7, <2>1
<1>17. ASSUME StepRestarts PROVE Goal
  <2>1. cg2 = cd /\ d2 = demoted /\ left2 = 0 /\ pass'.st # "model"
    BY <1>9, <1>17 DEF StepRestarts, NodesReloaded, NoPass, left2, d2
  <2> QED
    BY <1>1, <1>2, <1>7, <2>1
<1> HIDE DEF Goal
<1>18. Goal
  BY <1>11, <1>12, <1>13, <1>14, <1>15, <1>16, <1>17, StepKinds
<1>19. cd2 = cd \/ cd2 = cg2
  BY <1>10, StepKinds, StepSlots
<1>20. cd2 <= Budget + MaxProposals + d2
  <2>1. /\ d2 \in Nat /\ d2 >= demoted /\ left2 \in Nat
        /\ cg2 + left2 <= Budget + MaxProposals + d2
    BY <1>7, <1>18 DEF Goal
  <2>2. cd <= Budget + MaxProposals + demoted
    BY <1>2
  <2>3. cd2 = cg2 => cd2 <= Budget + MaxProposals + d2
    BY <1>1, <2>1
  <2>4. cd2 = cd => cd2 <= Budget + MaxProposals + d2
    BY <1>1, <2>1, <2>2
  <2> QED
    BY <1>19, <2>3, <2>4
<1> QED
  BY <1>18, <1>20 DEF Goal, Pending, Unreviewed, Nodes, cg2, cd2, left2, d2

-----------------------------------------------------------------------------
\* What wins against nothing is something.
LEMMA AbsentLoses ==
  ASSUME NEW a \in Slot
  PROVE  ~ nodeWins(Absent, a)
<1>1. CASE a = Absent
  <2>1. Absent \in Slot
    BY DEF Slot
  <2>2. ~ (Rank[Absent.body] > Rank[Absent.body]) /\ Absent.upd \in Nat /\ Absent.rev \in Nat
    BY <2>1, SlotType
  <2> QED
    BY <1>1, <2>2 DEF nodeWins
<1>2. CASE a # Absent
  <2>1. a.upd \in Nat \ {0}
    BY <1>2 DEF Slot, Version
  <2> QED
    BY <2>1 DEF nodeWins, Absent
<1> QED
  BY <1>1, <1>2

\* A blueprint behind the graph can win a tie only, by the hash: the merge then
\* changes neither stamp nor revision nor status.
LEMMA TieKeepsStatus ==
  ASSUME NEW bp \in Graph, NEW h \in Graph, NEW j \in Id, Older(bp.node[j], h.node[j]),
         nodeWins(MarkImported(bp).node[j], h.node[j])
  PROVE  LET w == MarkImported(bp).node[j]
         IN  w.upd = h.node[j].upd /\ w.rev = h.node[j].rev /\ w.body.status = h.node[j].body.status
<1> DEFINE w == MarkImported(bp).node[j]
<1>1. h.node[j] \in Slot /\ bp.node[j] \in Slot
  BY GraphType
<1>2. w # Absent
  BY <1>1, AbsentLoses
<1>3. w.body.status = bp.node[j].body.status /\ w.upd = bp.node[j].upd /\ w.rev = bp.node[j].rev
  BY <1>2, ImportedSlot
<1>4. /\ h.node[j].upd \in Nat /\ bp.node[j].upd \in Nat
      /\ w.upd >= h.node[j].upd
  <2>1. h.node[j].upd \in Nat /\ bp.node[j].upd \in Nat
    BY <1>1, SlotType
  <2> QED
    BY <1>3, <2>1 DEF nodeWins
<1>5. bp.node[j].upd = h.node[j].upd /\ bp.node[j].rev = h.node[j].rev
      /\ bp.node[j].body.status = h.node[j].body.status
  BY <1>3, <1>4 DEF Older
<1> QED
  BY <1>3, <1>5

\* A merge of the blueprint keeps the graph ahead of it.
LEMMA MergedKeepsStatus ==
  ASSUME ScribeInv, NodesMerged, replaced[Self] = 0, ~ lost, NEW j \in Id
  PROVE  /\ g'[Self].node[j].upd = g[Self].node[j].upd
         /\ g'[Self].node[j].rev = g[Self].node[j].rev
         /\ g'[Self].node[j].body.status = g[Self].node[j].body.status
<1>1. PICK bp \in file :
          g'[Self].node[j] = IF nodeWins(MarkImported(bp).node[j], g[Self].node[j])
                               THEN MarkImported(bp).node[j] ELSE g[Self].node[j]
  BY DEF NodesMerged
<1>2. bp \in Graph /\ g[Self] \in Graph
  BY InvType, SelfType
<1>3. Older(bp.node[j], g[Self].node[j])
  BY DEF ScribeInv, Behind
<1> QED
  BY <1>1, <1>2, <1>3, TieKeepsStatus

LEMMA BehindStep ==
  ASSUME ScribeInv, ScribeNext
  PROVE  Behind'
<1> SUFFICES ASSUME replaced'[Self] = 0, ~ lost', NEW bp \in file', NEW j \in Id
             PROVE  Older(bp.node[j], g'[Self].node[j])
  BY DEF Behind, Older
<1>1. g[Self] \in Graph /\ file \subseteq Graph /\ hwm[Self] \in Nat
  BY InvType, SelfType
<1>2. g[Self].node[j] \in Slot /\ g[Self].node[j].upd \in Nat /\ g[Self].node[j].upd <= hwm[Self]
  BY <1>1, GraphType, SlotType, InvType, SelfType DEF MemInv, HighWater
<1>3. ASSUME replaced' = replaced, lost' = lost, bp \in file
      PROVE  Older(bp.node[j], g[Self].node[j])
  BY <1>3 DEF ScribeInv, Behind
<1>4. CASE NodesStay /\ lost' = lost
  <2>1. g'[Self].node[j] = g[Self].node[j] /\ replaced' = replaced
    BY <1>4 DEF NodesStay
  <2>2. CASE file' = file
    BY <1>3, <1>4, <2>1, <2>2
  <2>3. ASSUME NEW s, file' = {ExportBlueprint(g[Self], s)} PROVE Older(bp.node[j], g'[Self].node[j])
    <3>1. bp.node[j] = g[Self].node[j] \/ bp.node[j] = Absent
      BY <2>3 DEF ExportBlueprint
    <3>2. CASE bp.node[j] = g[Self].node[j]
      BY <2>1, <3>2 DEF Older
    <3>3. CASE bp.node[j] = Absent /\ g[Self].node[j] # Absent
      <4>1. g[Self].node[j].upd > 0
        BY <1>2, <3>3 DEF Slot, Version
      <4> QED
        BY <2>1, <3>3, <4>1 DEF Older, Absent
    <3> QED
      BY <3>1, <3>2, <3>3
  <2> QED
    BY <1>4, <2>2, <2>3 DEF NodesStay
<1>5. ASSUME NEW i, NEW v, NodePut(i, v), lost' = lost PROVE Older(bp.node[j], g'[Self].node[j])
  <2>1. /\ replaced' = replaced /\ file' = file /\ v.upd > hwm[Self] /\ v \in Version
        /\ g'[Self].node[j] = IF j = i THEN v ELSE g[Self].node[j]
    BY <1>5 DEF NodePut
  <2>2. Older(bp.node[j], g[Self].node[j]) /\ bp \in Graph
    BY <1>1, <1>3, <1>5, <2>1
  <2>3. v.upd \in Nat /\ bp.node[j].upd \in Nat
    BY <2>1, <2>2, GraphType, SlotType DEF Version
  <2>4. bp.node[j].upd < v.upd
    BY <1>1, <1>2, <2>1, <2>2, <2>3 DEF Older
  <2> QED
    BY <2>1, <2>2, <2>4 DEF Older
<1>6. CASE NodesMerged /\ lost' = lost
  <2>1. replaced' = replaced /\ file' = file
    BY <1>6 DEF NodesMerged
  <2>2. replaced[Self] = 0 /\ ~ lost
    BY <1>6, <2>1
  <2>3. Older(bp.node[j], g[Self].node[j])
    BY <1>3, <1>6, <2>1
  <2> QED
    BY <1>6, <2>2, <2>3, MergedKeepsStatus DEF Older
<1>7. ~ NodesSwapped
  BY DEF NodesSwapped
<1>8. CASE StepRestarts
  <2>1. replaced' = replaced /\ file' = file /\ ~ lost /\ g[Self] = disk[Self] /\ g'[Self] = g[Self]
    BY <1>8 DEF StepRestarts, NodesReloaded
  <2> QED
    BY <2>1 DEF ScribeInv, Behind
<1>9. /\ StepStays \/ StepAsks \/ StepDistills => NodesStay /\ lost' = lost
      /\ \A i, v : StepProposes(i, v) \/ StepPosts(i, v) => NodePut(i, v) /\ lost' = lost
      /\ StepImports => NodesMerged /\ lost' = lost
  BY <1>7 DEF StepStays, StepAsks, StepDistills, StepProposes, StepPosts, StepImports
<1> QED
  BY <1>4, <1>5, <1>6, <1>8, <1>9, StepKinds

\* The step TombstonesHold is about.
LEMMA TombstoneStep ==
  ASSUME ScribeInv, ScribeNext, replaced'[Self] = 0, ~ lost',
         NEW i \in Nodes(g[Self]), BodyOf(i).status = "archived",
         g'[Self].node[i].body.status # "archived"
  PROVE  <<i, g'[Self].node[i]>> \in people' \/ \E s \in Session : i = SummaryId[s]
<1> DEFINE Goal == <<i, g'[Self].node[i]>> \in people' \/ \E s \in Session : i = SummaryId[s]
<1>1. i \in Id /\ g[Self].node[i].body.status = "archived"
  BY DEF Nodes, BodyOf
<1>2. g'[Self].node[i] # g[Self].node[i]
  BY <1>1
<1>3. StepStays \/ StepAsks \/ StepDistills => Goal
  BY <1>1, <1>2 DEF StepStays, StepAsks, StepDistills, NodesStay
<1>4. ASSUME NEW j, NEW v, StepProposes(j, v) PROVE Goal
  BY <1>1, <1>2, <1>4 DEF StepProposes, NodePut
<1>5. ASSUME NEW j, NEW v, StepPosts(j, v) PROVE Goal
  BY <1>1, <1>2, <1>5 DEF StepPosts, NodePut
<1>6. ASSUME StepImports PROVE Goal
  <2>1. NodesMerged /\ lost' = lost
    BY <1>6 DEF StepImports, NodesSwapped
  <2>2. replaced[Self] = 0 /\ ~ lost
    BY <2>1 DEF NodesMerged
  <2> QED
    BY <1>1, <2>1, <2>2, MergedKeepsStatus
<1>7. StepRestarts => Goal
  BY <1>2 DEF StepRestarts, NodesReloaded
<1> HIDE DEF Goal
<1>8. Goal
  BY <1>3, <1>4, <1>5, <1>6, <1>7, StepKinds
<1> QED
  BY <1>8 DEF Goal

-----------------------------------------------------------------------------
\* A chunk of the activity file as it was offered.
Chunk == [chunk : 1..MaxLog, since : 0..MaxLog]

\* The marks on the activity file and what was offered of it.
LogInv ==
  /\ log \in 0..MaxLog /\ mark \in 0..Unseen /\ seenFrom \in 0..MaxLog
  /\ fmark \in Nat /\ seeded \in BOOLEAN
  /\ offered \in Seq(Chunk)
  /\ Watched /\ FreshOnce

logVars == <<log, mark, fmark, seeded, offered, seenFrom>>

\* One more chunk, beyond the mark.
LEMMA OfferedOneMore ==
  ASSUME NEW s \in Seq(Chunk), NEW r \in Chunk, NEW top \in Nat, NEW end \in Nat,
         \A j \in 1..Len(s), k \in 1..Len(s) : j < k => s[j].chunk < s[k].chunk,
         \A k \in 1..Len(s) : s[k].chunk \in (s[k].since + 1)..end,
         \A k \in 1..Len(s) : s[k].chunk <= top,
         r.chunk = top + 1, r.chunk \in (r.since + 1)..end
  PROVE  LET u == s \o <<r>>
         IN  /\ u \in Seq(Chunk)
             /\ \A j \in 1..Len(u), k \in 1..Len(u) : j < k => u[j].chunk < u[k].chunk
             /\ \A k \in 1..Len(u) : u[k].chunk \in (u[k].since + 1)..end
             /\ \A k \in 1..Len(u) : u[k].chunk <= top + 1
<1> DEFINE u == s \o <<r>>
<1>1. /\ u \in Seq(Chunk) /\ Len(u) = Len(s) + 1 /\ Len(s) \in Nat
      /\ \A k \in 1..Len(s) : u[k] = s[k]
      /\ u[Len(s) + 1] = r
  OBVIOUS
<1>2. \A k \in 1..Len(s) : s[k] \in Chunk
  OBVIOUS
<1>3. \A k \in 1..Len(s) : s[k].chunk \in Nat
  BY <1>2, ScribeAssumption DEF Chunk
<1> HIDE DEF u
<1>4. \A k \in 1..Len(u) : k \in 1..Len(s) \/ k = Len(s) + 1
  BY <1>1
<1>5. \A k \in 1..Len(u) : u[k].chunk \in (u[k].since + 1)..end
  BY <1>1, <1>4
<1>6. \A k \in 1..Len(u) : u[k].chunk <= top + 1
  BY <1>1, <1>3, <1>4
<1>7. ASSUME NEW j \in 1..Len(u), NEW k \in 1..Len(u), j < k PROVE u[j].chunk < u[k].chunk
  <2>1. j \in 1..Len(s)
    BY <1>1, <1>7
  <2>2. CASE k \in 1..Len(s)
    BY <1>1, <1>7, <2>1, <2>2
  <2>3. CASE k = Len(s) + 1
    <3>1. u[j] = s[j] /\ u[k] = r /\ s[j].chunk <= top /\ s[j].chunk \in Nat
      BY <1>1, <1>3, <2>1, <2>3
    <3> QED
      BY <3>1
  <2> QED
    BY <1>4, <2>2, <2>3
<1> QED
  BY <1>1, <1>5, <1>6, <1>7 DEF u

LEMMA TickLog ==
  ASSUME LogInv, NEW now \in Clock[Self], tick(now)
  PROVE  LogInv'
<1>1. /\ log \in Nat /\ log <= MaxLog /\ mark \in Nat /\ seenFrom \in Nat /\ seenFrom <= MaxLog
      /\ MaxLog \in Nat /\ Unseen = MaxLog + 1 /\ mark <= MaxLog + 1
      /\ seenFrom <= mark /\ offered \in Seq(Chunk)
  BY ScribeAssumption DEF LogInv, Unseen, Watched
<1>2. /\ log' = log /\ fmark' = now /\ seeded' = TRUE
      /\ mark' = (IF Reseeds THEN log ELSE mark + Len(tailFile))
      /\ seenFrom' = (IF Reseeds THEN log ELSE seenFrom)
  BY DEF tick, gather
<1>3. offered' = offered \/ offered' = offered \o tailFile
  BY Zenon DEF tick
<1>4. fmark' \in Nat /\ seeded' \in BOOLEAN /\ log' \in 0..MaxLog
  BY <1>2, ClockAssumption, ScribeAssumption DEF LogInv
<1>5. /\ \A k \in 1..Len(offered) : offered[k].chunk <= mark
      /\ \A k \in 1..Len(offered) : offered[k].chunk \in (offered[k].since + 1)..log
      /\ \A j \in 1..Len(offered), k \in 1..Len(offered) : j < k => offered[j].chunk < offered[k].chunk
  BY DEF LogInv, Watched, FreshOnce
<1>6. \A k \in 1..Len(offered) : offered[k].chunk \in Nat /\ offered[k].chunk <= log
  <2>1. \A k \in 1..Len(offered) : offered[k] \in Chunk
    BY <1>1
  <2>2. \A k \in 1..Len(offered) : offered[k].chunk \in Nat /\ offered[k].since \in Nat
    BY <1>1, <2>1 DEF Chunk
  <2> QED
    BY <1>1, <1>5, <2>2
<1>7. CASE Reseeds \/ log = mark
  <2>1. tailFile = <<>> /\ Len(tailFile) = 0
    BY <1>7 DEF tailFile
  <2>2. offered' = offered
    BY <1>1, <1>3, <2>1
  <2>3. mark' = log /\ seenFrom' <= mark' /\ seenFrom' \in 0..MaxLog
    BY <1>1, <1>2, <1>7, <2>1
  <2>4. mark' \in 0..Unseen'
    BY <1>1, <2>3 DEF Unseen
  <2> QED
    BY <1>1, <1>2, <1>4, <1>5, <1>6, <2>2, <2>3, <2>4 DEF LogInv, Watched, FreshOnce
<1>8. CASE ~ (Reseeds \/ log = mark)
  <2> DEFINE r == [chunk |-> mark + 1, since |-> seenFrom]
  <2>1. tailFile = <<r>> /\ Len(tailFile) = 1 /\ mark < log /\ ~ Reseeds
    BY <1>1, <1>8 DEF tailFile, Reseeds
  <2>2. mark' = mark + 1 /\ seenFrom' = seenFrom
    BY <1>2, <2>1
  <2>3. r \in Chunk /\ r.chunk = mark + 1 /\ r.chunk \in (r.since + 1)..log
    BY <1>1, <2>1 DEF Chunk
  <2>4. mark' \in 0..Unseen' /\ seenFrom' <= mark' /\ seenFrom' \in 0..MaxLog
    BY <1>1, <2>1, <2>2 DEF Unseen
  <2>5. CASE offered' = offered
    <3>1. \A k \in 1..Len(offered) : offered[k].chunk <= mark + 1
      BY <1>1, <1>5, <1>6
    <3> QED
      BY <1>1, <1>2, <1>4, <1>5, <2>2, <2>4, <2>5, <3>1 DEF LogInv, Watched, FreshOnce
  <2>6. CASE offered' = offered \o <<r>>
    <3> HIDE DEF r
    <3> DEFINE u == offered \o <<r>>
    <3>1. /\ u \in Seq(Chunk)
          /\ \A j \in 1..Len(u), k \in 1..Len(u) : j < k => u[j].chunk < u[k].chunk
          /\ \A k \in 1..Len(u) : u[k].chunk \in (u[k].since + 1)..log
          /\ \A k \in 1..Len(u) : u[k].chunk <= mark + 1
      BY <1>1, <1>5, <2>3, OfferedOneMore
    <3>2. offered' = u
      BY <2>6
    <3> HIDE DEF u
    <3> QED
      BY <1>2, <1>4, <2>2, <2>4, <3>1, <3>2 DEF LogInv, Watched, FreshOnce
  <2> QED
    BY <1>3, <2>1, <2>5, <2>6
<1> QED
  BY <1>7, <1>8

LEMMA LogStep ==
  ASSUME ScribeInv, ScribeNext
  PROVE  LogInv' /\ role' \in BOOLEAN
<1> DEFINE Goal == LogInv' /\ role' \in BOOLEAN
<1>1. LogInv /\ role \in BOOLEAN
  BY DEF ScribeInv, ScribeTypeOK, LogInv, Chunk
<1>2. UNCHANGED logVars => LogInv'
  BY <1>1 DEF logVars, LogInv, Watched, FreshOnce, Unseen
<1>3. UNCHANGED logVars /\ role' = role => Goal
  BY <1>1, <1>2
<1>4. ASSUME NEW now \in Clock[Self], tick(now) PROVE Goal
  <2>1. role' = role
    BY <1>4 DEF tick
  <2> QED
    BY <1>1, <1>4, <2>1, TickLog
<1>5. ASSUME RoleMoves PROVE Goal
  <2>1. role' = ~ role /\ UNCHANGED logVars
    BY <1>5 DEF RoleMoves, logVars, scribeVars
  <2>2. role' \in BOOLEAN
    BY <2>1, Zenon
  <2> QED
    BY <1>2, <2>1, <2>2
<1>6. MaxLog \in Nat /\ log \in 0..MaxLog /\ seenFrom \in 0..MaxLog /\ mark \in 0..Unseen
      /\ offered \in Seq(Chunk) /\ Unseen = MaxLog + 1
  BY <1>1, ScribeAssumption DEF LogInv, Unseen
<1>7. \A k \in 1..Len(offered) : offered[k] \in Chunk
  BY <1>6
<1>8. \A k \in 1..Len(offered) : offered[k].chunk \in 1..MaxLog /\ offered[k].since \in 0..MaxLog
  BY <1>7 DEF Chunk
<1>9. ASSUME LogGrows PROVE Goal
  <2>1. /\ log < MaxLog /\ log' = log + 1 /\ role' = role
        /\ UNCHANGED <<mark, fmark, seeded, offered, seenFrom>>
    BY <1>9 DEF LogGrows, scribeVars
  <2>2. log' \in 0..MaxLog
    BY <1>6, <2>1
  <2>3. \A k \in 1..Len(offered) : offered[k].chunk \in (offered[k].since + 1)..log'
    <3>1. \A k \in 1..Len(offered) : offered[k].chunk \in (offered[k].since + 1)..log
      BY <1>1 DEF LogInv, FreshOnce
    <3> QED
      BY <1>6, <1>8, <2>1, <3>1
  <2> QED
    BY <1>1, <2>1, <2>2, <2>3 DEF LogInv, Watched, FreshOnce, Unseen
<1>10. ASSUME LogCut PROVE Goal
  <2>1. /\ log' = 0 /\ offered' = <<>> /\ seenFrom' = 0 /\ role' = role
        /\ UNCHANGED <<mark, fmark, seeded>>
    BY <1>10 DEF LogCut
  <2>2. 1..Len(offered') = {} /\ offered' \in Seq(Chunk)
    BY <2>1
  <2>3. 0 <= mark /\ 0 \in 0..MaxLog
    BY <1>6
  <2> QED
    BY <1>1, <2>1, <2>2, <2>3 DEF LogInv, Watched, FreshOnce, Unseen
<1>11. ASSUME Restart PROVE Goal
  <2>1. /\ mark' = Unseen /\ fmark' = 0 /\ seeded' = FALSE /\ role' = FALSE
        /\ UNCHANGED <<log, offered, seenFrom>>
    BY <1>11 DEF Restart
  <2>2. Unseen \in 0..Unseen /\ seenFrom <= Unseen
    BY <1>6
  <2>3. \A k \in 1..Len(offered) : offered[k].chunk <= Unseen
    BY <1>6, <1>8
  <2> QED
    BY <1>1, <2>1, <2>2, <2>3 DEF LogInv, Watched, FreshOnce, Unseen
<1>12. DistillNothing \/ PassDone \/ ProposalRefused \/ OtherCommands => Goal
  BY <1>3 DEF DistillNothing, PassDone, ProposalRefused, OtherCommands, logVars, scribeVars
<1>13. /\ \A n : Distill(n) => Goal
       /\ \A e, saved : WriteEdge(e, saved) => Goal
       /\ \A s, i, out : WriteProposal(s, i, out) => Goal
  BY <1>3 DEF Distill, WriteEdge, WriteProposal, logVars
<1>14. \A i, b, out : PostMemoryNode(i, b, out) => Goal
  BY <1>3 DEF PostMemoryNode, logVars, scribeVars
<1>15. /\ \A c, saved : AddSecondHalf(c, saved) => Goal
       /\ \A c : Killed(c) => Goal
       /\ \A c, i : ReadToArchive(c, i) \/ cmdResearchClose(c, i) => Goal
  BY <1>3 DEF AddSecondHalf, Killed, ReadToArchive, cmdResearchClose, logVars, scribeVars
<1> HIDE DEF Goal
<1>16. Goal
  BY <1>4, <1>5, <1>9, <1>10, <1>11, <1>12, <1>13, <1>14, <1>15
     DEF ScribeNext, cmdMemoryAdd, cmdResearchStart, cmdMemoryArchive
<1> QED
  BY <1>16 DEF Goal

-----------------------------------------------------------------------------
\* The command a client is in the middle of.
Command == [st : {"idle", "post", "edge"}, id : Id \cup {NoId}, body : Body \cup {NoBody}]

CmdInHand(f) ==
  /\ f \in [Client -> Command]
  /\ \A c \in Client : f[c].st = "post" => f[c].id \in Id /\ f[c].body \in Body

LEMMA CliStep ==
  ASSUME ScribeInv, ScribeNext
  PROVE  CmdInHand(cli')
<1> DEFINE Goal == CmdInHand(cli')
<1>1. CmdInHand(cli)
  BY DEF ScribeInv, ScribeTypeOK, InHand, CmdInHand, Command
<1>2. cli' = cli => Goal
  BY <1>1
<1>3. ASSUME NEW c \in Client, NEW x \in Command, x.st = "post" => x.id \in Id /\ x.body \in Body,
             cli' = [cli EXCEPT ![c] = x]
      PROVE  Goal
  BY <1>1, <1>3 DEF CmdInHand
<1>4. NoCmd \in Command /\ NoCmd.st # "post"
  BY DEF NoCmd, Command
<1>5. ASSUME NEW c \in Client, cli' = [cli EXCEPT ![c] = NoCmd] PROVE Goal
  BY <1>3, <1>4, <1>5
<1>6. ASSUME NEW c \in Client, NEW i \in Id, NEW b \in Posted, NEW out \in Outcome,
             cmdMemoryAdd(c, i, b, out)
      PROVE  Goal
  <2> DEFINE x == [st |-> "edge", id |-> i, body |-> b]
  <2>1. x \in Command /\ x.st # "post"
    BY ScribeAssumption DEF Command
  <2>2. cli' = cli \/ cli' = [cli EXCEPT ![c] = x]
    BY <1>6, Zenon DEF cmdMemoryAdd
  <2> HIDE DEF x
  <2> QED
    BY <1>2, <1>3, <2>1, <2>2
<1>7. ASSUME NEW c \in Client, NEW i \in Id, ReadToArchive(c, i) PROVE Goal
  <2> DEFINE b == [BodyOf(i) EXCEPT !.status = "archived"]
             x == [st |-> "post", id |-> i, body |-> b]
  <2>1. BodyOf(i) \in Body
    <3>1. i \in Nodes(g[Self])
      BY <1>7 DEF ReadToArchive
    <3> QED
      BY <3>1, InvType, SelfType, PairsType DEF BodyOf, Version
  <2>2. b \in Body
    BY <2>1, ScribeBodies
  <2>3. cli' = [cli EXCEPT ![c] = x]
    BY <1>7 DEF ReadToArchive
  <2> HIDE DEF b
  <2>4. x \in Command /\ x.id \in Id /\ x.body \in Body
    BY <2>2 DEF Command
  <2> HIDE DEF x
  <2> QED
    BY <1>3, <2>3, <2>4
<1>8. /\ \A c \in Client : \A saved : AddSecondHalf(c, saved) => Goal
      /\ \A c \in Client : Killed(c) => Goal
      /\ \A c \in Client : \A out : cmdMemoryArchive(c, out) => Goal
  BY <1>5 DEF AddSecondHalf, Killed, cmdMemoryArchive
<1>9. \A c, i, out : cmdResearchStart(c, i, out) => Goal
  BY <1>2 DEF cmdResearchStart
<1>10. \A c \in Client : \A i \in Id : cmdResearchClose(c, i) => Goal
  BY <1>7 DEF cmdResearchClose
<1>11. /\ DistillNothing \/ PassDone \/ ProposalRefused \/ OtherCommands => Goal
       /\ LogGrows \/ LogCut \/ RoleMoves \/ Restart => Goal
  BY <1>2 DEF DistillNothing, PassDone, ProposalRefused, OtherCommands,
              LogGrows, LogCut, RoleMoves, Restart, peopleVars
<1>12. /\ \A now : tick(now) => Goal
       /\ \A n : Distill(n) => Goal
       /\ \A e, saved : WriteEdge(e, saved) => Goal
       /\ \A s, i, out : WriteProposal(s, i, out) => Goal
  BY <1>2 DEF tick, Distill, WriteEdge, WriteProposal, peopleVars
<1> HIDE DEF Goal
<1>13. Goal
  BY <1>6, <1>7, <1>8, <1>9, <1>10, <1>11, <1>12 DEF ScribeNext
<1> QED
  BY <1>13 DEF Goal

LEMMA HistoryStep ==
  ASSUME ScribeInv, ScribeNext
  PROVE  people' \subseteq Id \X Version /\ demoted' \in Nat /\ lost' \in BOOLEAN
<1> DEFINE Goal == people' \subseteq Id \X Version /\ demoted' \in Nat /\ lost' \in BOOLEAN
<1>1. people \subseteq Id \X Version /\ demoted \in Nat /\ lost \in BOOLEAN
  BY DEF ScribeInv, ScribeTypeOK
<1>2. StepStays \/ StepAsks \/ StepDistills \/ StepImports => Goal
  BY <1>1 DEF StepStays, StepAsks, StepDistills, StepImports
<1>3. ASSUME NEW i, NEW v, StepProposes(i, v) PROVE Goal
  BY <1>1, <1>3 DEF StepProposes
<1>4. ASSUME NEW i, NEW v, StepPosts(i, v) PROVE Goal
  <2>1. people' \subseteq Id \X Version
    BY <1>1, <1>4 DEF StepPosts, NodePut
  <2>2. demoted' \in Nat /\ lost' = lost
    BY <1>1, <1>4 DEF StepPosts
  <2> QED
    BY <1>1, <2>1, <2>2
<1>5. ASSUME StepRestarts PROVE Goal
  <2>1. lost' = (lost \/ g[Self] # disk[Self]) /\ UNCHANGED <<people, demoted>>
    BY <1>5 DEF StepRestarts
  <2>2. lost' \in BOOLEAN
    BY <1>1, <2>1, Zenon
  <2> QED
    BY <1>1, <2>1, <2>2
<1> HIDE DEF Goal
<1>6. Goal
  BY <1>2, <1>3, <1>4, <1>5, StepKinds
<1> QED
  BY <1>6 DEF Goal

-----------------------------------------------------------------------------
LEMMA ScribeInitInv == ScribeInit => ScribeInv
<1> SUFFICES ASSUME ScribeInit PROVE ScribeInv
  OBVIOUS
<1>1. MemInv /\ MemTypeOK
  BY MemInitInv DEF ScribeInit, MemInv
<1>2. LogInv
  <2>1. 1..Len(offered) = {} /\ offered \in Seq(Chunk)
    BY DEF ScribeInit
  <2>2. /\ MaxLog \in Nat /\ Unseen = MaxLog + 1 /\ mark = Unseen /\ log = 0 /\ seenFrom = 0
        /\ fmark = 0 /\ seeded = FALSE
    BY ScribeAssumption DEF ScribeInit, Unseen
  <2>3. log \in 0..MaxLog /\ mark \in 0..Unseen /\ seenFrom \in 0..MaxLog /\ seenFrom <= mark
    BY <2>2
  <2> QED
    BY <2>1, <2>2, <2>3 DEF LogInv, Watched, FreshOnce
<1>3. PassInHand(pass)
  BY NoPassInHand DEF ScribeInit
<1>4. CmdInHand(cli)
  BY DEF ScribeInit, CmdInHand, NoCmd, Command
<1>5. ScribeTypeOK
  BY <1>1, <1>2, <1>3, <1>4
     DEF ScribeInit, ScribeTypeOK, LogInv, Chunk, PassInHand, PassSet, CmdInHand, Command
<1>6. InHand
  BY <1>3, <1>4 DEF InHand, PassInHand, CmdInHand
<1>7. g[Self] = Start[Self] /\ disk[Self] = Start[Self]
  BY DEF ScribeInit, MemInit
<1>8. Promotions
  BY <1>7, ScribeStart DEF Promotions, Promoted
<1>9. Pending
  <2>1. Unreviewed(g[Self]) = {} /\ Unreviewed(disk[Self]) = {}
    BY <1>7, ScribeStart DEF Unreviewed
  <2>2. Cardinality(Unreviewed(g[Self])) = 0 /\ Cardinality(Unreviewed(disk[Self])) = 0
    BY <2>1, FS_EmptySet
  <2>3. pass.left = 0 /\ pass.st = "idle" /\ demoted = 0
    BY DEF ScribeInit, NoPass
  <2> QED
    BY <2>2, <2>3, ScribeAssumption DEF Pending
<1>10. Behind
  BY DEF ScribeInit, MemInit, Behind
<1> QED
  BY <1>1, <1>2, <1>5, <1>6, <1>8, <1>9, <1>10 DEF ScribeInv, LogInv

LEMMA ScribeNextInv ==
  ASSUME ScribeInv, [ScribeNext]_allVars
  PROVE  ScribeInv'
<1>1. CASE ScribeNext
  <2>1. MemInv'
    BY <1>1, StepKinds
  <2>2. LogInv' /\ role' \in BOOLEAN
    BY <1>1, LogStep
  <2>3. PassInHand(pass') /\ CmdInHand(cli')
    BY <1>1, PassStep, CliStep
  <2>4. people' \subseteq Id \X Version /\ demoted' \in Nat /\ lost' \in BOOLEAN
    BY <1>1, HistoryStep
  <2>5. ScribeTypeOK'
    <3>1. MemTypeOK'
      BY <2>1 DEF MemInv
    <3> QED
      BY <2>2, <2>3, <2>4, <3>1
         DEF ScribeTypeOK, LogInv, Chunk, PassInHand, PassSet, CmdInHand, Command
  <2>6. InHand'
    BY <2>3 DEF InHand, PassInHand, CmdInHand
  <2>7. Promotions' /\ Pending' /\ Behind'
    BY <1>1, PromotionsStep, PendingStep, BehindStep
  <2> QED
    BY <2>1, <2>2, <2>5, <2>6, <2>7 DEF ScribeInv, LogInv
<1>2. CASE UNCHANGED allVars
  <2>1. UNCHANGED memVars
    BY <1>2 DEF allVars
  <2>2. MemInv'
    BY <2>1, MemNextInv DEF ScribeInv
  <2>3. /\ UNCHANGED <<log, role, mark, fmark, seeded, pass, offered, seenFrom>>
        /\ UNCHANGED <<cli, people, demoted, lost>>
    BY <1>2 DEF allVars, scribeVars, peopleVars
  <2>4. UNCHANGED <<g, disk, file, replaced>>
    BY <2>1 DEF memVars
  <2>5. ScribeTypeOK'
    BY <2>2, <2>3 DEF ScribeInv, ScribeTypeOK, MemInv, Unseen
  <2>6. InHand' /\ Watched' /\ FreshOnce'
    BY <2>3 DEF ScribeInv, InHand, Watched, FreshOnce
  <2>7. Promotions' /\ Pending'
    BY <2>3, <2>4 DEF ScribeInv, Promotions, Promoted, Pending, Unreviewed, Nodes
  <2>8. Behind'
    BY <2>3, <2>4 DEF ScribeInv, Behind, Older
  <2> QED
    BY <2>2, <2>5, <2>6, <2>7, <2>8 DEF ScribeInv
<1> QED
  BY <1>1, <1>2

-----------------------------------------------------------------------------
\* The inductive invariant of the Scribe and the commands.
THEOREM ScribeSafe == ScribeSpec => []ScribeInv
<1>1. ScribeInv /\ [ScribeNext]_allVars => ScribeInv'
  BY ScribeNextInv
<1> QED
  BY <1>1, ScribeInitInv, PTL DEF ScribeSpec

\* Nothing the Scribe wrote is active unless a person's command made it so:
\* writeProposals, AddOrUpdateNode's provenance rule, MarkImported and reloads.
THEOREM ScribePromotes == ScribeSpec => []PeoplePromote
<1>1. ScribeInv => PeoplePromote
  BY DEF ScribeInv, Promotions, Promoted, PeoplePromote, BodyOf
<1> QED
  BY <1>1, ScribeSafe, PTL

\* The budget tick tests once, before the model is asked, bounds the unreviewed
\* proposals at any time, restarts included.
THEOREM ScribePending == ScribeSpec => []PendingBounded
<1>1. ScribeInv => PendingBounded
  <2> SUFFICES ASSUME ScribeInv PROVE PendingBounded
    OBVIOUS
  <2>1. Unreviewed(g[Self]) = pendingProposals
    BY DEF Unreviewed, pendingProposals, BodyOf
  <2>2. Cardinality(Unreviewed(g[Self])) \in Nat
    BY UnreviewedCount
  <2>3. Cardinality(Unreviewed(g[Self])) + pass.left <= Budget + MaxProposals + demoted
    BY DEF ScribeInv, Pending
  <2>4. pass.left \in Nat /\ Budget \in Nat /\ MaxProposals \in Nat /\ demoted \in Nat
    BY InvType
  <2>5. Cardinality(Unreviewed(g[Self])) <= Budget + MaxProposals + demoted
    BY <2>2, <2>3, <2>4
  <2> QED
    BY <2>1, <2>5 DEF PendingBounded
<1> QED
  BY <1>1, ScribeSafe, PTL

\* gather hands each chunk of the activity file to the model at most once, in
\* order, and none that was there before the Scribe began to watch.
THEOREM ScribeFresh == ScribeSpec => []FreshOnce
<1>1. ScribeInv => FreshOnce
  BY DEF ScribeInv
<1> QED
  BY <1>1, ScribeSafe, PTL

\* An import of an older blueprint revives no archived node: Merge lets it win a
\* tie at most, and a tie keeps the status.
THEOREM ScribeTombstones == ScribeSpec => TombstonesHold
<1>1. ScribeInv /\ [ScribeNext]_allVars
        => [replaced'[Self] = 0 /\ ~ lost' =>
              \A i \in Nodes(g[Self]) :
                BodyOf(i).status = "archived" /\ g'[Self].node[i].body.status # "archived"
                  => <<i, g'[Self].node[i]>> \in people' \/ \E s \in Session : i = SummaryId[s]]_allVars
  BY TombstoneStep
<1> QED
  BY <1>1, ScribeSafe, PTL DEF ScribeSpec, TombstonesHold
=============================================================================
