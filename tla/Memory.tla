------------------------------- MODULE Memory -------------------------------
(***************************************************************************)
(* Clan Memory on every member: the Service that owns the graph, its disk  *)
(* copy and its cached digest (service.go), the gossip that heartbeats     *)
(* trigger (sync.go), the HTTP surface (handlers.go) and blueprints        *)
(* (blueprint.go), all of cland/internal/memory.                           *)
(*                                                                         *)
(* The Service holds its mutex over every operation, the save included, so *)
(* an operation is one step; a sync is three (compare digests and ask,     *)
(* read the reply, merge), and anything may happen between them.  A save   *)
(* may fail: the operation then returns an error, but the graph in memory  *)
(* keeps the change.  `now` is whatever the member's clock shows: clocks   *)
(* are skewed and may step, so any member of Clock[m].                     *)
(***************************************************************************)
EXTENDS MemoryGraph

CONSTANTS
  Member,
  Imported,    \* MarkImported: a body with its provenance source "import"
  Refiled,     \* Refiled[old][new]: new with the provenance of old
  SessionOf,   \* the session_id of a body, or NoId
  NoId,
  EventId, EventBody,  \* deterministic id and text of a system event
  MaxNodes,    \* the cap on nodes the write path enforces
  Start,       \* Start[m]: what m's memory.json holds at the beginning
  Clock,       \* Clock[m]: the readings m's wall clock may give
  MaxEdits,    \* bound: writes, imports and replacements
  MaxFaults    \* bound: failed saves, refused sizes, lost fetches, restarts

ASSUME MemberAssumption == IsFiniteSet(Member) /\ IsFiniteSet(Id)
ASSUME BodyMapAssumption ==
  /\ Imported \in [Body -> Body]
  /\ Refiled \in [Body -> [Body -> Body]]
  /\ NoId \notin Id /\ SessionOf \in [Body -> Id \cup {NoId}]
  /\ EventId \in Id /\ EventBody \in Body
ASSUME StartAssumption == Start \in [Member -> Graph]
ASSUME ClockAssumption == Clock \in [Member -> SUBSET (Nat \ {0})]
ASSUME MemoryBounds == MaxNodes \in Nat /\ MaxEdits \in Nat /\ MaxFaults \in Nat

VARIABLES
  g,         \* Service.g, the working copy
  disk,      \* memory.json
  dig,       \* Service.digest, the cached digest heartbeats carry
  hwm,       \* Service.maxUpdated
  job,       \* job[m][p]: m's sync with sender p (Syncer.inflight)
  file,      \* the blueprint file: {} or the one graph exported
  edits, faults,
  written,   \* history: every <<id, version>> written or imported
  replaced   \* history: replacements requested at each member

memVars == <<g, disk, dig, hwm, job, file, edits, faults, written, replaced>>

Idle == [st |-> "idle", gr |-> NewGraph]
Job == [st : {"idle", "asked", "got"}, gr : Graph]

MemTypeOK ==
  /\ g \in [Member -> Graph] /\ disk \in [Member -> Graph]
  /\ dig \in [Member -> [node : [Id -> Nat \X Nat], edge : SUBSET Edge]]
  /\ hwm \in [Member -> Nat]
  /\ job \in [Member -> [Member -> Job]]
  /\ file \in SUBSET Graph
  /\ edits \in Nat /\ faults \in Nat
  /\ written \in SUBSET (Id \X Version)
  /\ replaced \in [Member -> Nat]

MemInit ==
  /\ g = Start /\ disk = Start
  /\ dig = [m \in Member |-> Digest(Start[m])]
  /\ hwm = [m \in Member |-> MaxUpdated(Start[m], 0)]
  /\ job = [m \in Member |-> [p \in Member |-> Idle]]
  /\ file = {}
  /\ edits = 0 /\ faults = 0
  /\ written = UNION {Pairs(Start[m]) : m \in Member}
  /\ replaced = [m \in Member |-> 0]

Edit == edits < MaxEdits /\ edits' = edits + 1
Fault(bad) == (bad => faults < MaxFaults) /\ faults' = faults + (IF bad THEN 1 ELSE 0)

\* (faulty) persistLocked that caches the digest before the save.
persistDigestFirst(m, gr, saved) ==
  /\ g' = [g EXCEPT ![m] = gr]
  /\ disk' = IF saved THEN [disk EXCEPT ![m] = gr] ELSE disk
  /\ dig' = [dig EXCEPT ![m] = Digest(gr)]

\* (faulty) persistLocked that truncates memory.json before it writes.
persistInPlace(m, gr, saved) ==
  LET file0 == IF saved THEN gr ELSE NewGraph
  IN /\ g' = [g EXCEPT ![m] = gr]
     /\ disk' = [disk EXCEPT ![m] = file0]
     /\ dig' = [dig EXCEPT ![m] = Digest(file0)]

\* persistLocked: the digest follows the graph only if the save succeeds.
persistLocked(m, gr, saved) ==
  /\ g' = [g EXCEPT ![m] = gr]
  /\ disk' = IF saved THEN [disk EXCEPT ![m] = gr] ELSE disk
  /\ dig' = IF saved THEN [dig EXCEPT ![m] = Digest(gr)] ELSE dig

\* (faulty) stampLocked without the high-water mark.
stampWallClock(m, now) == now

\* stampLocked: max(now, maxUpdated + 1ns).
stampLocked(m, now) == IF now > hwm[m] THEN now ELSE hwm[m] + 1

-----------------------------------------------------------------------------
\* The version AddOrUpdateNode stores: created at revision 1, or one revision
\* above the stored node (not above the client's snapshot) and with the stored
\* node's provenance.
stored(m, i, b, now) ==
  [upd |-> stampLocked(m, now), rev |-> g[m].node[i].rev + 1,
   body |-> IF i \in Nodes(g[m]) THEN Refiled[g[m].node[i].body][b] ELSE b]

\* AddOrUpdateNode.  Outcomes: "ok"; "size", refused by checkSizeLocked after
\* the stamp has moved maxUpdated; "disk", applied in memory but not saved.
\* A create at the cap is refused before anything changes.
AddOrUpdateNode(m, i, b, now, out) ==
  LET v == stored(m, i, b, now)
  IN /\ i \in Nodes(g[m]) \/ Cardinality(Nodes(g[m])) < MaxNodes
     /\ Fault(out # "ok")
     /\ hwm' = [hwm EXCEPT ![m] = v.upd]
     /\ IF out = "size"
          THEN UNCHANGED <<g, disk, dig, written>>
          ELSE /\ persistLocked(m, [g[m] EXCEPT !.node[i] = v], out = "ok")
               /\ written' = written \cup {<<i, v>>}
     /\ UNCHANGED <<job, file, replaced>>

Outcome == {"ok", "size", "disk"}

\* POST /clan/memory/node.
handleNode(m) ==
  /\ Edit
  /\ \E i \in Id, b \in Body, now \in Clock[m], out \in Outcome :
       AddOrUpdateNode(m, i, b, now, out)

\* RecordSystemEvent: every observer writes the same deterministic id.
RecordSystemEvent(m) ==
  /\ Edit
  /\ \E now \in Clock[m], out \in Outcome : AddOrUpdateNode(m, EventId, EventBody, now, out)

\* AddEdge: a known edge is a no-op.
AddEdge(m, e, saved) ==
  /\ e \notin g[m].edge
  /\ Fault(~saved)
  /\ persistLocked(m, [g[m] EXCEPT !.edge = @ \cup {e}], saved)
  /\ UNCHANGED <<hwm, job, file, written, replaced>>

handleEdge(m) ==
  /\ Edit
  /\ \E e \in Edge, saved \in BOOLEAN : AddEdge(m, e, saved)

-----------------------------------------------------------------------------
\* (faulty) a merge that leaves maxUpdated alone.
ApplyMergedNoBump(m, remote, saved) ==
  LET merged == Merge(g[m], remote)
  IN IF Digest(merged) = dig[m]
       THEN saved /\ faults' = faults /\ UNCHANGED <<g, disk, dig, hwm>>
       ELSE Fault(~saved) /\ UNCHANGED hwm /\ persistLocked(m, merged, saved)

\* The shared body of ApplyRemote and merge-mode ImportGraph: a merge whose
\* digest equals the cached one changes nothing.
ApplyMerged(m, remote, saved) ==
  LET merged == Merge(g[m], remote)
  IN IF Digest(merged) = dig[m]
       THEN saved /\ faults' = faults /\ UNCHANGED <<g, disk, dig, hwm>>
       ELSE /\ Fault(~saved)
            /\ hwm' = [hwm EXCEPT ![m] = MaxUpdated(merged, @)]
            /\ persistLocked(m, merged, saved)

\* MaybeSync, first half: p's heartbeat (or its ack) carries a digest other
\* than ours, and no fetch from p is under way.
MaybeSync(m, p) ==
  /\ m # p /\ dig[m] # dig[p] /\ job[m][p].st = "idle"
  /\ job' = [job EXCEPT ![m][p].st = "asked"]
  /\ UNCHANGED <<g, disk, dig, hwm, file, edits, faults, written, replaced>>

\* fetch: GET /clan/memory serves p's working copy, saved or not.
Fetch(m, p) ==
  /\ job[m][p].st = "asked"
  /\ job' = [job EXCEPT ![m][p] = [st |-> "got", gr |-> g[p]]]
  /\ UNCHANGED <<g, disk, dig, hwm, file, edits, faults, written, replaced>>

\* The fetch failed or timed out: the next heartbeat tries again.
FetchFail(m, p) ==
  /\ job[m][p].st = "asked" /\ Fault(TRUE)
  /\ job' = [job EXCEPT ![m][p] = Idle]
  /\ UNCHANGED <<g, disk, dig, hwm, file, edits, written, replaced>>

\* MaybeSync, second half.
ApplyRemote(m, p, saved) ==
  /\ job[m][p].st = "got"
  /\ ApplyMerged(m, job[m][p].gr, saved)
  /\ job' = [job EXCEPT ![m][p] = Idle]
  /\ UNCHANGED <<file, edits, written, replaced>>

-----------------------------------------------------------------------------
\* What a session filter keeps: the session, its nodes, and the nodes with a
\* contributes_to edge into it.
keep(gr, s) ==
  {i \in Nodes(gr) : i = s \/ SessionOf[gr.node[i].body] = s \/ <<i, s>> \in gr.edge}

ExportBlueprint(gr, s) ==
  IF s = NoId THEN gr
  ELSE [node |-> [i \in Id |-> IF i \in keep(gr, s) THEN gr.node[i] ELSE Absent],
        edge |-> gr.edge \cap (keep(gr, s) \X keep(gr, s))]

\* MarkImported.
MarkImported(gr) ==
  [gr EXCEPT !.node = [i \in Id |->
     IF i \in Nodes(gr) THEN [gr.node[i] EXCEPT !.body = Imported[gr.node[i].body]] ELSE Absent]]

\* minti-cland memory export; an unknown session is an error.  Bound: one
\* blueprint per behaviour.
cmdMemoryExport(m, s) ==
  /\ file = {}
  /\ s # NoId => s \in Nodes(g[m])
  /\ file' = {ExportBlueprint(g[m], s)}
  /\ UNCHANGED <<g, disk, dig, hwm, job, edits, faults, written, replaced>>

\* POST /clan/memory/import, mode merge.
ImportMerge(m, bp, saved) ==
  /\ Edit
  /\ ApplyMerged(m, MarkImported(bp), saved)
  /\ written' = written \cup Pairs(MarkImported(bp))
  /\ UNCHANGED <<job, file, replaced>>

\* Mode replace, from this machine only: the graph is swapped and maxUpdated
\* starts over from it.
Replace(m, bp, saved) ==
  LET gr == MarkImported(bp)
  IN /\ Edit /\ Fault(~saved)
     /\ hwm' = [hwm EXCEPT ![m] = MaxUpdated(gr, 0)]
     /\ persistLocked(m, gr, saved)
     /\ written' = written \cup Pairs(gr)
     /\ replaced' = [replaced EXCEPT ![m] = @ + 1]
     /\ UNCHANGED <<job, file>>

\* memory import, with and without --replace.
cmdMemoryImport(m) ==
  \E saved \in BOOLEAN, bp \in file : ImportMerge(m, bp, saved) \/ Replace(m, bp, saved)

\* memory wipe replaces by an empty blueprint.
cmdMemoryWipe(m, saved) == Replace(m, NewGraph, saved)

\* A crash, then NewService: everything but memory.json is lost.
NewService(m) ==
  /\ Fault(TRUE)
  /\ g' = [g EXCEPT ![m] = disk[m]]
  /\ dig' = [dig EXCEPT ![m] = Digest(disk[m])]
  /\ hwm' = [hwm EXCEPT ![m] = MaxUpdated(disk[m], 0)]
  /\ job' = [job EXCEPT ![m] = [p \in Member |-> Idle]]
  /\ UNCHANGED <<disk, file, edits, written, replaced>>

-----------------------------------------------------------------------------
SyncStep(m, p) == MaybeSync(m, p) \/ Fetch(m, p) \/ ApplyRemote(m, p, TRUE)

MemNext ==
  \E m \in Member :
    \/ handleNode(m)
    \/ RecordSystemEvent(m)
    \/ handleEdge(m)
    \/ \E s \in Id \cup {NoId} : cmdMemoryExport(m, s)
    \/ cmdMemoryImport(m)
    \/ \E saved \in BOOLEAN : cmdMemoryWipe(m, saved)
    \/ NewService(m)
    \/ \E p \in Member :
         \/ SyncStep(m, p)
         \/ ApplyRemote(m, p, FALSE)
         \/ FetchFail(m, p)

MemSpec == MemInit /\ [][MemNext]_memVars

\* Heartbeats keep coming and peers answer: every comparison that finds a
\* difference leads to a fetch and a merge.
MemFairness == \A m, p \in Member : WF_memVars(SyncStep(m, p))
MemFairSpec == MemSpec /\ MemFairness

-----------------------------------------------------------------------------
\* The cached digest that heartbeats carry never disagrees with the persisted
\* graph (the comment at persistLocked), whatever saves fail and whatever
\* merges, replacements and restarts happen around them.
DigestOfDisk == \A m \in Member : dig[m] = Digest(disk[m])

\* maxUpdated bounds every stamp the member holds, after merges of far-future
\* stamps, refused writes, replacements and restarts too: this is why a local
\* edit always beats what it edits, however wrong the clock.
HighWater == \A m \in Member : \A i \in Id : g[m].node[i].upd <= hwm[m]

\* No step but a replacement or a restart makes a member's working copy lose
\* a version to one that does not win, or lose an edge: neither a stale client
\* snapshot nor a late or reordered fetch rewinds the graph.
NeverRewinds ==
  [][\A m \in Member :
       replaced'[m] = replaced[m] /\ g'[m] # disk[m] => Leq(g[m], g'[m])]_memVars

\* The durable graphs implement MemoryAbs: versions are never invented and
\* the disk only moves forward, replacements aside.
Durable == INSTANCE MemoryAbs
  WITH view <- disk, erasing <- {m \in Member : ~ Leq(disk[m], g[m])}
DurableForward == Durable!AbsSpec

\* Two different versions of one node with the same stamp and revision.
Collided ==
  \E x, y \in written :
    x # y /\ x[1] = y[1] /\ x[2].upd = y[2].upd /\ x[2].rev = y[2].rev

\* Once edits and faults stop, the members' saved graphs agree for good: on
\* edges, stamps and revisions always, and on what the nodes say unless two
\* versions collided on stamp and revision.
Converges ==
  <>[](\A m, p \in Member : /\ Digest(disk[m]) = Digest(disk[p])
                            /\ Collided \/ disk[m] = disk[p])

\* The protocol document's claim, collisions or not (clan-protocol.md 13.4:
\* convergence is guaranteed, clock skew never affects agreement).
AlwaysAgrees == <>[](\A m, p \in Member : disk[m] = disk[p])
=============================================================================
