------------------------------- MODULE Scribe -------------------------------
(***************************************************************************)
(* The clients of one member's Memory: the Scribe, which distills recent   *)
(* activity into proposals with a small model (memory/scribe.go), and the  *)
(* `minti-cland memory` commands of people (cmd/minti-cland/memory_cmds.go,*)
(* which the workspace UI runs too).  Both read the graph, think, and      *)
(* write back later, one locked operation of the Service at a time, so the *)
(* writes of one fall between the steps of the other.                      *)
(*                                                                         *)
(* Body is a set of records here: type, status, src (provenance source)    *)
(* and session; everything on this daemon has the same author.  An         *)
(* activity file (a chat or the audit log) is its length, in chunks of     *)
(* maxActivityBytes.                                                       *)
(***************************************************************************)
EXTENDS Memory, Sequences

CONSTANTS
  Self,          \* the member whose daemon this is
  Client,        \* command line processes
  Session,       \* the ids research sessions are minted with
  SummaryId,     \* the deterministic id of a session's summary
  Posted,        \* what people give to memory add
  Budget,        \* PendingProposalBudget
  MaxProposals,  \* MaxProposalsPerPass
  MaxLog         \* bound: length of the activity file

ASSUME ScribeAssumption ==
  /\ Self \in Member
  /\ Session \subseteq Id /\ SummaryId \in [Session -> Id \ Session]
  /\ Posted \subseteq Body /\ \A b \in Posted : b.src = "manual"
  /\ Budget \in Nat /\ MaxProposals \in Nat \ {0} /\ MaxLog \in Nat

\* What MarkImported, an update and an archive do to a body, and which bodies
\* there are.
ASSUME ScribeBodies ==
  /\ \A b \in Body : Imported[b].src = "import" /\ Imported[b].status = b.status
  /\ \A old, new \in Body : /\ Refiled[old][new].src = old.src
                            /\ Refiled[old][new].status = new.status
  /\ \A b \in Body : [b EXCEPT !.status = "archived"] \in Body
  /\ [type : {"finding"}, status : {"proposed"}, src : {"scribe"},
      session : Session \cup {NoId}] \subseteq Body
  /\ [type : {"research_session"}, status : {"active"}, src : {"manual"},
      session : {NoId}] \subseteq Body

\* The history begins with a memory the Scribe has not written to.
ASSUME ScribeStart == \A i \in Nodes(Start[Self]) : Start[Self].node[i].body.src # "scribe"

VARIABLES
  cli,       \* cli[c]: the command a client is in the middle of
  log,       \* length of the activity file
  mark,      \* fileOffsets: chunks consumed, or Unseen
  fmark,     \* findingsMark
  seeded,    \* the first tick after boot has passed
  role,      \* IsScribe()
  pass,      \* the tick under way
  offered,   \* history: chunks handed to the model since the file was cut
  seenFrom,  \* history: length of the file when the Scribe began to watch it
  people,    \* history: the versions written by people's commands
  demoted,   \* history: Scribe proposals that people made proposals again
  lost       \* history: a restart found less on disk than the graph held

scribeVars == <<mark, fmark, seeded, pass, offered, seenFrom>>
peopleVars == <<cli, people, demoted, lost>>
allVars == <<memVars, log, role, scribeVars, peopleVars>>

Unseen == MaxLog + 1
NoPass == [st |-> "idle", left |-> 0, open |-> {}, node |-> NoId, now |-> 0]
NoCmd == [st |-> "idle", id |-> NoId, body |-> NoBody]

BodyOf(i) == g[Self].node[i].body

ScribeTypeOK ==
  /\ MemTypeOK
  /\ cli \in [Client -> [st : {"idle", "post", "edge"}, id : Id \cup {NoId},
                         body : Body \cup {NoBody}]]
  /\ log \in 0..MaxLog /\ mark \in 0..Unseen /\ seenFrom \in 0..MaxLog
  /\ fmark \in Nat /\ seeded \in BOOLEAN /\ role \in BOOLEAN
  /\ pass \in [st : {"idle", "model", "writing", "edge"}, left : 0..MaxProposals,
               open : SUBSET Id, node : Id \cup {NoId}, now : Nat]
  /\ offered \in Seq([chunk : 1..MaxLog, since : 0..MaxLog])
  /\ people \subseteq Id \X Version /\ demoted \in Nat /\ lost \in BOOLEAN

\* The open research sessions of the current graph.
openSessions ==
  {i \in Nodes(g[Self]) : BodyOf(i).type = "research_session" /\ BodyOf(i).status = "active"}

\* pendingProposals: our own proposals that nobody reviewed.
pendingProposals ==
  {i \in Nodes(g[Self]) : BodyOf(i).status = "proposed" /\ BodyOf(i).src = "scribe"}

\* The active findings of open sessions that gather takes for fresh: stamped
\* after the last tick's clock.
freshFindings ==
  {i \in Nodes(g[Self]) : /\ BodyOf(i).status = "active" /\ BodyOf(i).src # "scribe"
                          /\ BodyOf(i).session \in openSessions
                          /\ g[Self].node[i].upd > fmark}

-----------------------------------------------------------------------------
\* tailFile: first sight and a file shorter than the mark seed to its end;
\* otherwise the next chunk, if any, is read and the mark moves behind it.
Reseeds == mark = Unseen \/ log < mark
tailFile == IF Reseeds \/ log = mark THEN <<>>
            ELSE <<[chunk |-> mark + 1, since |-> seenFrom]>>

\* (faulty) gather that does not move its offset past what it read.
gatherKeepsMark(now) ==
  /\ mark' = IF Reseeds THEN log ELSE mark
  /\ seenFrom' = IF Reseeds THEN log ELSE seenFrom
  /\ fmark' = now

\* gather: the marks advance whether or not the pass goes on.
gather(now) ==
  /\ mark' = IF Reseeds THEN log ELSE mark + Len(tailFile)
  /\ seenFrom' = IF Reseeds THEN log ELSE seenFrom
  /\ fmark' = now

\* (faulty) tick without the test of MaxPendingProposals.
tickNoBudget(now) ==
  LET goesOn == seeded /\ role /\ (tailFile # <<>> \/ freshFindings # {})
  IN /\ pass.st = "idle"
     /\ gather(now)
     /\ seeded' = TRUE
     /\ pass' = IF goesOn THEN [NoPass EXCEPT !.st = "model", !.now = now] ELSE pass
     /\ offered' = IF goesOn THEN offered \o tailFile ELSE offered
     /\ UNCHANGED <<memVars, log, role, peopleVars>>

\* tick.  The first one, one without the role and one over the budget of
\* unreviewed proposals only gather; one with something fresh goes on to ask
\* the model, and what was gathered is then in the prompt and nowhere else.
tick(now) ==
  LET goesOn == /\ seeded /\ role /\ Cardinality(pendingProposals) <= Budget
                /\ tailFile # <<>> \/ freshFindings # {}
  IN /\ pass.st = "idle"
     /\ gather(now)
     /\ seeded' = TRUE
     /\ pass' = IF goesOn THEN [NoPass EXCEPT !.st = "model", !.now = now] ELSE pass
     /\ offered' = IF goesOn THEN offered \o tailFile ELSE offered
     /\ UNCHANGED <<memVars, log, role, peopleVars>>

\* No resident model, a failed call, or nothing usable in its output: the
\* pass is over and its activity is not offered again.
DistillNothing ==
  /\ pass.st = "model"
  /\ pass' = NoPass
  /\ UNCHANGED <<memVars, log, role, mark, fmark, seeded, offered, seenFrom, peopleVars>>

\* distill returned n proposals; writeProposals looks up the open sessions.
Distill(n) ==
  /\ pass.st = "model"
  /\ pass' = [pass EXCEPT !.st = "writing", !.left = n, !.open = openSessions]
  /\ UNCHANGED <<memVars, log, role, mark, fmark, seeded, offered, seenFrom, peopleVars>>

\* The id NewUUIDv4 mints for a node of this type: unused, and no session's
\* summary.  Such ids are interchangeable, so one of them will do.
Minted(type) ==
  LET unused == {i \in Id \ Nodes(g[Self]) : /\ i \in Session <=> type = "research_session"
                                             /\ \A s \in Session : i # SummaryId[s]}
  IN IF unused = {} THEN {} ELSE {CHOOSE i \in unused : TRUE}

\* (faulty) a proposal written with the default status.
ProposalDefaultStatus(s) ==
  [type |-> "finding", status |-> "active", src |-> "scribe", session |-> s]

Proposal(s) ==
  [type |-> "finding", status |-> "proposed", src |-> "scribe", session |-> s]

\* writeProposals, one proposal: under a fresh id, or as the summary of its
\* session.  A refused or unsaved write is logged and the loop goes on.
WriteProposal(s, i, out) ==
  /\ pass.st = "writing" /\ pass.left > 0
  /\ s \in pass.open \cup {NoId}
  /\ i \in Minted("finding") \/ (s # NoId /\ i = SummaryId[s])
  /\ Edit
  /\ AddOrUpdateNode(Self, i, Proposal(s), pass.now, out)
  /\ pass' = [pass EXCEPT !.left = @ - 1, !.node = i,
                          !.st = IF out = "ok" /\ s # NoId THEN "edge" ELSE "writing"]
  /\ UNCHANGED <<log, role, mark, fmark, seeded, offered, seenFrom, peopleVars>>

\* A create at the node cap is refused.
ProposalRefused ==
  /\ pass.st = "writing" /\ pass.left > 0
  /\ Cardinality(Nodes(g[Self])) >= MaxNodes
  /\ pass' = [pass EXCEPT !.left = @ - 1]
  /\ UNCHANGED <<memVars, log, role, mark, fmark, seeded, offered, seenFrom, peopleVars>>

\* The contributes_to edge of the proposal just stored; if the edge is there
\* already, the call is a no-op.
WriteEdge(e, saved) ==
  /\ pass.st = "edge"
  /\ e \in {x \in Edge : x[1] = pass.node /\ x[2] \in pass.open}
  /\ \/ AddEdge(Self, e, saved) /\ UNCHANGED edits
     \/ e \in g[Self].edge /\ saved /\ UNCHANGED memVars
  /\ pass' = [pass EXCEPT !.st = "writing"]
  /\ UNCHANGED <<log, role, mark, fmark, seeded, offered, seenFrom, peopleVars>>

PassDone ==
  /\ pass.st = "writing" /\ pass.left = 0
  /\ pass' = NoPass
  /\ UNCHANGED <<memVars, log, role, mark, fmark, seeded, offered, seenFrom, peopleVars>>

-----------------------------------------------------------------------------
\* A command's POST of a node.
PostMemoryNode(i, b, out) ==
  /\ Edit
  /\ \E now \in Clock[Self] :
       /\ AddOrUpdateNode(Self, i, b, now, out)
       /\ people' = IF out = "size" THEN people
                    ELSE people \cup {<<i, stored(Self, i, b, now)>>}
  /\ demoted' = demoted + (IF b.status = "proposed" THEN 1 ELSE 0)
  /\ UNCHANGED <<log, role, scribeVars, lost>>

\* resolveNodeID found it in a graph fetched before, perhaps long ago.
Resolved(i) == \E x \in written : x[1] = i

\* memory add: under a minted id, or with --id, which updates a node that is
\* there, of whichever type.  The edge to the session is a second request, sent
\* only if the first succeeded.
cmdMemoryAdd(c, i, b, out) ==
  /\ cli[c].st = "idle"
  /\ b.session # NoId => Resolved(b.session)
  /\ i \in Minted(b.type) \cup Nodes(g[Self])
  /\ PostMemoryNode(i, b, out)
  /\ cli' = IF out = "ok" /\ b.session # NoId
              THEN [cli EXCEPT ![c] = [st |-> "edge", id |-> i, body |-> b]] ELSE cli

\* memory research start.
NewSession == [type |-> "research_session", status |-> "active", src |-> "manual", session |-> NoId]

cmdResearchStart(c, i, out) ==
  /\ cli[c].st = "idle" /\ i \in Minted("research_session")
  /\ PostMemoryNode(i, NewSession, out)
  /\ UNCHANGED cli

\* The second request of memory add; the answer is not looked at.
AddSecondHalf(c, saved) ==
  LET e == <<cli[c].id, cli[c].body.session>>
  IN /\ cli[c].st = "edge"
     /\ \/ e \in Edge /\ AddEdge(Self, e, saved) /\ UNCHANGED edits
        \/ saved /\ (e \in g[Self].edge \/ e \notin Edge) /\ UNCHANGED memVars
     /\ cli' = [cli EXCEPT ![c] = NoCmd]
     /\ UNCHANGED <<log, role, scribeVars, people, demoted, lost>>

\* memory archive, first the GET: the update is a copy of the node as it is
\* now, archived.
ReadToArchive(c, i) ==
  /\ cli[c].st = "idle"
  /\ i \in Nodes(g[Self]) /\ BodyOf(i).status # "archived"
  /\ cli' = [cli EXCEPT ![c] = [st |-> "post", id |-> i,
                                body |-> [BodyOf(i) EXCEPT !.status = "archived"]]]
  /\ UNCHANGED <<memVars, log, role, scribeVars, people, demoted, lost>>

\* memory research close does the same to a session only.
cmdResearchClose(c, i) == BodyOf(i).type = "research_session" /\ ReadToArchive(c, i)

\* Then the POST, whatever happened to the node in between.
cmdMemoryArchive(c, out) ==
  /\ cli[c].st = "post"
  /\ PostMemoryNode(cli[c].id, cli[c].body, out)
  /\ cli' = [cli EXCEPT ![c] = NoCmd]

\* The dashboard runs these commands under a route's timeout: a slow one is
\* killed between its requests.
Killed(c) ==
  /\ cli[c].st # "idle"
  /\ cli' = [cli EXCEPT ![c] = NoCmd]
  /\ UNCHANGED <<memVars, log, role, scribeVars, people, demoted, lost>>

\* memory link, between two nodes that were resolved before.
cmdMemoryLink(e, saved) ==
  /\ Resolved(e[1]) /\ Resolved(e[2])
  /\ Edit /\ AddEdge(Self, e, saved)

\* memory link, export, import, import --replace and wipe: one request each.
OtherCommands ==
  /\ \/ \E e \in Edge, saved \in BOOLEAN : cmdMemoryLink(e, saved)
     \/ \E s \in Session \cup {NoId} : cmdMemoryExport(Self, s)
     \/ cmdMemoryImport(Self)
     \/ \E saved \in BOOLEAN : cmdMemoryWipe(Self, saved)
  /\ UNCHANGED <<log, role, scribeVars, peopleVars>>

-----------------------------------------------------------------------------
\* The environment: the file grows or is cut, the role comes and goes.
LogGrows ==
  /\ log < MaxLog /\ log' = log + 1
  /\ UNCHANGED <<memVars, role, scribeVars, peopleVars>>

LogCut ==
  /\ log > 0 /\ Fault(TRUE)
  /\ log' = 0 /\ offered' = <<>> /\ seenFrom' = 0
  /\ UNCHANGED <<g, disk, dig, hwm, job, file, edits, written, replaced,
                 role, mark, fmark, seeded, pass, peopleVars>>

RoleMoves ==
  /\ role' = ~ role
  /\ UNCHANGED <<memVars, log, scribeVars, peopleVars>>

\* The daemon restarts: the marks are in memory only.
Restart ==
  /\ NewService(Self)
  /\ mark' = Unseen /\ fmark' = 0 /\ seeded' = FALSE /\ pass' = NoPass /\ role' = FALSE
  /\ lost' = (lost \/ g[Self] # disk[Self])
  /\ UNCHANGED <<log, offered, seenFrom, cli, people, demoted>>

ScribeInit ==
  /\ MemInit
  /\ cli = [c \in Client |-> NoCmd] /\ people = {} /\ demoted = 0 /\ lost = FALSE
  /\ log = 0 /\ mark = Unseen /\ fmark = 0 /\ seeded = FALSE /\ role = FALSE
  /\ pass = NoPass /\ offered = <<>> /\ seenFrom = 0

ScribeNext ==
  \/ \E now \in Clock[Self] : tick(now)
  \/ DistillNothing
  \/ \E n \in 1..MaxProposals : Distill(n)
  \/ \E s \in Session \cup {NoId}, i \in Id, out \in Outcome : WriteProposal(s, i, out)
  \/ ProposalRefused
  \/ \E e \in Edge, saved \in BOOLEAN : WriteEdge(e, saved)
  \/ PassDone
  \/ \E c \in Client :
       \/ \E i \in Id, b \in Posted, out \in Outcome : cmdMemoryAdd(c, i, b, out)
       \/ \E saved \in BOOLEAN : AddSecondHalf(c, saved)
       \/ \E i \in Id, out \in Outcome : cmdResearchStart(c, i, out)
       \/ \E i \in Id : ReadToArchive(c, i) \/ (i \in Nodes(g[Self]) /\ cmdResearchClose(c, i))
       \/ Killed(c)
       \/ \E out \in Outcome : cmdMemoryArchive(c, out)
  \/ OtherCommands
  \/ LogGrows \/ LogCut \/ RoleMoves \/ Restart

ScribeSpec == ScribeInit /\ [][ScribeNext]_allVars

-----------------------------------------------------------------------------
\* Nothing the Scribe wrote is active unless a person's command made it so:
\* neither an update of a summary, nor an import, nor a stale archive, nor the
\* daemon's default status promotes a proposal.
PeoplePromote ==
  \A i \in Nodes(g[Self]) :
    BodyOf(i).src = "scribe" /\ BodyOf(i).status = "active"
      => <<i, g[Self].node[i]>> \in people

\* The Scribe overshoots its budget of unreviewed proposals by one pass at
\* most, although it counts once, before the model is asked; what people turn
\* back into proposals comes on top.
PendingBounded ==
  Cardinality(pendingProposals) <= Budget + MaxProposals + demoted

\* The model is offered each chunk of a file at most once, in order, and never
\* one that was there before the Scribe began to watch, restarts and losses of
\* the role included.
FreshOnce ==
  /\ \A j \in 1..Len(offered), k \in 1..Len(offered) : j < k => offered[j].chunk < offered[k].chunk
  /\ \A k \in 1..Len(offered) : offered[k].chunk \in (offered[k].since + 1)..log

\* An archived node stays archived unless a command names it or the Scribe
\* refreshes it as a session's summary: importing an older blueprint, in which
\* it is active, does not revive it, however the clock steps.  This is so for as
\* long as the stamps of the graph are a record of what happened to it: after a
\* replacement, or a restart that lost unsaved changes, a blueprint may be ahead
\* of the graph.
TombstonesHold ==
  [][replaced'[Self] = 0 /\ ~ lost' =>
       \A i \in Nodes(g[Self]) :
         BodyOf(i).status = "archived" /\ g'[Self].node[i].body.status # "archived"
           => <<i, g'[Self].node[i]>> \in people' \/ \E s \in Session : i = SummaryId[s]]_allVars
=============================================================================
