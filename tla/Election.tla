------------------------------ MODULE Election ------------------------------
(***************************************************************************)
(* The leader-lease election of minti-cland: cland/internal/election       *)
(* (state.go, engine.go, handlers.go) run by every member of one Clan.     *)
(*                                                                         *)
(* Per member there are two kinds of thread.  The engine goroutine ticks,  *)
(* takes a snapshot of the term, and then POSTs one heartbeat after the    *)
(* other to the members of its peer registry, either to renew a lease it   *)
(* holds (mode "emit") or to announce a new term (mode "elect").  The      *)
(* /clan/heartbeat handler runs concurrently and changes the same State.   *)
(* A POST is answered in time (Deliver), or not (Lose); in the second case *)
(* the request may still reach the peer later (HandleLate).                *)
(*                                                                         *)
(* Clocks are abstracted to the phases the code tells apart:               *)
(*   "startup"  lease never set, within FAILOVER_GRACE of the start        *)
(*   "held"     now is before leaseExpires                                 *)
(*   "expired"  past leaseExpires, silence shorter than FAILOVER_GRACE     *)
(*   "silent"   LeaseSilent: an election may start                         *)
(* MaxTerm and MaxFaults bound the exploration.  A fault is a step of the  *)
(* environment (a request lost or delayed, a crash, a failed save, a pin); *)
(* the protocol's own steps cost none.                                     *)
(*                                                                         *)
(* The roster is fixed here (Active), and what a heartbeat carries besides *)
(* its term (scribe, digests of revocations, roster and memory) belongs to *)
(* other components.                                                       *)
(***************************************************************************)
EXTENDS Selection, FiniteSets

CONSTANTS
  Node,        \* member ids (numbers: selections compare them)
  Active,      \* the members the persisted roster holds as "active"
  None,        \* "", no orchestrator known
  Score,       \* reasoning_score each member advertises
  Admitted,    \* AdmittedAt of each member's roster entry
  MaxTerm,     \* bound: highest term an election may open
  MaxFaults,   \* bound: number of environment faults
  FaultKinds   \* the kinds of fault the environment commits

ASSUME NodeAssumption ==
  /\ Node \subseteq Nat /\ IsFiniteSet(Node)
  /\ Active \subseteq Node
  /\ None \notin Node
ASSUME AdAssumption == Score \in [Node -> Nat] /\ Admitted \in [Node -> Nat]
ASSUME BoundAssumption == MaxTerm \in Nat /\ MaxFaults \in Nat
ASSUME FaultAssumption ==
  FaultKinds \subseteq {"loss", "delay", "disk", "clock", "ad", "pin", "runtime",
                        "crash"}

VARIABLES
  up,        \* running daemons
  term, orch, lease,    \* election.State of each member
  dTerm, dOrch,         \* CurrentTerm, CurrentOrchestrator in its clan.json
  pinned,    \* members whose clan.json has PinnedOrchestrator
  runtime,   \* the member's own minti-runtime as probe.RuntimeClient sees it
  registry,  \* peers.Registry: the bound members of each daemon
  ads,       \* ads[n][m]: m's LatestAd at n, "none" unless reasoning is enabled
  live,      \* <<n, m>>: m passes the liveness gate of n's selection
  seen,      \* <<n, m>>: HeartbeatSeen is latched for m in n's registry
  behind,    \* <<n, m>>: n holds an ad of m of a higher generation than m's
  eng,       \* the engine goroutine of each member
  late,      \* heartbeats whose sender gave up waiting, still to be handled
  pend,      \* persistTermAndOrch calls of the handler still to be executed
  faults,    \* environment faults so far
  won,       \* history: elections won, each with the members that backed it
  votes,     \* history: <<v, t, c>>, v accepted a heartbeat of c for term t
  elected    \* history: terms a member won since its daemon started

stateVars == <<term, orch, lease>>
diskVars  == <<dTerm, dOrch, pinned>>
peerVars  == <<registry, ads, live, seen, behind>>
ghostVars == <<won, elected>>
vars == <<up, stateVars, diskVars, runtime, peerVars, eng, late, pend, faults,
          votes, ghostVars>>

Phase == {"startup", "held", "expired", "silent"}
AdView == {"none", "plain", "pinned"}

\* "ok" answers healthy, "sick" answers unhealthy or never answered, "gone"
\* stopped answering: RuntimeClient.Get then returns the last good answer.
RuntimeView == {"ok", "sick", "gone"}

Term == 0..MaxTerm
Heartbeat == [from : Node, to : Node, term : Term]
EngineState == [mode : {"idle", "emit", "elect", "persist"}, term : Term,
                todo : SUBSET Node, acc : SUBSET Node]
Idle == [mode |-> "idle", term |-> 0, todo |-> {}, acc |-> {}]
Win == [by : Node, term : Term, backers : SUBSET Node]

-----------------------------------------------------------------------------
\* localSelfFn's ReasoningEnabled ignores the error of RuntimeClient.Get, so a
\* stale answer still counts; healthFn does not.
ReasoningEnabled(n) == runtime[n] # "sick"
Healthy(n) == runtime[n] = "ok"

\* Selection in n's own view: itself when enabled, and every bound peer whose
\* latest ad is eligible and which passes the liveness gate; the peers in away
\* fail it because their last sign of life is older than LiveWindow.
Candidates(n, away) ==
  {[id |-> m, score |-> Score[m], admitted |-> Admitted[m],
    pinned |-> IF m = n THEN n \in pinned ELSE ads[n][m] = "pinned"] :
     m \in {k \in Node \ away : IF k = n THEN ReasoningEnabled(n)
                                ELSE ads[n][k] # "none" /\ <<n, k>> \in live}}

Select(n, away) == SelectCandidate(Candidates(n, away), None)

\* (faulty) quorum rounded down.
QuorumRoundedDown == IF Active = {} THEN 1 ELSE Cardinality(Active) \div 2

\* quorum: half the persisted active roster, rounded up, at least one.
Quorum ==
  LET n == IF Active = {} THEN 1 ELSE Cardinality(Active) IN (n + 1) \div 2

IAmOrchestrator(n) == n \in up /\ orch[n] = n /\ lease[n] = "held"

\* HeartbeatSeen switches n's gate for a peer to Live, a window of 4 s, while
\* ads come every 30 s: only heartbeats keep such a peer in n's view.
Gated(n) == {m \in Node \ {n} : <<n, m>> \in seen}

\* A healthy leader that prefers itself in every view it can have: it POSTs
\* every 2 s, without a pause for a step-down.
Steady(l) ==
  IAmOrchestrator(l) /\ Healthy(l) /\ \A away \in SUBSET Gated(l) : Select(l, away) = l

\* The peers that may be out of the window whenever n selects.
Flaky(n) ==
  {m \in Gated(n) :
     ~(Steady(m) /\ n \in registry[m] /\ orch[n] = m /\ lease[n] = "held")}

\* selectCandidate at n may return c now.
Prefers(n, c) == \E away \in SUBSET Flaky(n) : Select(n, away) = c

\* (faulty) ApplyHeartbeat without the ErrTermStale return.
AcceptsStale(m, from, t) ==
  \/ t # term[m]
  \/ t = term[m] /\ Prefers(m, from)

\* ApplyHeartbeat's verdict at m: a stale term is refused, the anti-spoof
\* check applies to the current term only, any higher term is taken.
Accepts(m, from, t) ==
  \/ t > term[m]
  \/ t = term[m] /\ Prefers(m, from)

Refuses(m, from, t) ==
  \/ t < term[m]
  \/ t = term[m] /\ \E c \in (Node \cup {None}) \ {from} : Prefers(m, c)

\* TermChanged or OrchChanged of the ApplyResult.
Changed(n, t, o) == t # term[n] \/ o # orch[n]

-----------------------------------------------------------------------------
Fault(kind) == kind \in FaultKinds /\ faults < MaxFaults /\ faults' = faults + 1

\* ApplyHeartbeat on acceptance; the lease is tracked locally.
Adopt(m, from, t) ==
  /\ term' = [term EXCEPT ![m] = t]
  /\ orch' = [orch EXCEPT ![m] = from]
  /\ lease' = [lease EXCEPT ![m] = "held"]
  /\ votes' = votes \cup {<<m, t, from>>}

\* (faulty) CommitSelfElection that increments the term it is given.
CommitNextTerm(n, t) ==
  /\ term' = [term EXCEPT ![n] = t + 1]
  /\ orch' = [orch EXCEPT ![n] = n]
  /\ lease' = [lease EXCEPT ![n] = "held"]
  /\ UNCHANGED faults

\* CommitSelfElection: the caller's term is stored whatever State holds now.
\* The lease runs from the start of the tick, so a round of slow POSTs can
\* leave it already expired.
CommitSelfElection(n, t) ==
  /\ term' = [term EXCEPT ![n] = t]
  /\ orch' = [orch EXCEPT ![n] = n]
  /\ \/ lease' = [lease EXCEPT ![n] = "held"] /\ UNCHANGED faults
     \/ lease' = [lease EXCEPT ![n] = "expired"] /\ Fault("clock")

\* persistTermAndOrch: load clan.json, set both fields, save; a failure is
\* logged and forgotten.
Persist(n, t, o) ==
  /\ \/ /\ dTerm' = [dTerm EXCEPT ![n] = t]
        /\ dOrch' = [dOrch EXCEPT ![n] = o]
        /\ UNCHANGED faults
     \/ Fault("disk") /\ UNCHANGED <<dTerm, dOrch>>
  /\ UNCHANGED pinned

PersistIf(changed, n, t, o) ==
  IF changed THEN Persist(n, t, o) ELSE UNCHANGED <<diskVars, faults>>

\* TouchLive for each <<n, m>> of pairs with m bound at n.
TouchLive(pairs) ==
  LET bound == {p \in pairs : p[2] \in registry[p[1]]} IN
  /\ live' = live \cup bound
  /\ seen' = seen \cup bound
  /\ UNCHANGED <<registry, ads, behind>>

\* (faulty) accepts++ on any answer.
TallyAnyAnswer(acc, m, ok) == acc \cup {m}

\* accepts++ on status 200 only; the loop visits a peer once, so the set of
\* accepting peers is as good as their number.
Tally(acc, m, ok) == IF ok THEN acc \cup {m} ELSE acc

\* The engine's round e after the POST to m.
Posted(e, m, ok) == [mode |-> e.mode, term |-> e.term,
                     todo |-> e.todo \ {m}, acc |-> Tally(e.acc, m, ok)]

Round(mode, n, t) ==
  [eng EXCEPT ![n] = [mode |-> mode, term |-> t,
                      todo |-> registry[n] \ {n}, acc |-> {}]]

-----------------------------------------------------------------------------
\* tick, path A: the lease is ours, nobody else is preferred, the runtime is
\* healthy.  (A step-down or an unhealthy runtime makes the tick do nothing.)
BeginEmit(n) ==
  /\ Healthy(n)
  /\ eng[n].mode = "idle"
  /\ IAmOrchestrator(n)
  /\ Prefers(n, n)
  /\ eng' = Round("emit", n, term[n])
  /\ UNCHANGED <<up, stateVars, diskVars, runtime, peerVars, late, pend,
                 faults, votes, ghostVars>>

\* tick, path B: the lease is silent and we are the candidate of our view.
BeginElection(n) ==
  /\ n \in up
  /\ eng[n].mode = "idle"
  /\ lease[n] = "silent"
  /\ Prefers(n, n)
  /\ term[n] < MaxTerm
  /\ eng' = Round("elect", n, term[n] + 1)
  /\ UNCHANGED <<up, stateVars, diskVars, runtime, peerVars, late, pend,
                 faults, votes, ghostVars>>

\* One POST that m answers with 200: m's handler applies it and persists what
\* changed before it answers, and the sender goes on to the next peer.  (The
\* handler interleaved with other steps of m is HandleLate.)
Deliver(n, m) ==
  /\ {n, m} \subseteq up
  /\ m \in eng[n].todo
  /\ Accepts(m, n, eng[n].term)
  /\ Adopt(m, n, eng[n].term)
  /\ PersistIf(Changed(m, eng[n].term, n), m, eng[n].term, n)
  /\ TouchLive({<<n, m>>, <<m, n>>})
  /\ eng' = [eng EXCEPT ![n] = Posted(@, m, TRUE)]
  /\ UNCHANGED <<up, runtime, late, pend, ghostVars>>

\* One POST that m answers with 409; any answer proves m is alive.
Refuse(n, m) ==
  /\ {n, m} \subseteq up
  /\ m \in eng[n].todo
  /\ Refuses(m, n, eng[n].term)
  /\ TouchLive({<<n, m>>})
  /\ eng' = [eng EXCEPT ![n] = Posted(@, m, FALSE)]
  /\ UNCHANGED <<up, stateVars, diskVars, runtime, late, pend, faults, votes,
                 ghostVars>>

\* One POST that fails for the sender.  The peer is down, or the request is
\* lost, or it is delayed past the client's timeout.
Lose(n, m) ==
  /\ n \in up
  /\ m \in eng[n].todo
  /\ eng' = [eng EXCEPT ![n] = Posted(@, m, FALSE)]
  /\ \/ m \notin up /\ UNCHANGED <<late, faults>>
     \/ m \in up /\ Fault("loss") /\ UNCHANGED late
     \/ /\ m \in up /\ Fault("delay")
        /\ late' = late \cup {[from |-> n, to |-> m, term |-> eng[n].term]}
  /\ UNCHANGED <<up, stateVars, diskVars, runtime, peerVars, pend, votes,
                 ghostVars>>

\* The handler of a request nobody waits for: State changes under its mutex,
\* clan.json is written by a later step of the same goroutine.
HandleLate(h) ==
  /\ h \in late
  /\ h.to \in up
  /\ Accepts(h.to, h.from, h.term)
  /\ late' = late \ {h}
  /\ Adopt(h.to, h.from, h.term)
  /\ TouchLive({<<h.to, h.from>>})
  /\ pend' = IF Changed(h.to, h.term, h.from)
             THEN [pend EXCEPT ![h.to] = @ \cup {<<h.term, h.from>>}]
             ELSE pend
  /\ UNCHANGED <<up, diskVars, runtime, eng, faults, ghostVars>>

RefuseLate(h) ==
  /\ h \in late
  /\ h.to \in up
  /\ Refuses(h.to, h.from, h.term)
  /\ late' = late \ {h}
  /\ UNCHANGED <<up, stateVars, diskVars, runtime, peerVars, eng, pend, faults,
                 votes, ghostVars>>

PersistLate(n, p) ==
  /\ n \in up
  /\ p \in pend[n]
  /\ pend' = [pend EXCEPT ![n] = @ \ {p}]
  /\ Persist(n, p[1], p[2])
  /\ UNCHANGED <<up, stateVars, runtime, peerVars, eng, late, votes, ghostVars>>

-----------------------------------------------------------------------------
\* End of emitHeartbeats: renew our own lease with the term of the snapshot.
FinishEmit(n) ==
  /\ n \in up
  /\ eng[n].mode = "emit"
  /\ eng[n].todo = {}
  /\ CommitSelfElection(n, eng[n].term)
  /\ eng' = [eng EXCEPT ![n] = Idle]
  /\ UNCHANGED <<up, diskVars, runtime, peerVars, late, pend, votes, ghostVars>>

\* End of runElection with enough accepts (our own vote included).
WinElection(n) ==
  /\ n \in up
  /\ eng[n].mode = "elect"
  /\ eng[n].todo = {}
  /\ Cardinality(eng[n].acc \cup {n}) >= Quorum
  /\ CommitSelfElection(n, eng[n].term)
  /\ eng' = [eng EXCEPT ![n] = IF Changed(n, eng[n].term, n)
                               THEN [mode |-> "persist", term |-> eng[n].term,
                                     todo |-> {}, acc |-> {}]
                               ELSE Idle]
  /\ won' = won \cup {[by |-> n, term |-> eng[n].term,
                       backers |-> eng[n].acc \cup {n}]}
  /\ elected' = [elected EXCEPT ![n] = @ \cup {eng[n].term}]
  /\ UNCHANGED <<up, diskVars, runtime, peerVars, late, pend, votes>>

\* ... and without: back off and let a later tick retry.  The term is kept.
AbortElection(n) ==
  /\ n \in up
  /\ eng[n].mode = "elect"
  /\ eng[n].todo = {}
  /\ Cardinality(eng[n].acc \cup {n}) < Quorum
  /\ eng' = [eng EXCEPT ![n] = Idle]
  /\ UNCHANGED <<up, stateVars, diskVars, runtime, peerVars, late, pend,
                 faults, votes, ghostVars>>

\* The engine's own persistTermAndOrch after a win.
PersistWin(n) ==
  /\ n \in up
  /\ eng[n].mode = "persist"
  /\ Persist(n, eng[n].term, n)
  /\ eng' = [eng EXCEPT ![n] = Idle]
  /\ UNCHANGED <<up, stateVars, runtime, peerVars, late, pend, votes, ghostVars>>

-----------------------------------------------------------------------------
\* l renews n's lease in time: it is in the middle of a round (shorter than a
\* lease unless a peer is slow), or its next heartbeats reach n and are taken.
Renews(l, n) ==
  \/ eng[l].mode # "idle"
  \/ Steady(l) /\ (l # n => n \in registry[l] /\ ~Refuses(n, l, term[l]))

\* (faulty) LeaseSilent without its IsZero case.
NextPhaseIfSet(p) ==
  CASE p = "held" -> "expired" [] p = "expired" -> "silent" [] OTHER -> p

\* A lease that was never set is silent once the startup grace is over.
NextPhase(p) == IF p = "held" THEN "expired" ELSE "silent"

\* Time passes at n.  A lease that lapses although a renewal is on its way is
\* a timing fault (slow network, slow peers ahead of n in the POST loop).
Elapse(n) ==
  /\ n \in up
  /\ lease[n] # "silent"
  /\ lease' = [lease EXCEPT ![n] = NextPhase(@)]
  /\ IF lease[n] # "startup" /\ \E l \in Node : l = orch[n] /\ Renews(l, n)
     THEN Fault("clock") ELSE UNCHANGED faults
  /\ UNCHANGED <<up, term, orch, diskVars, runtime, peerVars, eng, late, pend,
                 votes, ghostVars>>

\* What m's buildPayload puts on the wire.
AdOf(m) == IF ~ReasoningEnabled(m) THEN "none"
           ELSE IF m \in pinned THEN "pinned" ELSE "plain"

\* handleAdvertise at n: BindMember stores m's current ad.
Advertise(m, n) ==
  /\ {m, n} \subseteq up /\ m # n
  /\ <<n, m>> \notin behind
  /\ \/ m \notin registry[n] \/ ads[n][m] # AdOf(m) \/ <<n, m>> \notin live
  /\ registry' = [registry EXCEPT ![n] = @ \cup {m}]
  /\ ads' = [ads EXCEPT ![n][m] = AdOf(m)]
  /\ live' = live \cup {<<n, m>>}
  /\ UNCHANGED <<up, stateVars, diskVars, runtime, seen, behind, eng, late,
                 pend, faults, votes, ghostVars>>

\* BindMember of an ad of an older generation: m restarted and counts from 1
\* again, so only LastSeenAt moves, which matters once HeartbeatSeen is set.
AdvertiseOlder(m, n) ==
  /\ {m, n} \subseteq up /\ m # n
  /\ <<n, m>> \in behind \cap seen
  /\ <<n, m>> \notin live
  /\ live' = live \cup {<<n, m>>}
  /\ UNCHANGED <<up, stateVars, diskVars, runtime, registry, ads, seen, behind,
                 eng, late, pend, faults, votes, ghostVars>>

\* m's counter reaches the generation n has stored (one per broadcast).
CatchUp(m, n) ==
  /\ m \in up
  /\ <<n, m>> \in behind
  /\ behind' = behind \ {<<n, m>>}
  /\ UNCHANGED <<up, stateVars, diskVars, runtime, registry, ads, live, seen,
                 eng, late, pend, faults, votes, ghostVars>>

\* m drops out of n's selection for good, until it is heard of again: it is
\* down, or it counts as alive by AdFresh (90 s) and its ads are ignored.  For
\* any other peer three ads in a row are missing, which is a fault.
AdLapse(n, m) ==
  /\ n \in up
  /\ <<n, m>> \in live
  /\ live' = live \ {<<n, m>>}
  /\ IF m \notin up \/ <<n, m>> \in behind \ seen
     THEN UNCHANGED faults ELSE Fault("ad")
  /\ UNCHANGED <<up, stateVars, diskVars, runtime, registry, ads, seen, behind,
                 eng, late, pend, votes, ghostVars>>

\* POST /clan/pin sets or clears the member's own pin in clan.json.
Pin(n) ==
  /\ n \in up
  /\ pinned' = IF n \in pinned THEN pinned \ {n} ELSE pinned \cup {n}
  /\ Fault("pin")
  /\ UNCHANGED <<up, stateVars, dTerm, dOrch, runtime, peerVars, eng, late,
                 pend, votes, ghostVars>>

\* The member's runtime changes (external).  Only a good answer is worth
\* caching: a sick runtime that stops answering stays sick.
RuntimeChange(n, r) ==
  /\ n \in up
  /\ r # runtime[n]
  /\ ~(runtime[n] = "sick" /\ r = "gone")
  /\ runtime' = [runtime EXCEPT ![n] = r]
  /\ Fault("runtime")
  /\ UNCHANGED <<up, stateVars, diskVars, peerVars, eng, late, pend, votes,
                 ghostVars>>

\* (faulty) NewState that trusts the persisted orchestrator with a lease.
StartPhaseHeld == "held"

\* NewState: the lease is not persisted, a daemon starts without one.
StartPhase == "startup"

\* The daemon stops; what NewState and NewRegistry will start from is set
\* here, so a stopped member holds exactly what survives in clan.json.
Crash(n) ==
  /\ n \in up
  /\ Fault("crash")
  /\ up' = up \ {n}
  /\ term' = [term EXCEPT ![n] = dTerm[n]]
  /\ orch' = [orch EXCEPT ![n] = dOrch[n]]
  /\ lease' = [lease EXCEPT ![n] = StartPhase]
  /\ runtime' = [runtime EXCEPT ![n] = IF @ = "gone" THEN "sick" ELSE @]
  /\ registry' = [registry EXCEPT ![n] = {}]
  /\ ads' = [ads EXCEPT ![n] = [m \in Node |-> "none"]]
  /\ live' = {p \in live : p[1] # n}
  /\ seen' = {p \in seen : p[1] # n}
  /\ behind' = {p \in behind : p[1] # n}
               \cup {p \in Node \X {n} : n \in registry[p[1]] /\ p[1] # n}
  /\ eng' = [eng EXCEPT ![n] = Idle]
  /\ pend' = [pend EXCEPT ![n] = {}]
  /\ late' = {h \in late : h.to # n}
  /\ elected' = [elected EXCEPT ![n] = {}]
  /\ UNCHANGED <<diskVars, votes, won>>

Restart(n) ==
  /\ n \notin up
  /\ up' = up \cup {n}
  /\ UNCHANGED <<stateVars, diskVars, runtime, peerVars, eng, late, pend,
                 faults, votes, ghostVars>>

-----------------------------------------------------------------------------
\* A start in which the pairs of know have bound each other's plain ads:
\* nobody has a lease or a term.
InitWith(know) ==
  /\ up = Node
  /\ term = [n \in Node |-> 0] /\ orch = [n \in Node |-> None]
  /\ lease = [n \in Node |-> StartPhase]
  /\ dTerm = [n \in Node |-> 0] /\ dOrch = [n \in Node |-> None]
  /\ pinned = {} /\ runtime = [n \in Node |-> "ok"]
  /\ registry = [n \in Node |-> {m \in Node : <<n, m>> \in know}]
  /\ ads = [n \in Node |->
              [m \in Node |-> IF <<n, m>> \in know THEN "plain" ELSE "none"]]
  /\ live = know /\ seen = {} /\ behind = {}
  /\ eng = [n \in Node |-> Idle]
  /\ late = {} /\ pend = [n \in Node |-> {}] /\ faults = 0
  /\ won = {} /\ votes = {} /\ elected = [n \in Node |-> {}]

\* Daemons of one Clan started for the first time: nobody is known yet.
Init == InitWith({})

Engine(n) ==
  \/ BeginEmit(n) \/ BeginElection(n)
  \/ \E m \in Node : Deliver(n, m) \/ Refuse(n, m) \/ Lose(n, m)
  \/ FinishEmit(n) \/ WinElection(n) \/ AbortElection(n) \/ PersistWin(n)

Peers(n, m) ==
  Advertise(m, n) \/ AdvertiseOlder(m, n) \/ CatchUp(m, n) \/ AdLapse(n, m)

Environment(n) ==
  \/ Elapse(n) \/ Pin(n) \/ Crash(n) \/ Restart(n)
  \/ \E r \in RuntimeView : RuntimeChange(n, r)

Next ==
  \/ \E n \in Node : Engine(n) \/ Environment(n)
  \/ \E n, m \in Node : Peers(n, m)
  \/ \E h \in late : HandleLate(h) \/ RefuseLate(h)
  \/ \E n \in Node : \E p \in pend[n] : PersistLate(n, p)

Spec == Init /\ [][Next]_vars

-----------------------------------------------------------------------------
\* Type invariant.
TypeOK ==
  /\ up \subseteq Node /\ pinned \subseteq Node
  /\ term \in [Node -> Term] /\ dTerm \in [Node -> Term]
  /\ orch \in [Node -> Node \cup {None}] /\ dOrch \in [Node -> Node \cup {None}]
  /\ lease \in [Node -> Phase]
  /\ runtime \in [Node -> RuntimeView]
  /\ registry \in [Node -> SUBSET Node]
  /\ ads \in [Node -> [Node -> AdView]]
  /\ live \subseteq (Node \X Node)
  /\ seen \subseteq (Node \X Node)
  /\ behind \subseteq (Node \X Node)
  /\ eng \in [Node -> EngineState]
  /\ late \subseteq Heartbeat
  /\ pend \in [Node -> SUBSET (Term \X Node)]
  /\ faults \in 0..MaxFaults
  /\ won \subseteq Win
  /\ votes \subseteq (Node \X Term \X Node)
  /\ elected \in [Node -> SUBSET Term]

\* A member that acts as Orchestrator does so in a term it won an election
\* for since its daemon started: neither clan.json after a restart nor a
\* renewal round that outlives its lease makes an orchestrator.
LeadsOnlyWonTerm ==
  \A n \in Node : IAmOrchestrator(n) => term[n] \in elected[n]

\* Every win rests on a quorum of members, and each of them other than the
\* winner accepted the winner's announcement of that very term; refusals,
\* lost answers and acceptances of other terms count for nothing.
WinsAreBacked ==
  \A w \in won :
    /\ Cardinality(w.backers) >= Quorum
    /\ \A v \in w.backers \ {w.by} : <<v, w.term, w.by>> \in votes

\* With an odd roster that is also the electorate, two members can win the
\* same term only if some member backed both: ceil(N/2) is a majority then,
\* and double voting is the one way to a same-term split.
SplitNeedsDoubleVote ==
  (Active = Node /\ Cardinality(Node) % 2 = 1) =>
    \A w, x \in won : w.term = x.term => w.backers \cap x.backers # {}

\* A running member whose engine is not in the middle of a round never goes
\* back to an older term, whatever heartbeats arrive in whatever order.
NoRegressOutsideRounds ==
  [][\A n \in up \cap up' :
        eng[n].mode \notin {"emit", "elect"} => term'[n] >= term[n]]_vars

-----------------------------------------------------------------------------
\* What the documentation and the comments say, and the code does not do.

\* clan-protocol.md 5.2: "Term must strictly increase on election."  A running
\* member's term never decreases.
TermMonotone == [][\A n \in up \cap up' : term'[n] >= term[n]]_vars

\* clan-protocol.md 5.5: "Each peer accepts only the first received and rejects
\* the second."  A member accepts heartbeats of one candidate per term.
AcceptsOnlyFirst ==
  \A x, y \in votes : x[1] = y[1] /\ x[2] = y[2] => x[3] = y[3]

\* state.go: "One Orchestrator at a time per Clan, identified by (term,
\* member_id)".
OneOrchestratorPerTerm ==
  \A a, b \in Node :
    IAmOrchestrator(a) /\ IAmOrchestrator(b) /\ term[a] = term[b] => a = b

\* state.go, ApplyHeartbeat: "A higher term implies a successful election
\* elsewhere".  Whoever a member follows has won the term it follows in, or is
\* still running that election.
FollowsOnlyWinners ==
  \A n \in up : orch[n] \in Node \ {n} =>
    \/ \E w \in won : w.by = orch[n] /\ w.term = term[n]
    \/ eng[orch[n]].mode = "elect" /\ eng[orch[n]].term = term[n]

\* state.go, Clan: term and orchestrator are persisted "so a restarted daemon
\* doesn't re-issue an old term against peers that have moved on".  A daemon
\* that has won nothing since its start never opens a term that a peer already
\* won with its vote.
NeverReissuesOldTerm ==
  [][\A n \in up :
        (eng[n].mode = "idle" /\ eng'[n].mode = "elect" /\ elected[n] = {}) =>
          \A w \in won : w.by # n /\ n \in w.backers => w.term < eng'[n].term]_vars

\* state.go: a win takes accepts of half "of the PERSISTED ACTIVE roster (R5) -
\* never the live registry - so a minority partition can't fake quorum".
WinsBackedByActive ==
  \A w \in won : Cardinality(w.backers \cap Active) >= Quorum

\* main.go, healthFn: "heartbeat only if the local runtime answered
\* successfully", which keeps a member without a runtime from leading.  A round
\* of heartbeats is opened only by a member whose runtime answers.
HeartbeatsOnlyWhenHealthy ==
  [][\A n \in Node : (eng[n].mode = "idle" /\ eng'[n].mode \in {"emit", "elect"})
                        => Healthy(n)]_vars

-----------------------------------------------------------------------------
\* Fairness.  Engines tick for ever, POSTs return (delivered, or refused by a
\* dead host), clocks advance, ads are re-sent periodically and a dead peer's
\* ad goes stale.  A tick (2 s) falls into every stretch in which a peer is, or
\* is not, Live (4 s after an ad, and the rest of the 30 s between two ads), so
\* a member that is its own candidate again and again does run.  Nothing forces
\* a fault, a restart or a user action.
Fairness ==
  /\ \A n \in Node : /\ WF_vars(Engine(n)) /\ WF_vars(Elapse(n))
                     /\ SF_vars(BeginElection(n))
  /\ \A n, m \in Node : WF_vars(Peers(n, m))
  /\ WF_vars(\E h \in late : HandleLate(h) \/ RefuseLate(h))
  /\ WF_vars(\E n \in Node : \E p \in pend[n] : PersistLate(n, p))

FairSpec == Spec /\ Fairness

\* A quorum is running, one of them with a working runtime, and the model's
\* bound on terms stops nobody.
Electable ==
  /\ Cardinality(up) >= Quorum
  /\ \E n \in up : Healthy(n)
  /\ \A n \in up : term[n] < MaxTerm

\* clan-protocol.md 5.5: "the protocol terminates".  While a leader can be
\* elected the Clan is never without one for good.
NeverLeaderless == <>[]Electable => []<>(\E n \in Node : IAmOrchestrator(n))
=============================================================================
