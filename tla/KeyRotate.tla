----------------------------- MODULE KeyRotate -----------------------------
(***************************************************************************)
(* Rotation of the Clan key: cland/internal/keyrotate (the coordinator's   *)
(* two-phase commit, the members' propose store), crypto/keyprovider.go    *)
(* and the key check of transport/server.go.                               *)
(*                                                                         *)
(* A rotation is one call of Coordinator.Rotate; its id stands for the     *)
(* propose_id and for the fresh key both.  Calls overlap freely: nothing   *)
(* serialises the trigger endpoint, on one daemon or between two daemons   *)
(* that both pass the orchestrator gate.  A broadcast runs one goroutine   *)
(* per peer, so the answers of a round come in any order, and the round    *)
(* ends when each peer has answered or its POST timed out (15 s).          *)
(*                                                                         *)
(* Time is kept only where the code compares it: a pending propose may     *)
(* turn older than MemberRevertAfter (90 s) and a grace window may end     *)
(* (5 min) only after every rotation in flight at their start has ended,   *)
(* since a rotation takes two rounds of at most 15 s each.                 *)
(***************************************************************************)
EXTENDS Naturals, FiniteSets

CONSTANTS
  Member,        \* the active roster
  Orchestrators, \* members whose IAmOrchestrator may hold when triggered
  Rotation,      \* calls of Rotate, each with its id and key
  Old,           \* the clan_key in every member's clan.json
  None,          \* no key, no pending propose
  MaxOpen,       \* bound: rotations in flight at once
  MaxFaults,     \* bound: number of environment faults
  FaultKinds     \* subset of {"loss", "delay", "crash"}

ASSUME IdAssumption ==
  /\ Orchestrators \subseteq Member
  /\ IsFiniteSet(Rotation)
  /\ Old \notin Rotation /\ None \notin Rotation \cup {Old}
ASSUME BoundAssumption == MaxOpen \in Nat /\ MaxFaults \in Nat

VARIABLES
  up,        \* running daemons
  key,       \* KeyProvider.current
  grace,     \* KeyProvider.grace while its window is open
  during,    \* rotations in flight when the member last rotated its key
  pending,   \* ProposeStore.pending
  aged,      \* members whose pending propose is older than MemberRevertAfter
  registry,  \* peers.Registry: the members with a known address
  phase, by, peers, acked,   \* the locals of each Rotate call
  todo, sig, \* its broadcast: peers still to answer, key the POSTs are signed with
  late,      \* POSTs their sender gave up on that may still be handled
  faults,    \* environment faults so far
  overlapped \* history: 1 once a rotation was triggered during another, else 0

providerVars == <<key, grace, during>>
storeVars    == <<pending, aged>>
callVars     == <<phase, by, peers, acked, todo, sig>>
vars == <<up, providerVars, storeVars, registry, callVars, late, faults, overlapped>>

Key   == Rotation \cup {Old}
Round == {"propose", "commit", "abort"}
Post  == [round : Round, rot : Rotation, to : Member, sig : Key]

Open == {r \in Rotation : phase[r] \in Round}

-----------------------------------------------------------------------------
\* authMiddleware: the current key first, then the grace key.
Verifies(m, k) == k \in {key[m], grace[m]}

\* (faulty) Rotate that forgets the previous key.
RotateNoGrace(m, k) ==
  /\ key' = [key EXCEPT ![m] = k]
  /\ grace' = [grace EXCEPT ![m] = None]
  /\ during' = [during EXCEPT ![m] = Open]

\* SimpleKeyProvider.Rotate.  Memory only: clan.json keeps the Old key.
Rotate(m, k) ==
  /\ key' = [key EXCEPT ![m] = k]
  /\ grace' = [grace EXCEPT ![m] = key[m]]
  /\ during' = [during EXCEPT ![m] = Open]

\* Put accepts: nothing pending, the same propose again, or an expired one.
CanPut(m, r) == pending[m] \in {None, r} \/ m \in aged

\* handlePropose with ProposeStore.Put; a repeated propose keeps its age.
HandlePropose(m, r) ==
  /\ IF CanPut(m, r) /\ pending[m] # r
     THEN /\ pending' = [pending EXCEPT ![m] = r]
          /\ aged' = aged \ {m}
     ELSE UNCHANGED storeVars
  /\ UNCHANGED providerVars

\* (faulty) Take and Clear that keep ReceivedAt behind.
DropKeepsAge(m, r) ==
  /\ pending' = [pending EXCEPT ![m] = IF @ = r THEN None ELSE @]
  /\ aged' = aged

\* Take and Clear: forget the propose with this id, whatever its age.
Drop(m, r) ==
  /\ pending' = [pending EXCEPT ![m] = IF @ = r THEN None ELSE @]
  /\ aged' = IF pending[m] = r THEN aged \ {m} ELSE aged

\* handleCommit: rotate to the key taken from the store, 409 without one.
HandleCommit(m, r) ==
  /\ Drop(m, r)
  /\ IF pending[m] = r THEN Rotate(m, r) ELSE UNCHANGED providerVars

\* handleAbort.
HandleAbort(m, r) == Drop(m, r) /\ UNCHANGED providerVars

\* A POST of a round reaches m's mux and passes authMiddleware.
Handle(round, m, r, k) ==
  /\ m \in up
  /\ Verifies(m, k)
  /\ \/ round = "propose" /\ HandlePropose(m, r)
     \/ round = "commit" /\ HandleCommit(m, r)
     \/ round = "abort" /\ HandleAbort(m, r)

-----------------------------------------------------------------------------
\* m's broadcast: one POST per target, signed with m's current key.
Broadcast(r, m, round, targets) ==
  /\ phase' = [phase EXCEPT ![r] = round]
  /\ todo' = [todo EXCEPT ![r] = targets]
  /\ sig' = [sig EXCEPT ![r] = key[m]]

\* The key the CLI of any member signs with: the one in clan.json.
CliKey == Old

\* PeerSource at m: the active members with an address in its registry.
PeerSource(m) == registry[m]

\* POST /clan/rotate-key at m by the local CLI: Rotate up to its first round.
\* Without peers the daemon rotates alone.
Trigger(r, m) ==
  /\ phase[r] = "new" /\ Cardinality(Open) < MaxOpen
  /\ m \in up \cap Orchestrators
  /\ Verifies(m, CliKey)
  /\ by' = [by EXCEPT ![r] = m]
  /\ peers' = [peers EXCEPT ![r] = PeerSource(m)]
  /\ IF PeerSource(m) = {}
     THEN /\ phase' = [phase EXCEPT ![r] = "committed"]
          /\ Rotate(m, r)
          /\ UNCHANGED <<todo, sig>>
     ELSE Broadcast(r, m, "propose", PeerSource(m)) /\ UNCHANGED providerVars
  /\ overlapped' = IF Open = {} THEN overlapped ELSE 1
  /\ UNCHANGED <<up, storeVars, registry, acked, late, faults>>

\* p's answer to the current round of r; only propose answers are looked at.
Answered(r, p, ok) ==
  /\ todo' = [todo EXCEPT ![r] = @ \ {p}]
  /\ acked' = IF phase[r] = "propose" /\ ok
              THEN [acked EXCEPT ![r] = @ \cup {p}] ELSE acked
  /\ UNCHANGED <<phase, by, peers, sig>>

\* p handles the POST and its answer arrives in time.
Deliver(r, p) ==
  /\ phase[r] \in Round /\ p \in todo[r]
  /\ Handle(phase[r], p, r, sig[r])
  /\ Answered(r, p, CanPut(p, r))
  /\ UNCHANGED <<up, registry, late, faults, overlapped>>

\* Connection refused by a stopped daemon, or 401.
Reject(r, p) ==
  /\ phase[r] \in Round /\ p \in todo[r]
  /\ ~(p \in up /\ Verifies(p, sig[r]))
  /\ Answered(r, p, FALSE)
  /\ UNCHANGED <<up, providerVars, storeVars, registry, late, faults, overlapped>>

Fault(kind) == kind \in FaultKinds /\ faults < MaxFaults /\ faults' = faults + 1

\* The POST times out: it never reached p, or p handles it (or its answer
\* arrives) after the sender gave up.
Lose(r, p) ==
  /\ phase[r] \in Round /\ p \in todo[r]
  /\ Answered(r, p, FALSE)
  /\ \/ Fault("loss") /\ UNCHANGED late
     \/ /\ Fault("delay")
        /\ late' = late \cup {[round |-> phase[r], rot |-> r, to |-> p, sig |-> sig[r]]}
  /\ UNCHANGED <<up, providerVars, storeVars, registry, overlapped>>

HandleLate(q) ==
  /\ q \in late /\ late' = late \ {q}
  /\ Handle(q.round, q.to, q.rot, q.sig)
  /\ UNCHANGED <<up, registry, callVars, faults, overlapped>>

\* Refused on arrival, or its timestamp passed TimestampSkewMax on the way.
DropLate(q) ==
  /\ q \in late /\ late' = late \ {q}
  /\ UNCHANGED <<up, providerVars, storeVars, registry, callVars, faults, overlapped>>

\* (faulty) commit once half of the peers acknowledged.
MostAcked(r) == 2 * Cardinality(acked[r]) >= Cardinality(peers[r])

\* len(failed) = 0.
AllAcked(r) == acked[r] = peers[r]

\* Every propose answered: commit to all peers, or abort to those that acked.
EndPropose(r) ==
  /\ phase[r] = "propose" /\ todo[r] = {}
  /\ IF AllAcked(r) THEN Broadcast(r, by[r], "commit", peers[r])
                    ELSE Broadcast(r, by[r], "abort", acked[r])
  /\ UNCHANGED <<up, providerVars, storeVars, registry, by, peers, acked, late,
                 faults, overlapped>>

\* (faulty) the coordinator forgets its own key after the commit round.
EndCommitNoSelf(r) ==
  /\ phase[r] = "commit" /\ todo[r] = {}
  /\ phase' = [phase EXCEPT ![r] = "committed"]
  /\ UNCHANGED <<up, providerVars, storeVars, registry, by, peers, acked, todo, sig,
                 late, faults, overlapped>>

\* The commit round is over, whatever its answers: rotate the own key.
EndCommit(r) ==
  /\ phase[r] = "commit" /\ todo[r] = {}
  /\ phase' = [phase EXCEPT ![r] = "committed"]
  /\ Rotate(by[r], r)
  /\ UNCHANGED <<up, storeVars, registry, by, peers, acked, todo, sig, late, faults,
                 overlapped>>

EndAbort(r) ==
  /\ phase[r] = "abort" /\ todo[r] = {}
  /\ phase' = [phase EXCEPT ![r] = "aborted"]
  /\ UNCHANGED <<up, providerVars, storeVars, registry, by, peers, acked, todo, sig,
                 late, faults, overlapped>>

-----------------------------------------------------------------------------
\* 90 s pass since Put.
Age(m) ==
  /\ pending[m] # None /\ m \notin aged
  /\ pending[m] \notin Open
  /\ aged' = aged \cup {m}
  /\ UNCHANGED <<up, providerVars, pending, registry, callVars, late, faults, overlapped>>

\* (faulty) SweepExpired with the comparison inverted.
SweepFresh(m) ==
  /\ pending[m] # None /\ m \notin aged
  /\ pending' = [pending EXCEPT ![m] = None]
  /\ UNCHANGED <<up, providerVars, aged, registry, callVars, late, faults, overlapped>>

\* SweepExpired, every ProposeTimeout.
SweepExpired(m) ==
  /\ pending[m] # None /\ m \in aged
  /\ pending' = [pending EXCEPT ![m] = None]
  /\ aged' = aged \ {m}
  /\ UNCHANGED <<up, providerVars, registry, callVars, late, faults, overlapped>>

\* graceExpiry passes.
GraceEnd(m) ==
  /\ grace[m] # None /\ during[m] \cap Open = {}
  /\ grace' = [grace EXCEPT ![m] = None]
  /\ UNCHANGED <<up, key, during, storeVars, registry, callVars, late, faults, overlapped>>

\* p's advertisement reaches m and passes authMiddleware: BindMember.
Advertise(p, m) ==
  /\ p \in up /\ m \in up /\ p # m /\ p \notin registry[m]
  /\ Verifies(m, key[p])
  /\ registry' = [registry EXCEPT ![m] = @ \cup {p}]
  /\ UNCHANGED <<up, providerVars, storeVars, callVars, late, faults, overlapped>>

\* The daemon stops: its memory and its own rotations are gone, the POSTs it
\* already sent are not.
Crash(m) ==
  /\ m \in up /\ Fault("crash")
  /\ up' = up \ {m}
  /\ key' = [key EXCEPT ![m] = Old]
  /\ grace' = [grace EXCEPT ![m] = None]
  /\ during' = [during EXCEPT ![m] = {}]
  /\ pending' = [pending EXCEPT ![m] = None]
  /\ aged' = aged \ {m}
  /\ registry' = [registry EXCEPT ![m] = {}]
  /\ LET mine == {r \in Open : by[r] = m} IN
     /\ phase' = [r \in Rotation |-> IF r \in mine THEN "dead" ELSE phase[r]]
     /\ late' = late \cup {q \in Post : /\ q.rot \in mine /\ q.round = phase[q.rot]
                                        /\ q.to \in todo[q.rot] /\ q.sig = sig[q.rot]}
  /\ UNCHANGED <<by, peers, acked, todo, sig, overlapped>>

\* runDaemon: NewSimpleKeyProvider(clan.ClanKey()), empty store and registry.
Restart(m) ==
  /\ m \notin up
  /\ up' = up \cup {m}
  /\ UNCHANGED <<providerVars, storeVars, registry, callVars, late, faults, overlapped>>

\* Every member runs, holds the key of clan.json and knows the others.
Init ==
  /\ up = Member
  /\ key = [m \in Member |-> Old]
  /\ grace = [m \in Member |-> None]
  /\ during = [m \in Member |-> {}]
  /\ pending = [m \in Member |-> None]
  /\ aged = {}
  /\ registry = [m \in Member |-> Member \ {m}]
  /\ phase = [r \in Rotation |-> "new"]
  /\ by = [r \in Rotation |-> None]
  /\ peers = [r \in Rotation |-> {}]
  /\ acked = [r \in Rotation |-> {}]
  /\ todo = [r \in Rotation |-> {}]
  /\ sig = [r \in Rotation |-> Old]
  /\ late = {}
  /\ faults = 0
  /\ overlapped = 0

Next ==
  \/ \E r \in Rotation : EndPropose(r) \/ EndCommit(r) \/ EndAbort(r)
  \/ \E r \in Rotation, m \in Member :
       Trigger(r, m) \/ Deliver(r, m) \/ Reject(r, m) \/ Lose(r, m)
  \/ \E q \in late : HandleLate(q) \/ DropLate(q)
  \/ \E m \in Member :
       Age(m) \/ SweepExpired(m) \/ GraceEnd(m) \/ Crash(m) \/ Restart(m)
  \/ \E p, m \in Member : Advertise(p, m)

Spec == Init /\ [][Next]_vars

\* Each POST ends within its timeout, Rotate then goes on, clocks advance and
\* the sweep goroutine ticks.
Fairness ==
  /\ \A r \in Rotation : /\ WF_vars(EndPropose(r))
                          /\ WF_vars(EndCommit(r))
                          /\ WF_vars(EndAbort(r))
  /\ \A r \in Rotation, p \in Member : WF_vars(Deliver(r, p) \/ Reject(r, p))
  /\ \A m \in Member : WF_vars(Age(m)) /\ WF_vars(SweepExpired(m))

FairSpec == Spec /\ Fairness

-----------------------------------------------------------------------------
\* The values of the variables; the age mark goes with the propose it is about.
TypeOK ==
  /\ up \subseteq Member
  /\ key \in [Member -> Key]
  /\ grace \in [Member -> Key \cup {None}]
  /\ during \in [Member -> SUBSET Rotation]
  /\ pending \in [Member -> Rotation \cup {None}]
  /\ aged \subseteq {m \in Member : pending[m] # None}
  /\ registry \in [Member -> SUBSET Member]
  /\ phase \in [Rotation -> Round \cup {"new", "committed", "aborted", "dead"}]
  /\ by \in [Rotation -> Member \cup {None}]
  /\ \A r \in Rotation : phase[r] # "new" => by[r] \in Member
  /\ peers \in [Rotation -> SUBSET Member]
  /\ acked \in [Rotation -> SUBSET Member]
  /\ todo \in [Rotation -> SUBSET Member]
  /\ sig \in [Rotation -> Key]
  /\ late \subseteq Post
  /\ faults \in 0..MaxFaults
  /\ overlapped \in {0, 1}

\* A key in use anywhere, as current or as grace key, belongs to a rotation
\* that every peer it asked has acknowledged and that was not aborted, whatever
\* is lost, delayed or restarted and however many rotations overlap
\* (Coordinator.Rotate, handleCommit).
KeyNeedsEveryAck ==
  \A m \in Member, r \in Rotation :
    r \in {key[m], grace[m]} =>
      peers[r] \subseteq acked[r] /\ phase[r] \notin {"new", "propose", "abort", "aborted"}

\* One rotation at a time and no faults so far.
Orderly == faults = 0 /\ overlapped = 0

\* No request of a coordinator is refused at any moment of its rotation: what it
\* signs verifies against the current or the grace key of every member, also of
\* those that rotated before it (SimpleKeyProvider.Rotate, authMiddleware).
HeardThroughout ==
  Orderly => \A r \in Open, m \in Member : Verifies(m, key[by[r]])

Quiet == Open = {} /\ late = {}

\* Between rotations all members use one key.
SharedWhenQuiet == Quiet => \A m, n \in up : key[m] = key[n]

\* Rotations that follow one another leave all members with one key
\* (Coordinator.Rotate, handleCommit).
SharedWhenOrderly == Orderly => SharedWhenQuiet

\* Between rotations every two running members accept each other's requests.
MembersCanTalk == Quiet => \A m, n \in up : Verifies(m, key[n])

\* Between rotations the key in clan.json, which a restarting daemon, the CLI and
\* a new joiner use, is accepted by every running daemon.
DiskKeyAccepted == Quiet => \A m \in up : Verifies(m, Old)

\* A committed rotation was acknowledged by every other active member.
CommitsNeedAllActive ==
  \A r \in Rotation : phase[r] = "committed" => acked[r] = Member \ {by[r]}

\* A member that accepted a propose becomes idle again: the commit or the abort
\* arrives, or the sweep drops it (SweepExpired, MemberRevertAfter).
ProposesSettle == \A m \in Member : pending[m] # None ~> pending[m] = None
=============================================================================
