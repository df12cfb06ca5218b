-------------------------- MODULE KeyRotateProofs --------------------------
(***************************************************************************)
(* Proofs about KeyRotate for any roster, any number of rotations in       *)
(* flight and any number of faults.                                        *)
(***************************************************************************)
EXTENDS KeyRotate, TLAPS

\* KeyProvider.Rotate keeps the provider's types and brings in one new key.
LEMMA RotateType ==
  ASSUME TypeOK, NEW m \in Member, NEW k \in Key, Rotate(m, k)
  PROVE  /\ key' \in [Member -> Key]
         /\ grace' \in [Member -> Key \cup {None}]
         /\ during' \in [Member -> SUBSET Rotation]
         /\ \A n \in Member : /\ key'[n] \in {key[n]} \cup {k}
                              /\ grace'[n] \in {grace[n], key[n]}
BY DEF TypeOK, Rotate, Open

\* Take and Clear keep the store's types.
LEMMA DropType ==
  ASSUME TypeOK, NEW m \in Member, NEW r \in Rotation, Drop(m, r)
  PROVE  /\ pending' \in [Member -> Rotation \cup {None}]
         /\ aged' \subseteq {n \in Member : pending'[n] # None}
BY IdAssumption DEF TypeOK, Drop

\* A handler keeps the member's types; only a commit brings in a key, its own.
LEMMA HandleType ==
  ASSUME TypeOK, NEW round \in Round, NEW m \in Member, NEW r \in Rotation, NEW k,
         Handle(round, m, r, k)
  PROVE  /\ key' \in [Member -> Key]
         /\ grace' \in [Member -> Key \cup {None}]
         /\ during' \in [Member -> SUBSET Rotation]
         /\ pending' \in [Member -> Rotation \cup {None}]
         /\ aged' \subseteq {n \in Member : pending'[n] # None}
         /\ \A n \in Member : /\ key'[n] = key[n] \/ (round = "commit" /\ key'[n] = r)
                              /\ grace'[n] \in {grace[n], key[n]}
<1>1. CASE round = "propose"
  <2>1. HandlePropose(m, r)
    BY <1>1 DEF Handle
  <2>2. CASE CanPut(m, r) /\ pending[m] # r
    BY <2>1, <2>2, IdAssumption DEF HandlePropose, TypeOK, providerVars
  <2>3. CASE ~(CanPut(m, r) /\ pending[m] # r)
    BY <2>1, <2>3 DEF HandlePropose, TypeOK, providerVars, storeVars
  <2> QED
    BY <2>2, <2>3
<1>2. CASE round = "commit"
  <2>1. HandleCommit(m, r)
    BY <1>2 DEF Handle
  <2>2. Drop(m, r)
    BY <2>1 DEF HandleCommit
  <2>3. CASE pending[m] = r
    <3>1. Rotate(m, r)
      BY <2>1, <2>3 DEF HandleCommit
    <3> QED
      BY <1>2, <2>2, <3>1, RotateType, DropType DEF Key
  <2>4. CASE pending[m] # r
    <3>1. UNCHANGED providerVars
      BY <2>1, <2>4 DEF HandleCommit
    <3> QED
      BY <2>2, <3>1, DropType DEF providerVars, TypeOK
  <2> QED
    BY <2>3, <2>4
<1>3. CASE round = "abort"
  <2>1. Drop(m, r) /\ UNCHANGED providerVars
    BY <1>3 DEF Handle, HandleAbort
  <2> QED
    BY <2>1, DropType DEF providerVars, TypeOK
<1> QED
  BY <1>1, <1>2, <1>3 DEF Round

-----------------------------------------------------------------------------
\* Every step keeps the types.
LEMMA TypeStep == TypeOK /\ [Next]_vars => TypeOK'
<1> SUFFICES ASSUME TypeOK, [Next]_vars PROVE TypeOK'
  OBVIOUS
<1> USE DEF providerVars, storeVars, callVars, PeerSource
<1>1. ASSUME NEW r \in Rotation, EndPropose(r) PROVE TypeOK'
  BY <1>1 DEF EndPropose, Broadcast, TypeOK, Round
<1>2. ASSUME NEW r \in Rotation, EndCommit(r) PROVE TypeOK'
  <2>1. by[r] \in Member /\ Rotate(by[r], r) /\ r \in Key
    BY <1>2 DEF EndCommit, TypeOK, Key
  <2> QED
    BY <1>2, <2>1, RotateType DEF EndCommit, TypeOK
<1>3. ASSUME NEW r \in Rotation, EndAbort(r) PROVE TypeOK'
  BY <1>3 DEF EndAbort, TypeOK
<1>4. ASSUME NEW r \in Rotation, NEW m \in Member, Trigger(r, m) PROVE TypeOK'
  <2>0. overlapped' \in {0, 1}
    BY <1>4 DEF Trigger, TypeOK
  <2>1. CASE registry[m] = {}
    <3>1. Rotate(m, r) /\ r \in Key
      BY <1>4, <2>1 DEF Trigger, Key
    <3> QED
      BY <1>4, <2>0, <2>1, <3>1, RotateType DEF Trigger, TypeOK
  <2>2. CASE registry[m] # {}
    <3>1. /\ phase' = [phase EXCEPT ![r] = "propose"]
          /\ todo' = [todo EXCEPT ![r] = registry[m]]
          /\ sig' = [sig EXCEPT ![r] = key[m]]
          /\ by' = [by EXCEPT ![r] = m]
          /\ peers' = [peers EXCEPT ![r] = registry[m]]
      BY <1>4, <2>2 DEF Trigger, Broadcast
    <3>2. UNCHANGED <<up, key, grace, during, pending, aged, registry, acked, late, faults>>
      BY <1>4, <2>2 DEF Trigger
    <3> QED
      BY <2>0, <3>1, <3>2 DEF TypeOK, Round
  <2> QED
    BY <2>1, <2>2
<1>5. ASSUME NEW r \in Rotation, NEW p \in Member, Deliver(r, p) PROVE TypeOK'
  <2>1. phase[r] \in Round /\ Handle(phase[r], p, r, sig[r])
    BY <1>5 DEF Deliver
  <2> QED
    BY <1>5, <2>1, HandleType DEF Deliver, Answered, TypeOK
<1>6. ASSUME NEW r \in Rotation, NEW p \in Member, Reject(r, p) PROVE TypeOK'
  BY <1>6 DEF Reject, Answered, TypeOK
<1>7. ASSUME NEW r \in Rotation, NEW p \in Member, Lose(r, p) PROVE TypeOK'
  <2>1. faults' \in 0..MaxFaults
    BY <1>7, BoundAssumption DEF Lose, Fault, TypeOK
  <2>2. late' \subseteq Post
    BY <1>7 DEF Lose, Post, TypeOK
  <2> QED
    BY <1>7, <2>1, <2>2 DEF Lose, Answered, TypeOK
<1>8. ASSUME NEW q \in late, HandleLate(q) PROVE TypeOK'
  <2>1. /\ q.round \in Round /\ q.to \in Member /\ q.rot \in Rotation
        /\ Handle(q.round, q.to, q.rot, q.sig)
    BY <1>8 DEF HandleLate, TypeOK, Post
  <2> QED
    BY <1>8, <2>1, HandleType DEF HandleLate, TypeOK
<1>9. ASSUME NEW q \in late, DropLate(q) PROVE TypeOK'
  BY <1>9 DEF DropLate, TypeOK
<1>10. ASSUME NEW m \in Member, Age(m) PROVE TypeOK'
  BY <1>10 DEF Age, TypeOK
<1>11. ASSUME NEW m \in Member, SweepExpired(m) PROVE TypeOK'
  BY <1>11 DEF SweepExpired, TypeOK
<1>12. ASSUME NEW m \in Member, GraceEnd(m) PROVE TypeOK'
  BY <1>12 DEF GraceEnd, TypeOK
<1>13. ASSUME NEW m \in Member, Crash(m) PROVE TypeOK'
  <2>1. faults' \in 0..MaxFaults
    BY <1>13, BoundAssumption DEF Crash, Fault, TypeOK
  <2>2. late' \subseteq Post
    BY <1>13 DEF Crash, TypeOK
  <2>3. /\ phase' \in [Rotation -> Round \cup {"new", "committed", "aborted", "dead"}]
        /\ \A r \in Rotation : phase'[r] # "new" => by'[r] \in Member
    BY <1>13 DEF Crash, Open, Round, TypeOK
  <2> QED
    BY <1>13, <2>1, <2>2, <2>3 DEF Crash, TypeOK, Key
<1>14. ASSUME NEW m \in Member, Restart(m) PROVE TypeOK'
  BY <1>14 DEF Restart, TypeOK
<1>15. ASSUME NEW p \in Member, NEW m \in Member, Advertise(p, m) PROVE TypeOK'
  BY <1>15 DEF Advertise, TypeOK
<1>16. CASE UNCHANGED vars
  BY <1>16 DEF vars, TypeOK
<1> QED
  BY <1>1, <1>2, <1>3, <1>4, <1>5, <1>6, <1>7, <1>8, <1>9, <1>10, <1>11, <1>12, <1>13,
     <1>14, <1>15, <1>16 DEF Next

\* Every reachable state has the types of TypeOK: in particular a mark that a
\* propose expired never outlives the propose (ProposeStore).
THEOREM RotateTypeCorrect == Spec => []TypeOK
<1>1. Init => TypeOK
  BY BoundAssumption DEF Init, TypeOK, Key, Round
<1> QED
  BY <1>1, TypeStep, PTL DEF Spec

-----------------------------------------------------------------------------
\* A commit exists, as a round or as a late POST, for acknowledged rotations only.
Acknowledged(r) == peers[r] \subseteq acked[r]
CommitInv ==
  /\ \A r \in Rotation : phase[r] \in {"commit", "committed"} => Acknowledged(r)
  /\ \A q \in late : q.round = "commit" =>
       Acknowledged(q.rot) /\ phase[q.rot] \in {"commit", "committed", "dead"}
AckInv == CommitInv /\ KeyNeedsEveryAck

\* Every step keeps AckInv.
LEMMA AckStep == TypeOK /\ AckInv /\ [Next]_vars => AckInv'
<1> SUFFICES ASSUME TypeOK, AckInv, [Next]_vars PROVE AckInv'
  OBVIOUS
<1> USE DEF providerVars, storeVars, callVars, PeerSource, AckInv, Acknowledged, Round
<1>1. ASSUME NEW r \in Rotation, EndPropose(r) PROVE AckInv'
  <2>1. phase' = [phase EXCEPT ![r] = IF AllAcked(r) THEN "commit" ELSE "abort"]
    BY <1>1 DEF EndPropose, Broadcast
  <2>2. phase[r] = "propose" /\ UNCHANGED <<key, grace, peers, acked, late>>
    BY <1>1 DEF EndPropose
  <2> QED
    BY <2>1, <2>2 DEF AllAcked, TypeOK, CommitInv, KeyNeedsEveryAck, Post
<1>2. ASSUME NEW r \in Rotation, EndCommit(r) PROVE AckInv'
  <2>1. by[r] \in Member /\ Rotate(by[r], r) /\ r \in Key
    BY <1>2 DEF EndCommit, TypeOK, Key
  <2>2. /\ phase[r] = "commit" /\ phase' = [phase EXCEPT ![r] = "committed"]
        /\ UNCHANGED <<peers, acked, late>>
    BY <1>2 DEF EndCommit
  <2>3. CommitInv'
    BY <2>2 DEF TypeOK, CommitInv, Post
  <2>4. KeyNeedsEveryAck'
    BY <2>1, <2>2, RotateType DEF TypeOK, CommitInv, KeyNeedsEveryAck
  <2> QED
    BY <2>3, <2>4
<1>3. ASSUME NEW r \in Rotation, EndAbort(r) PROVE AckInv'
  BY <1>3 DEF EndAbort, TypeOK, CommitInv, KeyNeedsEveryAck, Post
<1>4. ASSUME NEW r \in Rotation, NEW m \in Member, Trigger(r, m) PROVE AckInv'
  <2>1. /\ phase[r] = "new" /\ peers' = [peers EXCEPT ![r] = registry[m]]
        /\ UNCHANGED <<acked, late>>
    BY <1>4 DEF Trigger
  <2>2. CASE registry[m] = {}
    <3>1. phase' = [phase EXCEPT ![r] = "committed"] /\ Rotate(m, r) /\ r \in Key
      BY <1>4, <2>2 DEF Trigger, Key
    <3>2. CommitInv'
      BY <2>1, <2>2, <3>1 DEF TypeOK, CommitInv, Post
    <3>3. KeyNeedsEveryAck'
      BY <2>1, <2>2, <3>1, RotateType DEF TypeOK, KeyNeedsEveryAck
    <3> QED
      BY <3>2, <3>3
  <2>3. CASE registry[m] # {}
    <3>1. phase' = [phase EXCEPT ![r] = "propose"] /\ UNCHANGED <<key, grace>>
      BY <1>4, <2>3 DEF Trigger, Broadcast
    <3> QED
      BY <2>1, <3>1 DEF TypeOK, CommitInv, KeyNeedsEveryAck, Post
  <2> QED
    BY <2>2, <2>3
<1>5. ASSUME NEW r \in Rotation, NEW p \in Member, Deliver(r, p) PROVE AckInv'
  <2>1. phase[r] \in Round /\ Handle(phase[r], p, r, sig[r])
    BY <1>5 DEF Deliver
  <2>2. /\ UNCHANGED <<phase, peers, late>>
        /\ \A s \in Rotation : acked[s] \subseteq acked'[s]
    BY <1>5 DEF Deliver, Answered, TypeOK
  <2>3. CommitInv'
    BY <2>2 DEF TypeOK, CommitInv, Post
  <2>4. KeyNeedsEveryAck'
    BY <2>1, <2>2, HandleType DEF TypeOK, CommitInv, KeyNeedsEveryAck
  <2> QED
    BY <2>3, <2>4
<1>6. ASSUME NEW r \in Rotation, NEW p \in Member, Reject(r, p) PROVE AckInv'
  BY <1>6 DEF Reject, Answered, CommitInv, KeyNeedsEveryAck
<1>7. ASSUME NEW r \in Rotation, NEW p \in Member, Lose(r, p) PROVE AckInv'
  <2>1. UNCHANGED <<key, grace, phase, peers, acked>>
    BY <1>7 DEF Lose, Answered
  <2>2. \A q \in late' : q \in late \/ (q.rot = r /\ q.round = phase[r])
    BY <1>7 DEF Lose
  <2> QED
    BY <2>1, <2>2 DEF CommitInv, KeyNeedsEveryAck
<1>8. ASSUME NEW q \in late, HandleLate(q) PROVE AckInv'
  <2>1. /\ q.round \in Round /\ q.to \in Member /\ q.rot \in Rotation
        /\ Handle(q.round, q.to, q.rot, q.sig)
    BY <1>8 DEF HandleLate, TypeOK, Post
  <2>2. late' \subseteq late /\ UNCHANGED <<phase, peers, acked>>
    BY <1>8 DEF HandleLate
  <2>3. CommitInv'
    BY <2>2 DEF CommitInv
  <2>4. \A n \in Member :
          /\ key'[n] = key[n] \/ (q.round = "commit" /\ key'[n] = q.rot)
          /\ grace'[n] \in {grace[n], key[n]}
    BY <2>1, HandleType
  <2>5. q.round = "commit" => /\ peers[q.rot] \subseteq acked[q.rot]
                              /\ phase[q.rot] \in {"commit", "committed", "dead"}
    BY DEF CommitInv
  <2>6. KeyNeedsEveryAck'
    BY <2>2, <2>4, <2>5 DEF KeyNeedsEveryAck
  <2> QED
    BY <2>3, <2>6
<1>9. ASSUME NEW m \in Member, Crash(m) PROVE AckInv'
  <2>1. UNCHANGED <<peers, acked>>
    BY <1>9 DEF Crash
  <2>2. \A r \in Rotation : phase'[r] = phase[r] \/ (phase[r] \in Round /\ phase'[r] = "dead")
    BY <1>9 DEF Crash, Open
  <2>3. \A q \in late' : q \in late \/ (q \in Post /\ q.round = phase[q.rot]
                                          /\ phase'[q.rot] = "dead")
    BY <1>9 DEF Crash, Post
  <2>4. CommitInv'
    BY <2>1, <2>2, <2>3 DEF CommitInv, Post, TypeOK
  <2>5. \A n \in Member : key'[n] \in {key[n], Old} /\ grace'[n] \in {grace[n], None}
    BY <1>9 DEF Crash, TypeOK
  <2>6. KeyNeedsEveryAck'
    BY <2>1, <2>2, <2>5, IdAssumption DEF KeyNeedsEveryAck
  <2> QED
    BY <2>4, <2>6
<1>10. ASSUME NEW m \in Member, GraceEnd(m) PROVE AckInv'
  <2>1. \A n \in Member : grace'[n] \in {grace[n], None}
    BY <1>10 DEF GraceEnd, TypeOK
  <2> QED
    BY <1>10, <2>1, IdAssumption DEF GraceEnd, CommitInv, KeyNeedsEveryAck
<1>11. CASE UNCHANGED <<key, grace, phase, peers, acked>> /\ late' \subseteq late
  BY <1>11 DEF CommitInv, KeyNeedsEveryAck
<1>12. ASSUME NEW q \in late, DropLate(q) PROVE AckInv'
  BY <1>11, <1>12 DEF DropLate
<1>13. ASSUME NEW m \in Member, Age(m) \/ SweepExpired(m) \/ Restart(m) PROVE AckInv'
  BY <1>11, <1>13 DEF Age, SweepExpired, Restart
<1>14. ASSUME NEW p \in Member, NEW m \in Member, Advertise(p, m) PROVE AckInv'
  BY <1>11, <1>14 DEF Advertise
<1>15. CASE UNCHANGED vars
  BY <1>11, <1>15 DEF vars
<1> QED
  BY <1>1, <1>2, <1>3, <1>4, <1>5, <1>6, <1>7, <1>8, <1>9, <1>10, <1>12, <1>13, <1>14,
     <1>15 DEF Next

\* Whatever is lost, delayed or restarted and however many rotations overlap, no
\* member ever uses the key of a rotation some asked peer did not acknowledge, nor
\* of an aborted one (Coordinator.Rotate, handleCommit).
THEOREM KeysAreAcknowledged == Spec => []KeyNeedsEveryAck
<1>1. Init => TypeOK /\ AckInv
  BY IdAssumption, BoundAssumption
  DEF Init, TypeOK, Key, Round, AckInv, CommitInv, KeyNeedsEveryAck
<1>2. TypeOK /\ AckInv /\ [Next]_vars => TypeOK' /\ AckInv'
  BY TypeStep, AckStep
<1>3. AckInv => KeyNeedsEveryAck
  BY DEF AckInv
<1> QED
  BY <1>1, <1>2, <1>3, PTL DEF Spec

-----------------------------------------------------------------------------
\* Between rotations: everyone on one key and nothing pending.
Settled ==
  /\ \A m, n \in Member : key[m] = key[n]
  /\ \A m \in Member : pending[m] = None

\* The propose round: those that answered hold the propose.
Asking(r) ==
  /\ \A m, n \in Member : key[m] = key[n]
  /\ acked[r] = peers[r] \ todo[r]
  /\ \A m \in Member : pending[m] = IF m \in acked[r] THEN r ELSE None

\* The commit round: those that answered are on the new key and keep the
\* coordinator's as grace key, whose window cannot end before the round does.
Committing(r) ==
  /\ acked[r] = peers[r]
  /\ pending[by[r]] = None
  /\ \A m \in peers[r] :
       IF m \in todo[r] THEN pending[m] = r /\ key[m] = key[by[r]]
       ELSE pending[m] = None /\ key[m] = r /\ grace[m] = key[by[r]] /\ r \in during[m]

Underway(r) ==
  /\ peers[r] = Member \ {by[r]} /\ todo[r] \subseteq peers[r]
  /\ sig[r] = key[by[r]]
  /\ \/ phase[r] = "propose" /\ Asking(r)
     \/ phase[r] = "commit" /\ Committing(r)

\* Everyone is up and knows everyone; at most one rotation is under way.
OneAtATime ==
  /\ late = {} /\ up = Member /\ aged = {}
  /\ \A m \in Member : registry[m] = Member \ {m}
  /\ \A r \in Rotation : phase[r] = "new" => acked[r] = {}
  /\ \A r, s \in Open : r = s
  /\ Open = {} => Settled
  /\ \A r \in Open : Underway(r)

OrderlyInv == Orderly => OneAtATime

\* A step that leaves the history orderly starts from an orderly one and is no
\* fault.
LEMMA OrderlyBefore ==
  ASSUME TypeOK, Next, Orderly'
  PROVE  /\ Orderly
         /\ \A r \in Rotation, m \in Member : ~ Lose(r, m) /\ (Trigger(r, m) => Open = {})
         /\ \A m \in Member : ~ Crash(m)
<1>1. faults \in Nat /\ overlapped \in {0, 1} /\ faults' = 0 /\ overlapped' = 0
  BY BoundAssumption DEF TypeOK, Orderly
<1>2. \A kind : ~ Fault(kind)
  BY <1>1 DEF Fault
<1>3. \A r \in Rotation, m \in Member : ~ Lose(r, m)
  BY <1>2 DEF Lose
<1>4. \A m \in Member : ~ Crash(m)
  BY <1>2 DEF Crash
<1>5. ASSUME NEW r \in Rotation, NEW m \in Member, Trigger(r, m) PROVE Open = {} /\ Orderly
  <2>1. overlapped' = (IF Open = {} THEN overlapped ELSE 1) /\ faults' = faults
    BY <1>5 DEF Trigger
  <2> QED
    BY <1>1, <2>1 DEF Orderly
<1>6. UNCHANGED <<faults, overlapped>> => Orderly
  BY <1>1 DEF Orderly
<1>7. \A r \in Rotation : EndPropose(r) \/ EndCommit(r) \/ EndAbort(r) => Orderly
  BY <1>6 DEF EndPropose, EndCommit, EndAbort
<1>8. \A r \in Rotation, m \in Member : Deliver(r, m) \/ Reject(r, m) => Orderly
  BY <1>6 DEF Deliver, Reject
<1>9. \A q \in late : HandleLate(q) \/ DropLate(q) => Orderly
  BY <1>6 DEF HandleLate, DropLate
<1>10. \A m \in Member : Age(m) \/ SweepExpired(m) \/ GraceEnd(m) \/ Restart(m) => Orderly
  BY <1>6 DEF Age, SweepExpired, GraceEnd, Restart
<1>11. \A p, m \in Member : Advertise(p, m) => Orderly
  BY <1>6 DEF Advertise
<1> QED
  BY <1>3, <1>4, <1>5, <1>7, <1>8, <1>9, <1>10, <1>11 DEF Next

LEMMA OrderlyTrigger ==
  ASSUME TypeOK, OneAtATime, NEW r \in Rotation, NEW m \in Member, Trigger(r, m), Open = {}
  PROVE  OneAtATime'
<1> USE DEF providerVars, storeVars, PeerSource
<1>1. /\ registry[m] = Member \ {m} /\ Settled /\ acked[r] = {}
      /\ late = {} /\ up = Member /\ aged = {} /\ phase[r] = "new"
  BY DEF OneAtATime, Trigger
<1>2. /\ by' = [by EXCEPT ![r] = m] /\ peers' = [peers EXCEPT ![r] = registry[m]]
      /\ UNCHANGED <<up, pending, aged, registry, acked, late>>
  BY DEF Trigger
<1>3. CASE registry[m] = {}
  <2>1. phase' = [phase EXCEPT ![r] = "committed"] /\ Rotate(m, r)
    BY <1>3 DEF Trigger
  <2>2. Open' = {}
    BY <2>1 DEF Open, TypeOK, Round
  <2>3. \A n \in Member : n = m
    BY <1>1, <1>3
  <2>4. Settled'
    BY <1>1, <1>2, <2>3 DEF Settled
  <2>5. \A s \in Rotation : phase'[s] = "new" => acked'[s] = {}
    BY <1>2, <2>1 DEF OneAtATime, TypeOK
  <2> QED
    BY <1>1, <1>2, <2>2, <2>4, <2>5 DEF OneAtATime
<1>4. CASE registry[m] # {}
  <2>1. /\ phase' = [phase EXCEPT ![r] = "propose"] /\ todo' = [todo EXCEPT ![r] = registry[m]]
        /\ sig' = [sig EXCEPT ![r] = key[m]] /\ UNCHANGED <<key, grace, during>>
    BY <1>4 DEF Trigger, Broadcast
  <2>2. Open' = {r}
    BY <2>1 DEF Open, TypeOK, Round
  <2>3. /\ peers'[r] = Member \ {m} /\ todo'[r] = Member \ {m} /\ sig'[r] = key[m] /\ by'[r] = m
        /\ phase'[r] = "propose" /\ acked'[r] = {}
    BY <1>1, <1>2, <2>1 DEF TypeOK
  <2>4. Asking(r)'
    BY <1>1, <1>2, <2>1, <2>3 DEF Asking, Settled
  <2>5. Underway(r)'
    BY <2>1, <2>3, <2>4 DEF Underway
  <2>6. \A s \in Rotation : phase'[s] = "new" => acked'[s] = {}
    BY <1>2, <2>1 DEF OneAtATime, TypeOK
  <2> QED
    BY <1>1, <1>2, <2>2, <2>5, <2>6 DEF OneAtATime
<1> QED
  BY <1>3, <1>4

\* What the answer of one peer leaves alone.
LEMMA OrderlyDeliver ==
  ASSUME TypeOK, OneAtATime, NEW r \in Rotation, NEW p \in Member, Deliver(r, p)
  PROVE  OneAtATime'
<1> USE DEF providerVars, storeVars
<1>1. /\ phase[r] \in Round /\ p \in todo[r] /\ Handle(phase[r], p, r, sig[r])
      /\ todo' = [todo EXCEPT ![r] = @ \ {p}]
      /\ acked' = (IF phase[r] = "propose" /\ CanPut(p, r)
                     THEN [acked EXCEPT ![r] = @ \cup {p}] ELSE acked)
      /\ UNCHANGED <<up, registry, late, phase, by, peers, sig>>
  BY DEF Deliver, Answered
<1>2. r \in Open /\ Open' = Open /\ by[r] \in Member /\ r # None
  BY <1>1, IdAssumption DEF Open, TypeOK, Round
<1>3. Underway(r) /\ Open = {r} /\ late = {} /\ up = Member /\ aged = {}
  BY <1>2 DEF OneAtATime
<1>4. /\ peers[r] = Member \ {by[r]} /\ todo[r] \subseteq peers[r] /\ p # by[r] /\ p \in peers[r]
      /\ sig[r] = key[by[r]] /\ todo'[r] = todo[r] \ {p}
  BY <1>1, <1>3 DEF Underway, TypeOK
<1>5. CASE phase[r] = "propose"
  <2>1. Asking(r) /\ pending[p] = None /\ CanPut(p, r)
    BY <1>1, <1>3, <1>5 DEF Underway, Asking, CanPut
  <2>2. HandlePropose(p, r)
    BY <1>1, <1>5 DEF Handle
  <2>3. /\ pending' = [pending EXCEPT ![p] = r] /\ aged' = {} /\ UNCHANGED <<key, grace, during>>
    BY <1>2, <1>3, <2>1, <2>2 DEF HandlePropose
  <2>4. acked' = [acked EXCEPT ![r] = @ \cup {p}] /\ acked'[r] = acked[r] \cup {p}
    BY <1>1, <1>5, <2>1 DEF TypeOK
  <2>5. acked'[r] = peers'[r] \ todo'[r]
    BY <1>1, <1>4, <2>1, <2>4 DEF Asking
  <2>6. \A n \in Member : pending'[n] = IF n \in acked'[r] THEN r ELSE None
    BY <2>1, <2>3, <2>4 DEF Asking, TypeOK
  <2>7. Asking(r)'
    BY <2>1, <2>3, <2>5, <2>6 DEF Asking
  <2>8. Underway(r)'
    BY <1>1, <1>4, <1>5, <2>3, <2>7 DEF Underway
  <2>9. \A s \in Rotation : phase'[s] = "new" => acked'[s] = {}
    BY <1>1, <1>5, <2>4 DEF OneAtATime, TypeOK
  <2> QED
    BY <1>1, <1>2, <1>3, <2>3, <2>8, <2>9 DEF OneAtATime
<1>6. CASE phase[r] = "commit"
  <2>1. Committing(r) /\ pending[p] = r /\ key[p] = key[by[r]]
    BY <1>1, <1>3, <1>4, <1>6 DEF Underway, Committing
  <2>2. Drop(p, r) /\ Rotate(p, r)
    BY <1>1, <1>6, <2>1 DEF Handle, HandleCommit
  <2>3. /\ pending' = [pending EXCEPT ![p] = None] /\ aged' = {}
        /\ key' = [key EXCEPT ![p] = r] /\ grace' = [grace EXCEPT ![p] = key[p]]
        /\ during' = [during EXCEPT ![p] = Open]
    BY <1>3, <2>1, <2>2 DEF Drop, Rotate, TypeOK
  <2>4. acked' = acked
    BY <1>1, <1>6
  <2>5. key'[by[r]] = key[by[r]] /\ pending'[by[r]] = None
    BY <1>2, <1>4, <2>1, <2>3 DEF Committing, TypeOK
  <2>6. ASSUME NEW n \in peers[r]
        PROVE  IF n \in todo'[r] THEN pending'[n] = r /\ key'[n] = key[by[r]]
               ELSE pending'[n] = None /\ key'[n] = r /\ grace'[n] = key[by[r]] /\ r \in during'[n]
    <3>1. n \in Member
      BY <1>4
    <3>2. CASE n = p
      BY <1>2, <1>4, <2>1, <2>3, <3>1, <3>2 DEF TypeOK
    <3>3. CASE n # p
      <4>1. /\ pending'[n] = pending[n] /\ key'[n] = key[n] /\ grace'[n] = grace[n]
            /\ during'[n] = during[n]
        BY <2>3, <3>1, <3>3 DEF TypeOK
      <4> QED
        BY <1>4, <2>1, <3>3, <4>1 DEF Committing
    <3> QED
      BY <3>2, <3>3
  <2>7. Committing(r)'
    BY <1>1, <2>1, <2>4, <2>5, <2>6, ZenonT(60) DEF Committing
  <2>8. Underway(r)'
    BY <1>1, <1>4, <1>6, <2>5, <2>7 DEF Underway
  <2>9. \A s \in Rotation : phase'[s] = "new" => acked'[s] = {}
    BY <1>1, <2>4 DEF OneAtATime
  <2> QED
    BY <1>1, <1>2, <1>3, <2>3, <2>8, <2>9 DEF OneAtATime
<1> QED
  BY <1>3, <1>5, <1>6 DEF Underway

LEMMA OrderlyRounds ==
  ASSUME TypeOK, OneAtATime, NEW r \in Rotation, EndPropose(r) \/ EndCommit(r) \/ EndAbort(r)
  PROVE  OneAtATime'
<1> USE DEF providerVars, storeVars
<1>1. /\ phase[r] \in {"propose", "commit", "abort"} /\ todo[r] = {}
      /\ UNCHANGED <<up, pending, aged, registry, by, peers, acked, late>>
  BY DEF EndPropose, EndCommit, EndAbort
<1>2. r \in Open /\ by[r] \in Member /\ r # None
  BY <1>1, IdAssumption DEF Open, TypeOK, Round
<1>3. Underway(r) /\ Open = {r} /\ late = {} /\ up = Member /\ aged = {}
  BY <1>2 DEF OneAtATime
<1>4. peers[r] = Member \ {by[r]} /\ phase[r] # "abort"
  BY <1>3 DEF Underway
<1>5. CASE phase[r] = "propose"
  <2>1. Asking(r) /\ acked[r] = peers[r] /\ AllAcked(r)
    BY <1>1, <1>3, <1>5 DEF Underway, Asking, AllAcked
  <2>2. EndPropose(r)
    BY <1>5 DEF EndCommit, EndAbort
  <2>3. /\ phase' = [phase EXCEPT ![r] = "commit"] /\ todo' = [todo EXCEPT ![r] = peers[r]]
        /\ sig' = [sig EXCEPT ![r] = key[by[r]]] /\ UNCHANGED <<key, grace, during>>
    BY <2>1, <2>2 DEF EndPropose, Broadcast
  <2>4. /\ phase'[r] = "commit" /\ todo'[r] = peers[r] /\ sig'[r] = key[by[r]]
        /\ Open' = {r}
    <3>1. phase'[r] = "commit" /\ todo'[r] = peers[r] /\ sig'[r] = key[by[r]]
      BY <2>3 DEF TypeOK
    <3>2. Open' = Open
      BY <1>2, <2>3 DEF Open, TypeOK, Round
    <3> QED
      BY <1>3, <3>1, <3>2
  <2>5. pending[by[r]] = None /\ \A n \in peers[r] : pending[n] = r /\ key[n] = key[by[r]]
    BY <1>2, <1>4, <2>1 DEF Asking
  <2>6. Committing(r)'
    BY <1>1, <2>1, <2>3, <2>4, <2>5 DEF Committing
  <2>7. Underway(r)'
    BY <1>1, <1>4, <2>3, <2>4, <2>6 DEF Underway
  <2>8. \A s \in Rotation : phase'[s] = "new" => acked'[s] = {}
    BY <1>1, <2>3 DEF OneAtATime, TypeOK
  <2>9. \A n \in Member : registry'[n] = Member \ {n}
    BY <1>1 DEF OneAtATime
  <2> QED
    BY <1>1, <1>3, <2>4, <2>7, <2>8, <2>9 DEF OneAtATime
<1>6. CASE phase[r] = "commit"
  <2>1. Committing(r)
    BY <1>3, <1>6 DEF Underway
  <2>2. EndCommit(r)
    BY <1>6 DEF EndPropose, EndAbort
  <2>3. /\ phase' = [phase EXCEPT ![r] = "committed"] /\ key' = [key EXCEPT ![by[r]] = r]
    BY <2>2 DEF EndCommit, Rotate
  <2>4. Open' = {}
    <3>1. Open' = Open \ {r}
      BY <2>3 DEF Open, TypeOK, Round
    <3> QED
      BY <1>3, <3>1
  <2>5. \A n \in Member : key'[n] = r /\ pending'[n] = None
    BY <1>1, <1>2, <1>4, <2>1, <2>3 DEF Committing, TypeOK
  <2>6. Settled'
    BY <2>5 DEF Settled
  <2>7. \A s \in Rotation : phase'[s] = "new" => acked'[s] = {}
    BY <1>1, <2>3 DEF OneAtATime, TypeOK
  <2>8. \A n \in Member : registry'[n] = Member \ {n}
    BY <1>1 DEF OneAtATime
  <2> QED
    BY <1>1, <1>3, <2>4, <2>6, <2>7, <2>8 DEF OneAtATime
<1> QED
  BY <1>1, <1>4, <1>5, <1>6

\* A grace window does not end during the rotation that opened it.
LEMMA OrderlyGraceEnd ==
  ASSUME TypeOK, OneAtATime, NEW m \in Member, GraceEnd(m)
  PROVE  OneAtATime'
<1> USE DEF callVars, storeVars
<1>1. /\ during[m] \cap Open = {} /\ grace' = [grace EXCEPT ![m] = None]
      /\ UNCHANGED <<up, key, during, pending, aged, registry, late>>
      /\ UNCHANGED <<phase, by, peers, acked, todo, sig>>
  BY DEF GraceEnd
<1>2. Open' = Open
  BY <1>1 DEF Open, Round
<1>3. ASSUME NEW r \in Open PROVE Underway(r)'
  <2>1. Underway(r) /\ r \notin during[m] /\ peers[r] \subseteq Member
    BY <1>1 DEF OneAtATime, Underway
  <2>2. Asking(r) => Asking(r)'
    BY <1>1 DEF Asking
  <2>3. ASSUME Committing(r) PROVE Committing(r)'
    <3>1. \A n \in peers[r] : n \notin todo[r] => grace'[n] = grace[n]
      BY <1>1, <2>1, <2>3 DEF Committing, TypeOK
    <3> QED
      BY <1>1, <2>3, <3>1 DEF Committing
  <2> QED
    BY <1>1, <2>1, <2>2, <2>3 DEF Underway
<1>4. Settled => Settled'
  BY <1>1 DEF Settled
<1> QED
  BY <1>1, <1>2, <1>3, <1>4 DEF OneAtATime

LEMMA OrderlyStep == TypeOK /\ OrderlyInv /\ [Next]_vars => OrderlyInv'
<1> SUFFICES ASSUME TypeOK, OrderlyInv, [Next]_vars, Orderly' PROVE OneAtATime'
  BY DEF OrderlyInv
<1>1. CASE UNCHANGED vars
  <2>1. /\ UNCHANGED <<up, key, grace, during, pending, aged, registry, late, faults, overlapped>>
        /\ UNCHANGED <<phase, by, peers, acked, todo, sig>>
    BY <1>1 DEF vars, providerVars, storeVars, callVars
  <2>2. OneAtATime
    BY <2>1 DEF OrderlyInv, Orderly
  <2> QED
    BY <2>1, <2>2 DEF OneAtATime, Open, Settled, Underway, Asking, Committing
<1>2. CASE Next
  <2>1. /\ OneAtATime
        /\ \A r \in Rotation, m \in Member : ~ Lose(r, m) /\ (Trigger(r, m) => Open = {})
        /\ \A m \in Member : ~ Crash(m)
    BY <1>2, OrderlyBefore DEF OrderlyInv
  <2>2. late = {} /\ up = Member /\ aged = {} /\ \A m \in Member : registry[m] = Member \ {m}
    BY <2>1 DEF OneAtATime
  <2>3. ASSUME NEW r \in Rotation, NEW p \in Member PROVE ~ Reject(r, p)
    <3> SUFFICES ASSUME phase[r] \in Round, p \in todo[r] PROVE p \in up /\ Verifies(p, sig[r])
      BY DEF Reject
    <3>1. Underway(r)
      BY <2>1 DEF OneAtATime, Open
    <3>2. by[r] \in Member
      BY DEF TypeOK, Round
    <3>3. key[p] = sig[r]
      BY <3>1, <3>2 DEF Underway, Asking, Committing
    <3> QED
      BY <2>2, <3>3 DEF Verifies
  <2>4. ASSUME NEW m \in Member PROVE ~ Age(m) /\ ~ SweepExpired(m) /\ ~ Restart(m)
    <3>1. ~ SweepExpired(m) /\ ~ Restart(m)
      BY <2>2 DEF SweepExpired, Restart
    <3>2. pending[m] # None => pending[m] \in Open
      <4>1. CASE Open = {}
        BY <2>1, <4>1 DEF OneAtATime, Settled
      <4>2. ASSUME NEW r \in Open PROVE pending[m] \in {None, r}
        <5>1. Underway(r)
          BY <2>1 DEF OneAtATime
        <5> QED
          BY <5>1 DEF Underway, Asking, Committing
      <4> QED
        BY <4>1, <4>2
    <3> QED
      BY <3>1, <3>2 DEF Age
  <2>5. \A p, m \in Member : ~ Advertise(p, m)
    BY <2>2 DEF Advertise
  <2>6. \A q \in late : ~ HandleLate(q) /\ ~ DropLate(q)
    BY <2>2
  <2> QED
    BY <1>2, <2>1, <2>3, <2>4, <2>5, <2>6,
       OrderlyTrigger, OrderlyDeliver, OrderlyRounds, OrderlyGraceEnd DEF Next
<1> QED
  BY <1>1, <1>2

\* Without faults and overlaps every rotation finds everyone on one key, moves
\* all peers to its own while they keep the old one as grace key, and ends with
\* everyone on the new one.
THEOREM RotationsInOrder == Spec => []OrderlyInv
<1>1. Init => OrderlyInv
  BY DEF Init, OrderlyInv, OneAtATime, Open, Round, Settled
<1> QED
  BY <1>1, RotateTypeCorrect, OrderlyStep, PTL DEF Spec

\* No request of a coordinator is refused at any moment of an orderly rotation
\* (SimpleKeyProvider.Rotate, authMiddleware).
THEOREM CoordinatorsAreHeard == Spec => []HeardThroughout
<1>1. TypeOK /\ OrderlyInv => HeardThroughout
  <2> SUFFICES ASSUME TypeOK, OrderlyInv, Orderly, NEW r \in Open, NEW m \in Member
               PROVE  Verifies(m, key[by[r]])
    BY DEF HeardThroughout
  <2>1. Underway(r) /\ by[r] \in Member
    BY DEF OrderlyInv, OneAtATime, Open, TypeOK, Round
  <2> QED
    BY <2>1 DEF Underway, Asking, Committing, Verifies
<1> QED
  BY <1>1, RotateTypeCorrect, RotationsInOrder, PTL

\* Rotations that follow one another leave all members with one key
\* (Coordinator.Rotate, handleCommit).
THEOREM RotationsConverge == Spec => []SharedWhenOrderly
<1>1. TypeOK /\ OrderlyInv => SharedWhenOrderly
  BY DEF OrderlyInv, OneAtATime, Settled, SharedWhenOrderly, SharedWhenQuiet, Quiet, TypeOK
<1> QED
  BY <1>1, RotateTypeCorrect, RotationsInOrder, PTL
=============================================================================
