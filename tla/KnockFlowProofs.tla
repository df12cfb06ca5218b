-------------------------- MODULE KnockFlowProofs ---------------------------
(***************************************************************************)
(* Proofs about KnockFlow for any set of joiners and Clans, any number of  *)
(* commands and any number of restarts and moves of the receiver.          *)
(***************************************************************************)
EXTENDS KnockFlow, TLAPS

\* A knock id is used once: of a command that was not started the receiver has
\* no knock and the network no request, and a request under way is the only
\* one of its knock, which the receiver has not stored yet.
FreshKnocks ==
  /\ \A id \in KnockID : id[2] > n[id[1]] => /\ knock[id].state = "none"
                                             /\ \A r \in requests : r.id # id
  /\ \A r \in requests : knock[r.id].state = "none"
  /\ \A r, s \in requests : r.id = s.id => r = s

\* What the receiver stored is for a Clan, and an accept under way is of a knock
\* that Consume has marked.
StoredKnocks ==
  /\ \A id \in KnockID : knock[id].state # "none" => knock[id].clan \in Clan
  /\ \A id \in queue : knock[id].state = "accepted"
  /\ mu.stage # "free" => mu.id \in KnockID

\* A welcome is sealed under the key of an accepted knock.
Sealed(w) ==
  \E id \in KnockID : knock[id].state = "accepted" /\ w.key = Bundle(id, knock[id].clan)

\* Every welcome on the network or in a listener's channel is sealed like that.
SealedWelcomes ==
  /\ \A p \in posts : p.body \in Welcome => Sealed(p.body)
  /\ \A j \in Joiner : slot[j] \in Welcome => Sealed(slot[j])

\* sasConfirmed and the wait for the delivery follow the user's yes in the same
\* command; a delivery that was taken, too.
Confirmations ==
  /\ \A j \in Joiner : confirmed[j] \/ pc[j] = "waiting" => n[j] \in said[j]
  /\ mu.stage = "ok" => said[mu.id[1]] # {}

\* A running command has a number, and its machine is in no Clan.
Commands == \A j \in Joiner : Running(j) => n[j] \in Cmd /\ file[j] = None

KnockInv ==
  /\ KnockTypeOK /\ FreshKnocks /\ StoredKnocks /\ SealedWelcomes /\ Confirmations
  /\ Commands /\ JoinsOnOwnWelcome /\ AdmittedConfirmed

-----------------------------------------------------------------------------
\* Records of different shape differ: a welcome, a denial and the empty channel
\* are told apart.
LEMMA Deliveries ==
  /\ Denied \notin Welcome /\ Nothing \notin Welcome /\ Denied # Nothing
  /\ Denied \in Delivery /\ Welcome \subseteq Delivery
<1>1. \A w \in Welcome : DOMAIN w = {"key", "clan"}
  BY DEF Welcome
<1>2. DOMAIN Denied = {"denied"} /\ DOMAIN Nothing = {"empty"}
  BY DEF Denied, Nothing
<1>3. Denied \in Denial
  BY DEF Denied, Denial
<1> QED
  BY <1>1, <1>2, <1>3 DEF Delivery

\* What a step does to a knock: the receiver stores one that was requested, or
\* Consume or a restart takes a pending one out.
KnockStep(id) ==
  \/ knock'[id] = knock[id]
  \/ \E r \in requests : /\ r.id = id /\ knock'[id] = [state |-> "pending", clan |-> r.clan]
                         /\ requests' = requests \ {r}
  \/ /\ knock[id].state = "pending" /\ knock'[id].clan = knock[id].clan
     /\ knock'[id].state \in {"accepted", "denied", "expired", "lost"}

\* The types are inductive together with what is known of the store.
LEMMA KnockTypes ==
  KnockTypeOK /\ StoredKnocks /\ Commands /\ [Next]_vars => KnockTypeOK'
<1> SUFFICES ASSUME KnockTypeOK, StoredKnocks, Commands, [Next]_vars PROVE KnockTypeOK'
  OBVIOUS
<1> USE KnockBounds
<1>1. ASSUME NEW j \in Joiner, Fail(j) \/ Response(j) PROVE KnockTypeOK'
  BY <1>1 DEF KnockTypeOK, Fail, Response, receiverVars
<1>2. ASSUME NEW j \in Joiner, Confirm(j) PROVE KnockTypeOK'
  <2>1. said \in [Joiner -> SUBSET Cmd] /\ said[j] \cup {n[j]} \in SUBSET Cmd
    BY <1>2 DEF KnockTypeOK, Confirm, Commands, Running
  <2>2. said' \in [Joiner -> SUBSET Cmd]
    BY <1>2, <2>1 DEF Confirm
  <2> QED
    BY <1>2, <2>2 DEF KnockTypeOK, Confirm, receiverVars
<1>3. ASSUME NEW j \in Joiner, SaveWelcome(j) PROVE KnockTypeOK'
  <2>1. slot[j].clan \in Clan
    BY <1>3 DEF SaveWelcome, Opens, Welcome
  <2> QED
    BY <1>3, <2>1 DEF KnockTypeOK, SaveWelcome, receiverVars
<1>4. ASSUME NEW j \in Joiner, Leave(j) PROVE KnockTypeOK'
  BY <1>4 DEF KnockTypeOK, Leave, receiverVars
<1>5. ASSUME NEW j \in Joiner, NEW c \in Clan, cmdKnock(j, c) PROVE KnockTypeOK'
  <2>1. n[j] + 1 \in Cmd /\ n'[j] = n[j] + 1 /\ n' \in [Joiner -> 0..MaxCmds]
    <3>1. n \in [Joiner -> 0..MaxCmds] /\ n[j] \in 0..MaxCmds /\ n[j] < MaxCmds
      BY <1>5 DEF KnockTypeOK, cmdKnock
    <3>2. n[j] + 1 \in Cmd /\ n[j] + 1 \in 0..MaxCmds
      BY <3>1 DEF Cmd
    <3> QED
      BY <1>5, <3>1, <3>2 DEF cmdKnock
  <2>2. [id |-> <<j, n'[j]>>, clan |-> c] \in [id : KnockID, clan : Clan]
    BY <2>1 DEF KnockID
  <2>3. requests' \subseteq [id : KnockID, clan : Clan]
    BY <1>5, <2>2 DEF KnockTypeOK, cmdKnock
  <2> QED
    BY <1>5, <2>1, <2>3 DEF KnockTypeOK, cmdKnock, receiverVars
<1>6. ASSUME NEW p \in posts, deliver(p) \/ Undelivered(p) PROVE KnockTypeOK'
  <2>1. p.id \in KnockID /\ p.id[1] \in Joiner /\ p.body \in Delivery
    BY DEF KnockTypeOK, KnockID
  <2>2. slot' \in [Joiner -> Delivery \cup {Nothing}]
    <3>1. slot \in [Joiner -> Delivery \cup {Nothing}]
      BY DEF KnockTypeOK
    <3>2. CASE Undelivered(p)
      BY <3>1, <3>2 DEF Undelivered, joinerVars
    <3>3. CASE deliver(p)
      <4>1. slot' = slot \/ slot' = [slot EXCEPT ![p.id[1]] = p.body]
        BY <3>3 DEF deliver
      <4> QED
        BY <2>1, <3>1, <4>1
    <3> QED
      BY <1>6, <3>2, <3>3
  <2>3. mu' \in [stage : {"free", "posting", "ok", "failed"}, id : KnockID \cup {None},
                 clan : Clan \cup {None}]
    BY <1>6 DEF KnockTypeOK, deliver, Undelivered, Heard
  <2>4. posts' \subseteq [id : KnockID, body : Delivery]
    BY <1>6 DEF KnockTypeOK, deliver, Undelivered
  <2> QED
    BY <1>6, <2>2, <2>3, <2>4 DEF KnockTypeOK, deliver, Undelivered, joinerVars
<1>7. ASSUME NEW r \in requests, Knock(r) \/ KnockRefused(r) PROVE KnockTypeOK'
  <2>1. r.id \in KnockID /\ r.clan \in Clan
    BY DEF KnockTypeOK
  <2>2. [state |-> "pending", clan |-> r.clan] \in
          [state : {"none", "pending", "accepted", "denied", "expired", "lost"}, clan : Clan \cup {None}]
    BY <2>1
  <2> QED
    BY <1>7, <2>1, <2>2 DEF KnockTypeOK, Knock, KnockRefused, joinerVars, receiverVars
<1>8. ASSUME NEW id \in KnockID, NEW st \in {"accepted", "denied", "expired"}, Consume(id, st)
      PROVE  knock' \in [KnockID -> [state : {"none", "pending", "accepted", "denied", "expired", "lost"},
                                     clan : Clan \cup {None}]]
  BY <1>8 DEF KnockTypeOK, Consume
<1>9. ASSUME NEW id \in KnockID, cmdKnockAccept(id) \/ Expire(id) PROVE KnockTypeOK'
  BY <1>8, <1>9 DEF KnockTypeOK, cmdKnockAccept, Expire, joinerVars
<1>10. ASSUME NEW id \in KnockID, cmdKnockDeny(id) PROVE KnockTypeOK'
  <2>1. [id |-> id, body |-> Denied] \in [id : KnockID, body : Delivery]
    BY Deliveries
  <2>2. posts' \subseteq [id : KnockID, body : Delivery]
    BY <1>10, <2>1 DEF KnockTypeOK, cmdKnockDeny
  <2> QED
    BY <1>8, <1>10, <2>2 DEF KnockTypeOK, cmdKnockDeny, joinerVars
<1>11. ASSUME NEW id \in KnockID, Seal(id) PROVE KnockTypeOK'
  <2>1. CASE clan = None
    BY <1>11, <2>1 DEF KnockTypeOK, Seal, joinerVars
  <2>2. CASE clan # None
    <3>1. clan \in Clan /\ knock[id].clan \in Clan
      BY <1>11, <2>2 DEF KnockTypeOK, Seal, StoredKnocks
    <3>2. SealKnockWelcome(Bundle(id, knock[id].clan), clan) \in Welcome
      BY <3>1 DEF SealKnockWelcome, Bundle, Welcome
    <3>3. [id |-> id, body |-> SealKnockWelcome(Bundle(id, knock[id].clan), clan)]
            \in [id : KnockID, body : Delivery]
      BY <3>2, Deliveries
    <3>4. posts' \subseteq [id : KnockID, body : Delivery]
      BY <1>11, <2>2, <3>3 DEF KnockTypeOK, Seal
    <3>5. mu' \in [stage : {"free", "posting", "ok", "failed"}, id : KnockID \cup {None},
                   clan : Clan \cup {None}]
      BY <1>11, <2>2, <3>1 DEF Seal
    <3> QED
      BY <1>11, <3>4, <3>5 DEF KnockTypeOK, Seal, joinerVars
  <2> QED
    BY <2>1, <2>2
<1>12. ASSUME PostTimeout \/ AcceptReturns PROVE KnockTypeOK'
  <2>1. mu' \in [stage : {"free", "posting", "ok", "failed"}, id : KnockID \cup {None},
                 clan : Clan \cup {None}]
    BY <1>12 DEF KnockTypeOK, PostTimeout, AcceptReturns, Free
  <2>2. mu.stage # "free" => mu.id[1] \in Joiner
    BY DEF StoredKnocks, KnockID
  <2>3. roster' \subseteq Joiner
    BY <1>12, <2>2 DEF KnockTypeOK, PostTimeout, AcceptReturns
  <2> QED
    BY <1>12, <2>1, <2>3 DEF KnockTypeOK, PostTimeout, AcceptReturns, joinerVars
<1>13. ASSUME Restart PROVE KnockTypeOK'
  BY <1>13 DEF KnockTypeOK, Restart, Free, joinerVars
<1>14. ASSUME NEW c \in Clan \cup {None}, Move(c) PROVE KnockTypeOK'
  BY <1>14 DEF KnockTypeOK, Move, joinerVars
<1>15. CASE UNCHANGED vars
  BY <1>15 DEF KnockTypeOK, vars, joinerVars, receiverVars
<1> QED
  BY <1>1, <1>2, <1>3, <1>4, <1>5, <1>6, <1>7, <1>9, <1>10, <1>11, <1>12, <1>13, <1>14, <1>15
     DEF Next, JoinerStep, ReceiverStep, NoResponse, NotConfirmed, DeliveryTimeout, Rejects

\* Every step treats every knock like that, and only cmdKnock makes a request.
LEMMA KnockSteps ==
  ASSUME KnockTypeOK, [Next]_vars, NEW id \in KnockID
  PROVE  KnockStep(id)
<1>1. ASSUME NEW r \in requests, Knock(r) PROVE KnockStep(id)
  BY <1>1 DEF KnockTypeOK, Knock, KnockStep
<1>2. ASSUME NEW i \in KnockID, NEW st \in {"accepted", "denied", "expired"}, Consume(i, st)
      PROVE  KnockStep(id)
  BY <1>2 DEF KnockTypeOK, Consume, KnockStep
<1>3. ASSUME NEW i \in KnockID, cmdKnockAccept(i) \/ cmdKnockDeny(i) \/ Expire(i)
      PROVE  KnockStep(id)
  BY <1>2, <1>3 DEF cmdKnockAccept, cmdKnockDeny, Expire
<1>4. ASSUME Restart PROVE KnockStep(id)
  BY <1>4 DEF KnockTypeOK, Restart, KnockStep
<1>5. CASE UNCHANGED knock
  BY <1>5 DEF KnockStep
<1> QED
  BY <1>1, <1>3, <1>4, <1>5
     DEF Next, JoinerStep, ReceiverStep, NoResponse, Response, NotConfirmed, Confirm,
         DeliveryTimeout, Rejects, Fail, SaveWelcome, Leave, cmdKnock, deliver, Undelivered,
         KnockRefused, Seal, PostTimeout, AcceptReturns, Move, vars, receiverVars

\* A request comes from a new command and goes for good.
LEMMA RequestSteps ==
  ASSUME KnockTypeOK, [Next]_vars
  PROVE  \/ requests' \subseteq requests /\ n' = n
         \/ \E j \in Joiner, c \in Clan :
              /\ n[j] < MaxCmds /\ n' = [n EXCEPT ![j] = @ + 1] /\ UNCHANGED knock
              /\ requests' = requests \cup {[id |-> <<j, n[j] + 1>>, clan |-> c]}
<1>1. ASSUME NEW j \in Joiner, NEW c \in Clan, cmdKnock(j, c)
      PROVE  /\ n[j] < MaxCmds /\ n' = [n EXCEPT ![j] = @ + 1] /\ UNCHANGED knock
             /\ requests' = requests \cup {[id |-> <<j, n[j] + 1>>, clan |-> c]}
  BY <1>1 DEF KnockTypeOK, cmdKnock, receiverVars
<1>2. CASE requests' \subseteq requests /\ n' = n
  BY <1>2
<1> QED
  BY <1>1, <1>2
     DEF Next, JoinerStep, ReceiverStep, NoResponse, Response, NotConfirmed, Confirm,
         DeliveryTimeout, Rejects, Fail, SaveWelcome, Leave, deliver, Undelivered, Knock,
         KnockRefused, cmdKnockAccept, Seal, PostTimeout, AcceptReturns, cmdKnockDeny, Expire,
         Restart, Move, vars, joinerVars

LEMMA FreshStep ==
  KnockTypeOK /\ FreshKnocks /\ [Next]_vars => FreshKnocks'
<1> SUFFICES ASSUME KnockTypeOK, FreshKnocks, [Next]_vars PROVE FreshKnocks'
  OBVIOUS
<1>1. CASE requests' \subseteq requests /\ n' = n
  <2>1. ASSUME NEW id \in KnockID, id[2] > n'[id[1]]
        PROVE  knock'[id].state = "none" /\ \A r \in requests' : r.id # id
    <3>1. knock[id].state = "none" /\ \A r \in requests : r.id # id
      BY <1>1, <2>1 DEF FreshKnocks
    <3>2. KnockStep(id)
      BY KnockSteps
    <3> QED
      BY <1>1, <3>1, <3>2 DEF KnockStep
  <2>2. ASSUME NEW r \in requests' PROVE knock'[r.id].state = "none"
    <3>1. r \in requests /\ r.id \in KnockID
      BY <1>1 DEF KnockTypeOK
    <3>2. knock[r.id].state = "none" /\ \A s \in requests : s.id = r.id => s = r
      BY <3>1 DEF FreshKnocks
    <3>3. KnockStep(r.id)
      BY <3>1, KnockSteps
    <3> QED
      BY <3>1, <3>2, <3>3 DEF KnockStep
  <2> QED
    BY <1>1, <2>1, <2>2 DEF FreshKnocks
<1>2. ASSUME NEW j \in Joiner, NEW c \in Clan,
             n[j] < MaxCmds, n' = [n EXCEPT ![j] = @ + 1], UNCHANGED knock,
             requests' = requests \cup {[id |-> <<j, n[j] + 1>>, clan |-> c]}
      PROVE  FreshKnocks'
  <2>1. n[j] \in Nat /\ <<j, n[j] + 1>> \in KnockID
    BY <1>2, KnockBounds DEF KnockTypeOK, KnockID, Cmd
  <2>2. knock[<<j, n[j] + 1>>].state = "none" /\ \A r \in requests : r.id # <<j, n[j] + 1>>
    BY <2>1 DEF FreshKnocks
  <2>3. ASSUME NEW id \in KnockID, id[2] > n'[id[1]]
        PROVE  knock'[id].state = "none" /\ \A r \in requests' : r.id # id
    <3>1. id[1] \in Joiner /\ id[2] \in Nat /\ id = <<id[1], id[2]>> /\ n[id[1]] \in Nat
      BY KnockBounds DEF KnockTypeOK, KnockID, Cmd
    <3>2. id[2] > n[id[1]] /\ id # <<j, n[j] + 1>>
      BY <1>2, <2>1, <2>3, <3>1 DEF KnockTypeOK
    <3> QED
      BY <1>2, <3>2 DEF FreshKnocks
  <2> QED
    BY <1>2, <2>2, <2>3 DEF FreshKnocks
<1> QED
  BY <1>1, <1>2, RequestSteps

\* What an accept hears of its post changes only how far it is, and only while
\* it waits for this very knock's post.
LEMMA HeardIs ==
  ASSUME KnockTypeOK, NEW p, NEW ok \in BOOLEAN
  PROVE  \/ Heard(p, ok) = mu
         \/ /\ mu.stage = "posting" /\ mu.id = p.id
            /\ Heard(p, ok).id = mu.id /\ Heard(p, ok).clan = mu.clan
            /\ Heard(p, ok).stage = IF ok THEN "ok" ELSE "failed"
<1>1. mu \in [stage : {"free", "posting", "ok", "failed"}, id : KnockID \cup {None},
              clan : Clan \cup {None}]
  BY DEF KnockTypeOK
<1> QED
  BY <1>1 DEF Heard

LEMMA StoredStep ==
  KnockTypeOK /\ FreshKnocks /\ StoredKnocks /\ [Next]_vars => StoredKnocks'
<1> SUFFICES ASSUME KnockTypeOK, FreshKnocks, StoredKnocks, [Next]_vars PROVE StoredKnocks'
  OBVIOUS
<1>1. ASSUME NEW id \in KnockID, knock'[id].state # "none" PROVE knock'[id].clan \in Clan
  <2>1. KnockStep(id)
    BY KnockSteps
  <2>2. CASE knock'[id] = knock[id]
    BY <1>1, <2>2 DEF StoredKnocks
  <2>3. CASE \E r \in requests : knock'[id] = [state |-> "pending", clan |-> r.clan]
    BY <2>3 DEF KnockTypeOK
  <2>4. CASE knock[id].state = "pending" /\ knock'[id].clan = knock[id].clan
    BY <2>4 DEF StoredKnocks
  <2> QED
    BY <2>1, <2>2, <2>3, <2>4 DEF KnockStep
<1>2. ASSUME NEW id \in KnockID, knock[id].state = "accepted" PROVE knock'[id] = knock[id]
  <2>1. KnockStep(id)
    BY KnockSteps
  <2> QED
    BY <1>2, <2>1 DEF KnockStep, FreshKnocks
<1>3. ASSUME NEW id \in queue' PROVE knock'[id].state = "accepted"
  <2>1. CASE id \in queue
    BY <1>2, <2>1 DEF StoredKnocks, KnockTypeOK
  <2>2. CASE id \notin queue
    <3>1. id \in KnockID /\ cmdKnockAccept(id)
      BY <1>3, <2>2
         DEF Next, JoinerStep, ReceiverStep, NoResponse, Response, NotConfirmed, Confirm,
             DeliveryTimeout, Rejects, Fail, SaveWelcome, Leave, cmdKnock, deliver, Undelivered,
             Knock, KnockRefused, cmdKnockAccept, Seal, PostTimeout, AcceptReturns, cmdKnockDeny,
             Expire, Restart, Move, vars, joinerVars, receiverVars
    <3> QED
      BY <3>1 DEF cmdKnockAccept, Consume, KnockTypeOK
  <2> QED
    BY <2>1, <2>2
<1>4. mu'.stage # "free" => mu'.id \in KnockID
  <2>1. CASE mu' = mu \/ mu' = Free
    BY <2>1 DEF StoredKnocks, Free
  <2>2. ASSUME NEW id \in KnockID, Seal(id) PROVE mu'.stage # "free" => mu'.id \in KnockID
    BY <2>2 DEF Seal, StoredKnocks
  <2>3. ASSUME NEW p \in posts, deliver(p) \/ Undelivered(p)
        PROVE  mu'.stage # "free" => mu'.id \in KnockID
    <3>1. \E ok \in BOOLEAN : mu' \in {mu, Heard(p, ok)}
      BY <2>3 DEF deliver, Undelivered
    <3> QED
      BY <3>1, HeardIs DEF StoredKnocks
  <2>4. ASSUME PostTimeout PROVE mu'.stage # "free" => mu'.id \in KnockID
    BY <2>4 DEF PostTimeout, StoredKnocks, KnockTypeOK
  <2> QED
    BY <2>1, <2>2, <2>3, <2>4
       DEF Next, JoinerStep, ReceiverStep, NoResponse, Response, NotConfirmed, Confirm,
           DeliveryTimeout, Rejects, Fail, SaveWelcome, Leave, cmdKnock, Knock, KnockRefused,
           cmdKnockAccept, AcceptReturns, cmdKnockDeny, Expire, Restart, Move, vars, receiverVars
<1> QED
  BY <1>1, <1>3, <1>4 DEF StoredKnocks

\* An accepted knock stays as it is: no later request, decision or restart
\* touches it.
LEMMA AcceptedStays ==
  ASSUME KnockTypeOK, FreshKnocks, [Next]_vars, NEW id \in KnockID, knock[id].state = "accepted"
  PROVE  knock'[id] = knock[id]
<1>1. KnockStep(id)
  BY KnockSteps
<1> QED
  BY <1>1 DEF KnockStep, FreshKnocks

LEMMA SealedStep ==
  KnockTypeOK /\ FreshKnocks /\ StoredKnocks /\ SealedWelcomes /\ [Next]_vars => SealedWelcomes'
<1> SUFFICES ASSUME KnockTypeOK, FreshKnocks, StoredKnocks, SealedWelcomes, [Next]_vars
             PROVE  SealedWelcomes'
  OBVIOUS
<1> DEFINE SealedNext(w) ==
      \E id \in KnockID : knock'[id].state = "accepted" /\ w.key = Bundle(id, knock'[id].clan)
<1>1. ASSUME NEW w, Sealed(w) PROVE SealedNext(w)
  <2>1. PICK id \in KnockID : knock[id].state = "accepted" /\ w.key = Bundle(id, knock[id].clan)
    BY <1>1 DEF Sealed
  <2>2. knock'[id] = knock[id]
    BY <2>1, AcceptedStays
  <2> QED
    BY <2>1, <2>2
<1>2. ASSUME NEW p \in posts', p.body \in Welcome PROVE SealedNext(p.body)
  <2>1. CASE p \in posts
    BY <1>1, <1>2, <2>1 DEF SealedWelcomes
  <2>2. CASE p \notin posts
    <3>1. \E id \in KnockID : Seal(id) \/ cmdKnockDeny(id)
      BY <1>2, <2>2
         DEF Next, JoinerStep, ReceiverStep, NoResponse, Response, NotConfirmed, Confirm,
             DeliveryTimeout, Rejects, Fail, SaveWelcome, Leave, cmdKnock, deliver, Undelivered,
             Knock, KnockRefused, cmdKnockAccept, PostTimeout, AcceptReturns,
             Expire, Restart, Move, vars
    <3>2. PICK id \in KnockID : Seal(id)
      <4>1. ASSUME NEW id \in KnockID, cmdKnockDeny(id) PROVE p.body = Denied
        BY <1>2, <2>2, <4>1 DEF cmdKnockDeny
      <4> QED
        BY <1>2, <3>1, <4>1, Deliveries
    <3>3. /\ p.body = SealKnockWelcome(Bundle(id, knock[id].clan), clan)
          /\ knock[id].state = "accepted"
      BY <2>2, <3>2 DEF Seal, StoredKnocks
    <3>4. Sealed(p.body)
      BY <3>3 DEF Sealed, SealKnockWelcome
    <3> QED
      BY <1>1, <3>4
  <2> QED
    BY <2>1, <2>2
<1>3. ASSUME NEW j \in Joiner, slot'[j] \in Welcome PROVE SealedNext(slot'[j])
  <2>1. CASE slot'[j] = slot[j]
    BY <1>1, <1>3, <2>1 DEF SealedWelcomes
  <2>2. CASE \E p \in posts : slot'[j] = p.body
    BY <1>1, <1>3, <2>2 DEF SealedWelcomes
  <2>3. CASE slot'[j] = Nothing
    BY <1>3, <2>3, Deliveries
  <2>4. ASSUME NEW i \in Joiner, NEW c \in Clan, cmdKnock(i, c)
        PROVE  slot'[j] \in {slot[j], Nothing}
    BY <2>4 DEF cmdKnock, KnockTypeOK
  <2>5. ASSUME NEW p \in posts, deliver(p) PROVE slot'[j] \in {slot[j], p.body}
    BY <2>5 DEF deliver, KnockTypeOK
  <2>6. \/ UNCHANGED slot
        \/ \E i \in Joiner, c \in Clan : cmdKnock(i, c)
        \/ \E p \in posts : deliver(p)
    BY DEF Next, JoinerStep, ReceiverStep, NoResponse, Response, NotConfirmed, Confirm,
           DeliveryTimeout, Rejects, Fail, SaveWelcome, Leave, Undelivered, Knock, KnockRefused,
           cmdKnockAccept, Seal, PostTimeout, AcceptReturns, cmdKnockDeny, Expire, Restart, Move,
           vars, joinerVars
  <2> QED
    BY <2>1, <2>2, <2>3, <2>4, <2>5, <2>6
<1> QED
  BY <1>2, <1>3 DEF SealedWelcomes, Sealed

\* The receiver's steps and the way of a delivery leave the commands alone.
LEMMA JoinerSteps ==
  ASSUME [Next]_vars
  PROVE  \/ \E j \in Joiner : JoinerStep(j)
         \/ UNCHANGED <<file, n, pc, asked, confirmed, said>>
BY DEF Next, ReceiverStep, deliver, Undelivered, Knock, KnockRefused, cmdKnockAccept, Seal,
       PostTimeout, AcceptReturns, cmdKnockDeny, Expire, Restart, Move, vars, joinerVars

\* A step of the joiner leaves the receiver alone.
LEMMA JoinerFrame ==
  ASSUME NEW j \in Joiner, JoinerStep(j)
  PROVE  UNCHANGED <<posts, receiverVars>>
BY DEF JoinerStep, NoResponse, Response, NotConfirmed, Confirm, DeliveryTimeout, Rejects, Fail,
       SaveWelcome, Leave, cmdKnock

\* What one joiner's step does to its command: it starts one, moves it on, or
\* ends it; other joiners' commands stay.
LEMMA CommandStep ==
  ASSUME KnockTypeOK, Commands, Confirmations, NEW j \in Joiner, JoinerStep(j)
  PROVE  /\ \A i \in Joiner : i # j =>
              /\ file'[i] = file[i] /\ n'[i] = n[i] /\ pc'[i] = pc[i] /\ asked'[i] = asked[i]
              /\ confirmed'[i] = confirmed[i] /\ said'[i] = said[i]
         /\ said[j] \subseteq said'[j]
         /\ confirmed'[j] \/ pc'[j] = "waiting" => n'[j] \in said'[j]
         /\ Running(j)' => n'[j] \in Cmd /\ file'[j] = None
<1>1. ASSUME NEW c \in Clan, cmdKnock(j, c)
      PROVE  /\ n'[j] \in Cmd /\ pc'[j] = "knocking" /\ ~ confirmed'[j] /\ file[j] = None
             /\ UNCHANGED <<file, said>>
             /\ \A i \in Joiner : i # j =>
                  /\ n'[i] = n[i] /\ pc'[i] = pc[i] /\ asked'[i] = asked[i]
                  /\ confirmed'[i] = confirmed[i]
  <2>1. n[j] \in 0..MaxCmds /\ n[j] < MaxCmds /\ n'[j] = n[j] + 1
    BY <1>1 DEF cmdKnock, KnockTypeOK
  <2>2. n'[j] \in Cmd
    BY <2>1, KnockBounds DEF Cmd
  <2> QED
    BY <1>1, <2>2 DEF cmdKnock, KnockTypeOK
<1>2. CASE \E c \in Clan : cmdKnock(j, c)
  BY <1>1, <1>2
<1>3. CASE Confirm(j)
  BY <1>3 DEF Confirm, KnockTypeOK, Commands, Running
<1>4. CASE Response(j)
  BY <1>4 DEF Response, KnockTypeOK, Commands, Confirmations, Running
<1>5. CASE Fail(j)
  BY <1>5 DEF Fail, KnockTypeOK, Confirmations, Running
<1>6. CASE SaveWelcome(j)
  BY <1>6 DEF SaveWelcome, KnockTypeOK, Confirmations, Running
<1>7. CASE Leave(j)
  BY <1>7 DEF Leave, KnockTypeOK, Confirmations, Commands, Running
<1> QED
  BY <1>2, <1>3, <1>4, <1>5, <1>6, <1>7
     DEF JoinerStep, NoResponse, NotConfirmed, DeliveryTimeout, Rejects

LEMMA CommandsStep ==
  KnockTypeOK /\ Commands /\ Confirmations /\ [Next]_vars => Commands'
<1> SUFFICES ASSUME KnockTypeOK, Commands, Confirmations, [Next]_vars PROVE Commands'
  OBVIOUS
<1>1. CASE UNCHANGED <<file, n, pc, asked, confirmed, said>>
  BY <1>1 DEF Commands, Running
<1>2. ASSUME NEW j \in Joiner, JoinerStep(j) PROVE Commands'
  BY <1>2, CommandStep DEF Commands, Running
<1> QED
  BY <1>1, <1>2, JoinerSteps

LEMMA ConfirmationsStep ==
  KnockTypeOK /\ StoredKnocks /\ Commands /\ Confirmations /\ [Next]_vars => Confirmations'
<1> SUFFICES ASSUME KnockTypeOK, StoredKnocks, Commands, Confirmations, [Next]_vars
             PROVE  Confirmations'
  OBVIOUS
<1>1. ASSUME NEW j \in Joiner, JoinerStep(j) PROVE Confirmations'
  <2>1. \A i \in Joiner : confirmed'[i] \/ pc'[i] = "waiting" => n'[i] \in said'[i]
    BY <1>1, CommandStep DEF Confirmations
  <2>2. mu' = mu
    BY <1>1, JoinerFrame DEF receiverVars
  <2>3. mu.stage = "ok" => mu.id[1] \in Joiner
    BY DEF StoredKnocks, KnockID
  <2>4. \A i \in Joiner : said[i] \subseteq said'[i]
    BY <1>1, CommandStep
  <2> QED
    BY <2>1, <2>2, <2>3, <2>4 DEF Confirmations
<1>2. ASSUME UNCHANGED <<file, n, pc, asked, confirmed, said>>,
             mu'.stage = "ok" => said[mu'.id[1]] # {}
      PROVE  Confirmations'
  BY <1>2 DEF Confirmations
<1>3. ASSUME NEW p \in posts, deliver(p) PROVE Confirmations'
  <2>1. p.id[1] \in Joiner
    BY DEF KnockTypeOK, KnockID
  <2>2. status(p.id[1]) = 200 => said[p.id[1]] # {}
    BY <2>1 DEF status, Confirmations
  <2>3. PICK ok \in BOOLEAN : mu' \in {mu, Heard(p, ok)} /\ (ok => status(p.id[1]) = 200)
    <3>1. CASE status(p.id[1]) = 200
      BY <1>3, <3>1 DEF deliver, Heard
    <3>2. CASE status(p.id[1]) # 200
      BY <1>3, <3>2 DEF deliver, Heard
    <3> QED
      BY <3>1, <3>2
  <2>4. mu'.stage = "ok" => said[mu'.id[1]] # {}
    <3>1. CASE mu' = mu
      BY <3>1 DEF Confirmations
    <3>2. CASE mu' # mu
      <4>1. mu.id = p.id /\ mu'.id = mu.id /\ mu'.stage = IF ok THEN "ok" ELSE "failed"
        BY <2>3, <3>2, HeardIs
      <4> QED
        BY <2>2, <2>3, <4>1
    <3> QED
      BY <3>1, <3>2
  <2> QED
    BY <1>2, <1>3, <2>4 DEF deliver
<1>4. ASSUME NEW p \in posts, Undelivered(p) PROVE Confirmations'
  <2>1. mu'.stage = "ok" => said[mu'.id[1]] # {}
    BY <1>4, HeardIs DEF Undelivered, Confirmations
  <2> QED
    BY <1>2, <1>4, <2>1 DEF Undelivered, joinerVars
<1>5. ASSUME ReceiverStep PROVE Confirmations'
  <2>1. UNCHANGED joinerVars
    BY <1>5 DEF ReceiverStep, Knock, KnockRefused, cmdKnockAccept, Seal, PostTimeout,
                AcceptReturns, cmdKnockDeny, Expire, Restart, Move
  <2>2. ASSUME PostTimeout PROVE mu'.stage = "failed"
    BY <2>2 DEF PostTimeout, KnockTypeOK
  <2>a. ASSUME NEW id \in KnockID, Seal(id) PROVE mu' = mu \/ mu'.stage = "posting"
    BY <2>a DEF Seal
  <2>b. ASSUME Restart \/ AcceptReturns PROVE mu'.stage = "free"
    BY <2>b DEF Restart, AcceptReturns, Free
  <2>3. mu' = mu \/ mu'.stage # "ok"
    BY <1>5, <2>2, <2>a, <2>b
       DEF ReceiverStep, Knock, KnockRefused, cmdKnockAccept, cmdKnockDeny, Expire, Move,
           receiverVars
  <2> QED
    BY <1>2, <2>1, <2>3 DEF joinerVars, Confirmations
<1>6. CASE UNCHANGED vars
  BY <1>2, <1>6 DEF vars, joinerVars, receiverVars, Confirmations
<1> QED
  BY <1>1, <1>3, <1>4, <1>5, <1>6 DEF Next

\* SaveWelcome is the only way into a Clan, and it needs the whole chain: the
\* key in the channel is that of this command's knock and of the Clan it asked
\* for, so the sealed knock is its own, and the operator accepted it.
LEMMA JoinsStep ==
  /\ KnockTypeOK /\ FreshKnocks /\ SealedWelcomes /\ Commands /\ Confirmations
  /\ JoinsOnOwnWelcome /\ [Next]_vars
  => JoinsOnOwnWelcome'
<1> SUFFICES ASSUME KnockTypeOK, FreshKnocks, SealedWelcomes, Commands, Confirmations,
                    JoinsOnOwnWelcome, [Next]_vars, NEW j \in Joiner, file'[j] # None
             PROVE  /\ file'[j] = asked'[j] /\ n'[j] \in said'[j]
                    /\ knock'[<<j, n'[j]>>] = [state |-> "accepted", clan |-> file'[j]]
  BY DEF JoinsOnOwnWelcome, This
<1>1. CASE /\ file'[j] = file[j] /\ asked'[j] = asked[j] /\ n'[j] = n[j] /\ said[j] \subseteq said'[j]
  <2>1. /\ file[j] = asked[j] /\ n[j] \in said[j]
        /\ knock[<<j, n[j]>>] = [state |-> "accepted", clan |-> file[j]]
    BY <1>1 DEF JoinsOnOwnWelcome, This
  <2>2. <<j, n[j]>> \in KnockID
    BY <2>1 DEF KnockTypeOK, KnockID
  <2>3. knock'[<<j, n[j]>>] = knock[<<j, n[j]>>]
    BY <2>1, <2>2, AcceptedStays
  <2> QED
    BY <1>1, <2>1, <2>3
<1>2. CASE SaveWelcome(j)
  <2>1. /\ pc[j] = "waiting" /\ slot[j] \in Welcome
        /\ slot[j].key = Bundle(<<j, n[j]>>, asked[j]) /\ slot[j].clan = asked[j]
        /\ file'[j] = asked[j] /\ UNCHANGED <<asked, n, said, knock>>
    BY <1>2 DEF SaveWelcome, Opens, OpenKnockWelcome, This, KnockTypeOK, receiverVars
  <2>2. PICK id \in KnockID :
          knock[id].state = "accepted" /\ slot[j].key = Bundle(id, knock[id].clan)
    BY <2>1 DEF SealedWelcomes, Sealed
  <2>3. id = <<j, n[j]>> /\ knock[id].clan = asked[j]
    BY <2>1, <2>2 DEF Bundle
  <2>4. knock[id] = [state |-> "accepted", clan |-> asked[j]]
    BY <2>2, <2>3 DEF KnockTypeOK
  <2>5. n[j] \in said[j]
    BY <2>1 DEF Confirmations
  <2> QED
    BY <2>1, <2>3, <2>4, <2>5
<1>3. CASE UNCHANGED <<file, n, pc, asked, confirmed, said>>
  BY <1>1, <1>3
<1>4. ASSUME NEW i \in Joiner, JoinerStep(i) PROVE SaveWelcome(j) \/
        (/\ file'[j] = file[j] /\ asked'[j] = asked[j] /\ n'[j] = n[j] /\ said[j] \subseteq said'[j])
  <2>1. CASE i # j
    BY <1>4, <2>1, CommandStep
  <2>2. CASE i = j
    <3>1. ~ \E c \in Clan : cmdKnock(j, c)
      BY DEF cmdKnock
    <3>2. ~ Leave(j)
      BY DEF Leave, KnockTypeOK
    <3>3. CASE Confirm(j)
      BY <3>3 DEF Confirm, KnockTypeOK
    <3> QED
      BY <1>4, <2>2, <3>1, <3>2, <3>3
         DEF JoinerStep, NoResponse, Response, NotConfirmed, DeliveryTimeout, Rejects, Fail
  <2> QED
    BY <2>1, <2>2
<1> QED
  BY <1>1, <1>2, <1>3, <1>4, JoinerSteps

\* A joiner comes into the roster only in AcceptReturns, of a delivery that was
\* taken.
LEMMA AdmittedStep ==
  KnockTypeOK /\ Commands /\ Confirmations /\ AdmittedConfirmed /\ [Next]_vars => AdmittedConfirmed'
<1> SUFFICES ASSUME KnockTypeOK, Commands, Confirmations, AdmittedConfirmed, [Next]_vars,
                    NEW j \in roster'
             PROVE  said'[j] # {}
  BY DEF AdmittedConfirmed
<1>1. CASE roster' \subseteq roster
  <2>1. j \in roster /\ j \in Joiner /\ said[j] # {}
    BY <1>1 DEF AdmittedConfirmed, KnockTypeOK
  <2>2. said[j] \subseteq said'[j]
    BY <2>1, JoinerSteps, CommandStep
  <2> QED
    BY <2>1, <2>2
<1>2. CASE AcceptReturns
  BY <1>2 DEF AcceptReturns, joinerVars, Confirmations, AdmittedConfirmed
<1>3. AcceptReturns \/ roster' \subseteq roster
  BY DEF Next, JoinerStep, ReceiverStep, NoResponse, Response, NotConfirmed, Confirm,
         DeliveryTimeout, Rejects, Fail, SaveWelcome, Leave, cmdKnock, deliver, Undelivered,
         Knock, KnockRefused, cmdKnockAccept, Seal, PostTimeout, cmdKnockDeny, Expire, Restart,
         Move, vars, receiverVars
<1> QED
  BY <1>1, <1>2, <1>3

-----------------------------------------------------------------------------
LEMMA KnockInit == Init => KnockInv
<1> SUFFICES ASSUME Init PROVE KnockInv
  OBVIOUS
<1>1. KnockTypeOK
  BY KnockBounds DEF Init, KnockTypeOK, NoKnock, Free
<1>2. FreshKnocks /\ StoredKnocks
  BY DEF Init, FreshKnocks, StoredKnocks, NoKnock, Free
<1>3. SealedWelcomes
  BY Deliveries DEF Init, SealedWelcomes
<1>4. Confirmations /\ Commands /\ JoinsOnOwnWelcome /\ AdmittedConfirmed
  BY DEF Init, Confirmations, Commands, Running, JoinsOnOwnWelcome, AdmittedConfirmed, Free
<1> QED
  BY <1>1, <1>2, <1>3, <1>4 DEF KnockInv

\* The chain from the user's yes over the sealed welcome to clan.json and to the
\* roster holds throughout.
THEOREM KnockSafe == Spec => []KnockInv
<1>1. Init => KnockInv
  BY KnockInit
<1>2. KnockInv /\ [Next]_vars => KnockInv'
  BY KnockTypes, FreshStep, StoredStep, SealedStep, CommandsStep, ConfirmationsStep, JoinsStep,
     AdmittedStep DEF KnockInv
<1> QED
  BY <1>1, <1>2, PTL DEF Spec

\* cmdKnock writes clan.json only on the welcome of its own knock, for the Clan
\* the user asked for, confirmed by the user and accepted by the operator,
\* whatever late deliveries, moves and restarts of the receiver come between.
THEOREM KnockJoins == Spec => []JoinsOnOwnWelcome
<1>1. KnockInv => JoinsOnOwnWelcome
  BY DEF KnockInv
<1> QED
  BY <1>1, KnockSafe, PTL

\* Nobody comes into the roster by a knock before the user on the joining machine
\* has confirmed a code.
THEOREM KnockAdmits == Spec => []AdmittedConfirmed
<1>1. KnockInv => AdmittedConfirmed
  BY DEF KnockInv
<1> QED
  BY <1>1, KnockSafe, PTL
=============================================================================
