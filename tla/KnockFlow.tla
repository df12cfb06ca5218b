----------------------------- MODULE KnockFlow ------------------------------
(***************************************************************************)
(* Joining by a knock, end to end: the joiner's command (cmdKnock with its *)
(* temporary listener), the receiver's daemon (membership/knock.go and     *)
(* knock_handlers.go) and the operator's commands knocks, knock-accept and *)
(* knock-deny.  Membership has the receiver's roster with all its writers; *)
(* here it is the two ends and the HTTP calls between them that matter.    *)
(*                                                                         *)
(* The n-th command of joiner j makes at most one knock: <<j, n>> stands   *)
(* for its random knock id, and for the ephemeral keys on both sides.      *)
(***************************************************************************)
EXTENDS Naturals, FiniteSets

CONSTANTS
  Joiner,
  Clan, None,
  MaxCmds,       \* bound: commands of one joiner
  MaxFaults      \* bound: restarts of the receiver and changes of its Clan

ASSUME KnockBounds == MaxCmds \in Nat /\ MaxFaults \in Nat
ASSUME NoneIsNoClan == None \notin Clan

Cmd == 1..MaxCmds
KnockID == Joiner \X Cmd

VARIABLES
  \* the joiner
  file,      \* file[j]: the Clan in its clan.json
  n,         \* number of its latest command
  pc,        \* where that command is
  asked,     \* its --clan-id
  confirmed, \* sasConfirmed
  slot,      \* deliverCh
  direct,    \* the receiver calls from the address given by --address
  fixed,     \* --listen names a port: all commands listen on the same one
  said,      \* history: commands whose user confirmed the code
  \* between the two
  requests,  \* POST /clan/knock under way
  posts,     \* POST /clan/knock-deliver under way
  \* the receiver
  clan,      \* the Clan in its clan.json
  roster,    \* joiners that were admitted to it
  knock,     \* KnockStore.knocks
  queue,     \* accepts between Consume and Service.mu
  mu,        \* the accept that holds Service.mu
  faults

joinerVars == <<file, n, pc, asked, confirmed, slot, direct, fixed, said>>
receiverVars == <<clan, roster, knock, queue, mu, faults>>
vars == <<joinerVars, requests, posts, receiverVars>>

-----------------------------------------------------------------------------
\* DeriveKnockBundle: both sides put the same inputs into the key derivation,
\* or get different keys.
Bundle(id, c) == <<id, c>>

SealKnockWelcome(key, c) == [key |-> key, clan |-> c]

\* (faulty) a welcome opened without its authentication tag.
OpenAnyKey(key, ct) == TRUE

\* The tag proves the key.
OpenKnockWelcome(key, ct) == ct.key = key

Welcome == [key : KnockID \X Clan, clan : Clan]
Denial == [denied : {TRUE}]
Delivery == Welcome \cup Denial
Denied == [denied |-> TRUE]
Nothing == [empty |-> TRUE]

Free == [stage |-> "free", id |-> None, clan |-> None]
NoKnock == [state |-> "none", clan |-> None]

KnockTypeOK ==
  /\ file \in [Joiner -> Clan \cup {None}] /\ n \in [Joiner -> 0..MaxCmds]
  /\ pc \in [Joiner -> {"idle", "knocking", "confirm", "waiting", "joined", "failed"}]
  /\ asked \in [Joiner -> Clan \cup {None}] /\ confirmed \in [Joiner -> BOOLEAN]
  /\ slot \in [Joiner -> Delivery \cup {Nothing}]
  /\ direct \in [Joiner -> BOOLEAN] /\ fixed \in [Joiner -> BOOLEAN]
  /\ said \in [Joiner -> SUBSET Cmd]
  /\ requests \subseteq [id : KnockID, clan : Clan]
  /\ posts \subseteq [id : KnockID, body : Delivery]
  /\ clan \in Clan \cup {None} /\ roster \subseteq Joiner
  /\ knock \in [KnockID -> [state : {"none", "pending", "accepted", "denied", "expired", "lost"},
                            clan : Clan \cup {None}]]
  /\ queue \subseteq KnockID
  /\ mu \in [stage : {"free", "posting", "ok", "failed"}, id : KnockID \cup {None},
             clan : Clan \cup {None}]
  /\ faults \in 0..MaxFaults

Init ==
  /\ file = [j \in Joiner |-> None] /\ n = [j \in Joiner |-> 0]
  /\ pc = [j \in Joiner |-> "idle"] /\ asked = [j \in Joiner |-> None]
  /\ confirmed = [j \in Joiner |-> FALSE] /\ slot = [j \in Joiner |-> Nothing]
  /\ direct \in [Joiner -> BOOLEAN] /\ fixed \in [Joiner -> BOOLEAN]
  /\ said = [j \in Joiner |-> {}]
  /\ requests = {} /\ posts = {}
  /\ clan \in Clan /\ roster = {} /\ knock = [id \in KnockID |-> NoKnock]
  /\ queue = {} /\ mu = Free /\ faults = 0

-----------------------------------------------------------------------------
\* cmdKnock.

This(j) == <<j, n[j]>>
Running(j) == pc[j] \in {"knocking", "confirm", "waiting"}

\* The checks, the keys, the listener, and POST /clan/knock.
cmdKnock(j, c) ==
  /\ ~ Running(j) /\ file[j] = None /\ n[j] < MaxCmds
  /\ n' = [n EXCEPT ![j] = @ + 1]
  /\ pc' = [pc EXCEPT ![j] = "knocking"]
  /\ asked' = [asked EXCEPT ![j] = c]
  /\ confirmed' = [confirmed EXCEPT ![j] = FALSE]
  /\ slot' = [slot EXCEPT ![j] = Nothing]
  /\ requests' = requests \cup {[id |-> <<j, n'[j]>>, clan |-> c]}
  /\ UNCHANGED <<file, direct, fixed, said, posts, receiverVars>>

\* The command returns an error and its listener is closed.
Fail(j) ==
  /\ pc' = [pc EXCEPT ![j] = "failed"]
  /\ UNCHANGED <<file, n, asked, confirmed, slot, direct, fixed, said, requests, posts, receiverVars>>

\* No answer within thirty seconds, or a refusal.
NoResponse(j) == pc[j] = "knocking" /\ Fail(j)

\* The answer: the code is shown and the user asked.
Response(j) ==
  /\ pc[j] = "knocking" /\ knock[This(j)].state # "none"
  /\ pc' = [pc EXCEPT ![j] = "confirm"]
  /\ UNCHANGED <<file, n, asked, confirmed, slot, direct, fixed, said, requests, posts, receiverVars>>

\* The user says no or closes the input, or KnockTTL passes.
NotConfirmed(j) == pc[j] = "confirm" /\ Fail(j)

\* The user says yes: the listener takes deliveries from now on.
Confirm(j) ==
  /\ pc[j] = "confirm"
  /\ pc' = [pc EXCEPT ![j] = "waiting"]
  /\ confirmed' = [confirmed EXCEPT ![j] = TRUE]
  /\ said' = [said EXCEPT ![j] = @ \cup {n[j]}]
  /\ UNCHANGED <<file, n, asked, slot, direct, fixed, requests, posts, receiverVars>>

\* (faulty) a wait that ends only with an answer.
TimesOutOnDenial(j) == pc[j] = "waiting" /\ slot[j] = Denied /\ Fail(j)

\* KnockTTL passes once more; the timer may win over a delivery in the channel.
DeliveryTimeout(j) == pc[j] = "waiting" /\ Fail(j)

\* The welcome opens under this command's key and is for the Clan it asked for.
Opens(j) ==
  /\ slot[j] \in Welcome
  /\ OpenKnockWelcome(Bundle(This(j), asked[j]), slot[j])
  /\ slot[j].clan = asked[j]

\* What was delivered is denied or does not open, or SaveClan fails.
Rejects(j) ==
  /\ pc[j] = "waiting" /\ slot[j] # Nothing
  /\ Fail(j)

SaveWelcome(j) ==
  /\ pc[j] = "waiting" /\ Opens(j)
  /\ file' = [file EXCEPT ![j] = slot[j].clan]
  /\ pc' = [pc EXCEPT ![j] = "joined"]
  /\ UNCHANGED <<n, asked, confirmed, slot, direct, fixed, said, requests, posts,
                 receiverVars>>

\* cmdLeave on the joiner's machine.
Leave(j) ==
  /\ file[j] # None
  /\ file' = [file EXCEPT ![j] = None]
  /\ UNCHANGED <<n, pc, asked, confirmed, slot, direct, fixed, said, requests, posts, receiverVars>>

-----------------------------------------------------------------------------
\* The temporary listener.

\* knockJoinerLANAddr: the address a knock names is that of its own command,
\* or of every command if the port is given.
Reaches(j, k) == Running(j) /\ (n[j] = k \/ fixed[j])

\* (faulty) the listener without the confirmation test.
statusUnarmed(j) ==
  IF pc[j] # "knocking" /\ ~ direct[j] THEN 403
  ELSE IF slot[j] # Nothing THEN 409 ELSE 200

\* The status the listener answers with.  receiverIP is set with the response;
\* until then it lets every source through to the second check.
status(j) ==
  IF pc[j] # "knocking" /\ ~ direct[j] THEN 403
  ELSE IF ~ confirmed[j] THEN 503
  ELSE IF slot[j] # Nothing THEN 409 ELSE 200

\* The accept that waits for the post p hears how it ended.
Heard(p, ok) ==
  IF mu.stage = "posting" /\ mu.id = p.id /\ p.body # Denied
    THEN [mu EXCEPT !.stage = IF ok THEN "ok" ELSE "failed"] ELSE mu

\* A delivery arrives, though its sender may be gone; the answer may get lost.
deliver(p) ==
  LET j == p.id[1] IN
  /\ Reaches(j, p.id[2])
  /\ posts' = posts \ {p}
  /\ slot' = IF status(j) = 200 THEN [slot EXCEPT ![j] = p.body] ELSE slot
  /\ mu' \in {mu, Heard(p, status(j) = 200)}
  /\ UNCHANGED <<file, n, pc, asked, confirmed, direct, fixed, said, requests, clan, roster, knock, queue, faults>>

\* Nobody listens, or the connection fails.
Undelivered(p) ==
  /\ posts' = posts \ {p}
  /\ mu' = Heard(p, FALSE)
  /\ UNCHANGED <<joinerVars, requests, clan, roster, knock, queue, faults>>

-----------------------------------------------------------------------------
\* The receiver.

\* Service.Knock and KnockStore.Store: the Clan is the receiver's; the answer
\* goes out at once.
Knock(r) ==
  /\ clan # None /\ clan = r.clan
  /\ requests' = requests \ {r}
  /\ knock' = [knock EXCEPT ![r.id] = [state |-> "pending", clan |-> r.clan]]
  /\ UNCHANGED <<joinerVars, posts, clan, roster, queue, mu, faults>>

\* Another Clan or none, a rate bucket that other knocks have filled, or a
\* request that never arrives.
KnockRefused(r) ==
  /\ requests' = requests \ {r}
  /\ UNCHANGED <<joinerVars, posts, receiverVars>>

Pending == {id \in KnockID : knock[id].state = "pending"}

\* `knocks`: what the operator finds listed, with the codes.  A decision that
\* comes when the list is out of date fails in Consume and changes nothing.
KnockList == IF clan = None THEN {} ELSE Pending

\* KnockStore.Consume.
Consume(id, state) ==
  /\ knock[id].state = "pending"
  /\ knock' = [knock EXCEPT ![id].state = state]

\* `knock-accept` of a knock from the last list, up to Service.mu.
cmdKnockAccept(id) ==
  /\ id \in KnockList /\ Consume(id, "accepted")
  /\ queue' = queue \cup {id}
  /\ UNCHANGED <<joinerVars, requests, posts, clan, roster, mu, faults>>

\* KnockAccept with Service.mu: the welcome is made of the Clan the receiver is
\* in now, and goes out under the key of the knock.
Seal(id) ==
  /\ id \in queue /\ mu = Free
  /\ queue' = queue \ {id}
  /\ IF clan = None THEN UNCHANGED <<mu, posts>>
     ELSE /\ mu' = [stage |-> "posting", id |-> id, clan |-> clan]
          /\ posts' = posts \cup {[id |-> id, body |->
                        SealKnockWelcome(Bundle(id, knock[id].clan), clan)]}
  /\ UNCHANGED <<joinerVars, requests, clan, roster, knock, faults>>

\* postKnockDeliver gives up after ten seconds.
PostTimeout ==
  /\ mu.stage = "posting" /\ mu' = [mu EXCEPT !.stage = "failed"]
  /\ UNCHANGED <<joinerVars, requests, posts, clan, roster, knock, queue, faults>>

\* Delivered: the joiner is admitted, unless SaveClan fails; otherwise the
\* roster is left alone.
AcceptReturns ==
  /\ mu.stage \in {"ok", "failed"} /\ mu' = Free
  /\ \/ mu.stage = "ok" /\ clan = mu.clan /\ roster' = roster \cup {mu.id[1]}
     \/ UNCHANGED roster
  /\ UNCHANGED <<joinerVars, requests, posts, clan, knock, queue, faults>>

\* `knock-deny`: the notice is best effort.
cmdKnockDeny(id) ==
  /\ id \in KnockList /\ Consume(id, "denied")
  /\ posts' = posts \cup {[id |-> id, body |-> Denied]}
  /\ UNCHANGED <<joinerVars, requests, clan, roster, queue, mu, faults>>

\* KnockTTL passes for a pending knock.
Expire(id) ==
  /\ Consume(id, "expired")
  /\ UNCHANGED <<joinerVars, requests, posts, clan, roster, queue, mu, faults>>

\* The receiver leaves its Clan or joins another; the daemon and its store live
\* on.
Move(c) ==
  /\ faults < MaxFaults /\ faults' = faults + 1
  /\ c # clan /\ clan' = c /\ roster' = {}
  /\ UNCHANGED <<joinerVars, requests, posts, knock, queue, mu>>

\* The daemon restarts: pending knocks, and accepts under way are gone.
Restart ==
  /\ faults < MaxFaults /\ faults' = faults + 1
  /\ knock' = [id \in KnockID |-> IF knock[id].state = "pending"
                                    THEN [knock[id] EXCEPT !.state = "lost"] ELSE knock[id]]
  /\ queue' = {} /\ mu' = Free
  /\ UNCHANGED <<joinerVars, requests, posts, clan, roster>>

-----------------------------------------------------------------------------
JoinerStep(j) ==
  \/ NoResponse(j) \/ Response(j) \/ NotConfirmed(j) \/ Confirm(j)
  \/ DeliveryTimeout(j) \/ Rejects(j) \/ SaveWelcome(j) \/ Leave(j)
  \/ \E c \in Clan : cmdKnock(j, c)

ReceiverStep ==
  \/ \E r \in requests : Knock(r) \/ KnockRefused(r)
  \/ \E id \in KnockID : cmdKnockAccept(id) \/ Seal(id) \/ cmdKnockDeny(id) \/ Expire(id)
  \/ PostTimeout \/ AcceptReturns
  \/ Restart \/ \E c \in Clan \cup {None} : Move(c)

Next ==
  \/ \E j \in Joiner : JoinerStep(j)
  \/ \E p \in posts : deliver(p) \/ Undelivered(p)
  \/ ReceiverStep

Spec == Init /\ [][Next]_vars

\* The command's three timers, and the ten seconds of a delivery.
FairSpec ==
  /\ Spec
  /\ \A j \in Joiner : /\ WF_vars(NoResponse(j)) /\ WF_vars(NotConfirmed(j))
                       /\ WF_vars(DeliveryTimeout(j))
  /\ WF_vars(PostTimeout) /\ WF_vars(AcceptReturns)

-----------------------------------------------------------------------------
\* clan.json of a joiner names the Clan that the user asked for and nothing
\* else, on the welcome of that very command's knock, which the operator
\* accepted and the user confirmed: late deliveries of earlier knocks, a receiver
\* that moved to another Clan and a restart do not change that.
JoinsOnOwnWelcome ==
  \A j \in Joiner : file[j] # None =>
    /\ file[j] = asked[j] /\ n[j] \in said[j]
    /\ knock[This(j)] = [state |-> "accepted", clan |-> file[j]]

\* spec 3.4, F3: nobody comes into the roster by a knock before the user on the
\* joining machine has confirmed a code, whenever the operator accepts.
AdmittedConfirmed == \A j \in roster : said[j] # {}

\* Every knock command comes to an end, and every accept lets go of Service.mu,
\* whoever never answers.
KnockSettles ==
  /\ \A j \in Joiner : Running(j) ~> ~ Running(j)
  /\ mu.stage # "free" ~> mu.stage = "free"
=============================================================================
