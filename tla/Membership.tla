----------------------------- MODULE Membership -----------------------------
(***************************************************************************)
(* One member's membership state: clan.json and revocations.json           *)
(* (internal/state), the tickets that admit others (membership/invite.go,  *)
(* knock.go), and every goroutine or command that rewrites the two files.  *)
(*                                                                         *)
(* A writer loads a whole file, changes its copy and saves the whole copy. *)
(* membership.Service does so while it holds Service.mu; roster sync, the  *)
(* election's persist calls, the pin handlers, revocation sync and the     *)
(* command line do so without it.  Store.mu covers a single load or save.  *)
(*                                                                         *)
(* Of clan.json the model keeps the Clan's id and each member's standing   *)
(* in the roster.  "zombie" is an "admitted" entry older than              *)
(* ZombieMaxAge; the file says "admitted" for both.  What other members    *)
(* answer (a fetched roster, a fetched list, a join response) is any       *)
(* member of PeerRoster and any set of members.                            *)
(*                                                                         *)
(* MaxOps bounds the requests of users and peers, MaxFaults the failed     *)
(* saves, failed deliveries and crashes.                                   *)
(***************************************************************************)
EXTENDS Naturals, FiniteSets

CONSTANTS
  Member,      \* member ids
  Self,        \* the member whose files these are
  Clan,        \* Clan ids
  None,        \* no Clan id, no ticket, no member
  Token,       \* invite tokens the daemon may mint
  Knocks,      \* knock ids the daemon may hand out
  PeerRoster,  \* rosters another member may answer with
  MaxOps,      \* bound: requests
  MaxFaults    \* bound: faults

Ticket == Token \cup Knocks
Standing == {"absent", "admitted", "zombie", "active", "revoked"}
Roster == [Member -> Standing]

ASSUME MemberAssumption == Self \in Member /\ IsFiniteSet(Member)
ASSUME NoneAssumption == None \notin Member \cup Clan \cup Token \cup Knocks
ASSUME TicketAssumption == Token \cap Knocks = {}
ASSUME PeerAssumption == PeerRoster \subseteq Roster
ASSUME LimitAssumption == MaxOps \in Nat /\ MaxFaults \in Nat

VARIABLES
  file,      \* clan.json
  revs,      \* revocations.json: the ids listed, and how many entries repeat one
  serving,   \* the daemon runs its active path (it idles without a Clan)
  deny,      \* Registry.revocations: the ids BindMember refuses
  invite,    \* InviteStore: state and Clan of each token
  knock,     \* KnockStore: state and joiner of each knock
  waiting,   \* requests that consumed their ticket and wait for Service.mu
  mu,        \* the operation inside Service.mu
  held,      \* load-modify-save sections on clan.json outside Service.mu
  fetching,  \* revocation syncs between load and save: the list loaded
  joining,   \* a join command that found no Clan and waits for an answer
  ops, faults,
  uses,      \* history: how often the key was handed out for each ticket
  grants,    \* history: <<ticket, Clan>> of the keys handed out
  outside,   \* history: clan.json was saved outside Service.mu since mu's load
  left       \* history: the member left and has not joined since

fileVars == <<file, revs>>
ticketVars == <<invite, knock, waiting>>
sectionVars == <<mu, held, fetching, joining>>
boundVars == <<ops, faults>>
grantVars == <<uses, grants>>
ghostVars == <<outside, left>>
vars == <<fileVars, serving, deny, ticketVars, sectionVars, boundVars, grantVars,
          ghostVars>>

ClanFile == [id : Clan \cup {None}, ros : Roster]
RevList == [ids : SUBSET Member, dup : 0..MaxOps]
Blank == [m \in Member |-> "absent"]
NoClan == [id |-> None, ros |-> Blank]
NoRevs == [ids |-> {}, dup |-> 0]

Request == [op : {"redeem", "accept"}, who : Member, ticket : Ticket]
Section ==
  [op : {"free", "redeem", "welcome", "accept", "delivered", "revoke", "append",
         "promote", "sweep"},
   who : Member \cup {None}, ticket : Ticket \cup {None}, snap : ClanFile,
   list : RevList]
Free == [op |-> "free", who |-> None, ticket |-> None, snap |-> NoClan,
         list |-> NoRevs]
Writer == {"sync", "persist"}

-----------------------------------------------------------------------------
\* upsertRoster with a fresh "admitted" entry: it replaces whatever was there.
Upsert(ros, m) == [ros EXCEPT ![m] = "admitted"]

Admitted == {"admitted", "zombie"}

\* MergeRosterStates' rank; an absent entry takes the other's verbatim.
Rank(s) == CASE s = "absent" -> 0 [] s \in Admitted -> 1
             [] s = "active" -> 2 [] s = "revoked" -> 3

\* (faulty) the fetched state wins.
TakeOther(ros, other) ==
  [m \in Member |-> IF other[m] # "absent" THEN other[m] ELSE ros[m]]

MergeRosterStates(ros, other) ==
  [m \in Member |-> IF Rank(other[m]) > Rank(ros[m]) THEN other[m] ELSE ros[m]]

\* rosterEqual: same members with the same state.
RosterEqual(r, q) == \A m \in Member : Rank(r[m]) = Rank(q[m])

\* (faulty) the kept entries are not assigned back.
PurgeNothing(ros) == ros

\* SweepZombies' kept roster.
Purge(ros) == [m \in Member |-> IF ros[m] = "zombie" THEN "absent" ELSE ros[m]]

\* (faulty) Merge without the check for ids it has seen.
ConcatRevs(list, ids) ==
  [ids |-> list.ids \cup ids, dup |-> list.dup + Cardinality(list.ids \cap ids)]

\* Revocations.Merge drops repeated ids; len(list.Entries).
MergeRevs(list, ids) == [ids |-> list.ids \cup ids, dup |-> 0]
Entries(list) == Cardinality(list.ids) + list.dup

AddEntry(list, m) ==
  IF m \in list.ids THEN [list EXCEPT !.dup = @ + 1]
                    ELSE [list EXCEPT !.ids = @ \cup {m}]

Spend == ops < MaxOps /\ ops' = ops + 1 /\ UNCHANGED faults
Fault == faults < MaxFaults /\ faults' = faults + 1 /\ UNCHANGED ops

\* Service.mu is free and the operation's LoadClan reads an active Clan.
Enter(op, m, t) ==
  /\ serving /\ mu.op = "free" /\ file.id # None
  /\ mu' = [Free EXCEPT !.op = op, !.who = m, !.ticket = t, !.snap = file]
  /\ outside' = FALSE

\* SaveClan by the holder of Service.mu, and by anybody else.
SaveInside(ros) == file' = [mu.snap EXCEPT !.ros = ros] /\ UNCHANGED <<outside, left>>
SaveOutside(f) == file' = f /\ outside' = TRUE

Hand(t, c) ==
  /\ uses' = [uses EXCEPT ![t] = @ + 1]
  /\ grants' = grants \cup {<<t, c>>}

-----------------------------------------------------------------------------
\* Tickets.

\* IssueInvite: any member's authenticated request mints a token for the Clan.
IssueInvite(t) ==
  /\ serving /\ file.id # None
  /\ invite[t].state = "none"
  /\ invite' = [invite EXCEPT ![t] = [state |-> "live", clan |-> file.id]]
  /\ Spend
  /\ UNCHANGED <<fileVars, serving, deny, knock, waiting, sectionVars, grantVars,
                 ghostVars>>

\* POST /clan/join up to Service.mu: InviteStore.Redeem consumes the token.
Redeem(t, m) ==
  /\ serving /\ invite[t].state = "live"
  /\ invite' = [invite EXCEPT ![t].state = "used"]
  /\ waiting' = waiting \cup {[op |-> "redeem", who |-> m, ticket |-> t]}
  /\ UNCHANGED <<fileVars, serving, deny, knock, sectionVars, boundVars, grantVars,
                 ghostVars>>

\* POST /clan/knock.  MaxOps stays below the rate limit of KnockStore.Store.
Knock(k, m) ==
  /\ serving /\ file.id # None
  /\ knock[k].state = "none"
  /\ knock' = [knock EXCEPT ![k] = [state |-> "pending", who |-> m]]
  /\ Spend
  /\ UNCHANGED <<fileVars, serving, deny, invite, waiting, sectionVars, grantVars,
                 ghostVars>>

\* (faulty) Consume without the check of the state.
ConsumableTwice(k) == serving /\ knock[k].state \in {"pending", "accepted", "denied"}

\* KnockStore.Consume: pending only.
Consumable(k) == serving /\ knock[k].state = "pending"

\* KnockAccept up to Service.mu.
KnockAccept(k) ==
  /\ Consumable(k)
  /\ knock' = [knock EXCEPT ![k].state = "accepted"]
  /\ waiting' = waiting \cup {[op |-> "accept", who |-> knock[k].who, ticket |-> k]}
  /\ UNCHANGED <<fileVars, serving, deny, invite, sectionVars, boundVars, grantVars,
                 ghostVars>>

\* KnockDeny; the notice to the joiner is best effort and changes nothing here.
KnockDeny(k) ==
  /\ Consumable(k)
  /\ knock' = [knock EXCEPT ![k].state = "denied"]
  /\ UNCHANGED <<fileVars, serving, deny, invite, waiting, sectionVars, boundVars,
                 grantVars, ghostVars>>

\* A ticket outlives its TTL; Redeem and Consume refuse it from then on.
Expire ==
  /\ \/ \E t \in Token : /\ invite[t].state = "live"
                         /\ invite' = [invite EXCEPT ![t].state = "expired"]
                         /\ UNCHANGED knock
     \/ \E k \in Knocks : /\ knock[k].state = "pending"
                          /\ knock' = [knock EXCEPT ![k].state = "expired"]
                          /\ UNCHANGED invite
  /\ UNCHANGED <<fileVars, serving, deny, waiting, sectionVars, boundVars, grantVars,
                 ghostVars>>

-----------------------------------------------------------------------------
\* Operations inside Service.mu: enter (lock and load), then save or fail.

\* (faulty) RedeemInvite without the comparison.
ValidAnyClan(w) == TRUE

\* RedeemInvite compares the Clan with the token's; KnockAccept does not.
Valid(w) == w.op = "redeem" => invite[w.ticket].clan = file.id

EnterWaiting(w) ==
  /\ Valid(w) /\ Enter(w.op, w.who, w.ticket)
  /\ waiting' = waiting \ {w}
  /\ UNCHANGED <<fileVars, serving, deny, invite, knock, held, fetching, joining,
                 boundVars, grantVars, left>>

\* The Clan is gone, or another one than the token's: the ticket is spent.
Refuse(w) ==
  /\ serving /\ mu.op = "free"
  /\ file.id = None \/ ~Valid(w)
  /\ waiting' = waiting \ {w}
  /\ UNCHANGED <<fileVars, serving, deny, invite, knock, sectionVars, boundVars,
                 grantVars, ghostVars>>

\* Welcome (paste-key; the joiner holds the key), Revoke of a roster member.
Welcome(m) ==
  /\ Enter("welcome", m, None) /\ Spend
  /\ UNCHANGED <<fileVars, serving, deny, ticketVars, held, fetching, joining,
                 grantVars, left>>

Revoke(m) ==
  /\ file.ros[m] # "absent"
  /\ Enter("revoke", m, None) /\ Spend
  /\ UNCHANGED <<fileVars, serving, deny, ticketVars, held, fetching, joining,
                 grantVars, left>>

\* PromoteToActive of an entry that is admitted: from handleAdvertise, where
\* BindMember refuses the denied, or for Self after it won an election.
Promote(m) ==
  /\ m = Self \/ m \notin deny
  /\ file.ros[m] \in Admitted
  /\ Enter("promote", m, None)
  /\ UNCHANGED <<fileVars, serving, deny, ticketVars, held, fetching, joining,
                 boundVars, grantVars, left>>

\* A tick of StartZombieSweep that finds something to purge.
Sweep ==
  /\ \E m \in Member : file.ros[m] = "zombie"
  /\ Enter("sweep", None, None)
  /\ UNCHANGED <<fileVars, serving, deny, ticketVars, held, fetching, joining,
                 boundVars, grantVars, left>>

\* postKnockDeliver: the joiner gets key and roster before the roster is saved.
Deliver ==
  /\ mu.op = "accept"
  /\ mu' = [mu EXCEPT !.op = "delivered"]
  /\ Hand(mu.ticket, mu.snap.id)
  /\ UNCHANGED <<fileVars, serving, deny, ticketVars, held, fetching, joining,
                 boundVars, ghostVars>>

\* The POST fails: the roster is left alone, though the joiner may have it all.
DeliverFails ==
  /\ mu.op = "accept" /\ Fault
  /\ mu' = Free
  /\ Hand(mu.ticket, mu.snap.id) \/ UNCHANGED grantVars
  /\ UNCHANGED <<fileVars, serving, deny, ticketVars, held, fetching, joining,
                 ghostVars>>

\* The tail of RedeemInvite, Welcome and KnockAccept.  The token's response
\* carries the key.
Admit ==
  /\ mu.op \in {"redeem", "welcome", "delivered"}
  /\ SaveInside(Upsert(mu.snap.ros, mu.who))
  /\ IF mu.op = "redeem" THEN Hand(mu.ticket, mu.snap.id) ELSE UNCHANGED grantVars
  /\ mu' = Free
  /\ UNCHANGED <<revs, serving, deny, ticketVars, held, fetching, joining, boundVars>>

\* Revoke saves the roster, then loads the list (nothing the list depends on
\* lies between the two).
MarkRevoked ==
  /\ mu.op = "revoke"
  /\ SaveInside([mu.snap.ros EXCEPT ![mu.who] = "revoked"])
  /\ mu' = [Free EXCEPT !.op = "append", !.who = mu.who, !.list = revs]
  /\ UNCHANGED <<revs, serving, deny, ticketVars, held, fetching, joining, boundVars,
                 grantVars>>

\* The registry's snapshot is not told.
AppendRevocation ==
  /\ mu.op = "append"
  /\ revs' = AddEntry(mu.list, mu.who)
  /\ mu' = Free
  /\ UNCHANGED <<file, serving, deny, ticketVars, held, fetching, joining, boundVars,
                 grantVars, ghostVars>>

MakeActive ==
  /\ mu.op = "promote"
  /\ SaveInside([mu.snap.ros EXCEPT ![mu.who] = "active"])
  /\ mu' = Free
  /\ UNCHANGED <<revs, serving, deny, ticketVars, held, fetching, joining, boundVars,
                 grantVars>>

PurgeZombies ==
  /\ mu.op = "sweep"
  /\ SaveInside(Purge(mu.snap.ros))
  /\ mu' = Free
  /\ UNCHANGED <<revs, serving, deny, ticketVars, held, fetching, joining, boundVars,
                 grantVars>>

\* A save returns an error and the operation with it.
SaveFails ==
  /\ mu.op \notin {"free", "accept"} /\ Fault
  /\ mu' = Free
  /\ UNCHANGED <<fileVars, serving, deny, ticketVars, held, fetching, joining,
                 grantVars, ghostVars>>

Inside == Deliver \/ Admit \/ MarkRevoked \/ AppendRevocation \/ MakeActive
            \/ PurgeZombies

-----------------------------------------------------------------------------
\* Writers outside Service.mu.  Several may be under way: the syncers keep one per
\* sender, and the engine, the heartbeat handler and the pin handlers do not wait
\* for each other.  Bound: no two of a kind hold the same copy.

\* LoadClan of roster sync's MaybeSync, or of persistTermAndOrch, persistScribe
\* and the two pin handlers, which put everything but their own field back.
Load(w) ==
  /\ serving /\ [by |-> w, snap |-> file] \notin held
  /\ held' = held \cup {[by |-> w, snap |-> file]}
  /\ Spend
  /\ UNCHANGED <<fileVars, serving, deny, ticketVars, mu, fetching, joining, grantVars,
                 ghostVars>>

PutBack(h) ==
  /\ h.by = "persist"
  /\ held' = held \ {h}
  /\ SaveOutside(h.snap)
  /\ UNCHANGED <<revs, serving, deny, ticketVars, mu, fetching, joining, boundVars,
                 grantVars, left>>

\* MaybeSync after the fetch: saved only when the merge changed something.
MergeRoster(h, ros) ==
  LET merged == MergeRosterStates(h.snap.ros, ros) IN
  /\ h.by = "sync"
  /\ held' = held \ {h}
  /\ IF RosterEqual(merged, h.snap.ros)
       THEN UNCHANGED <<file, outside>>
       ELSE SaveOutside([h.snap EXCEPT !.ros = merged])
  /\ UNCHANGED <<revs, serving, deny, ticketVars, mu, fetching, joining, boundVars,
                 grantVars, left>>

\* The fetch, or the save, fails.
GiveUp(h) ==
  /\ Fault
  /\ held' = held \ {h}
  /\ UNCHANGED <<fileVars, serving, deny, ticketVars, mu, fetching, joining, grantVars,
                 ghostVars>>

\* Revocation sync: the same on revocations.json, saved only if the merged list
\* is longer, and the registry's snapshot is replaced with it.
LoadRevocations ==
  /\ serving /\ revs \notin fetching
  /\ fetching' = fetching \cup {revs}
  /\ Spend
  /\ UNCHANGED <<fileVars, serving, deny, ticketVars, mu, held, joining, grantVars,
                 ghostVars>>

MergeRevocations(list, ids) ==
  LET merged == MergeRevs(list, ids) IN
  /\ fetching' = fetching \ {list}
  /\ IF Entries(merged) > Entries(list)
       THEN revs' = merged /\ deny' = merged.ids
       ELSE UNCHANGED <<revs, deny>>
  /\ UNCHANGED <<file, serving, ticketVars, mu, held, joining, boundVars, grantVars,
                 ghostVars>>

\* cmdLeave, and Service.Leave: what is saved depends on nothing that was
\* loaded.  The daemon keeps running as it is.
Leave ==
  /\ file.id # None /\ Spend
  /\ SaveOutside(NoClan) /\ left' = TRUE
  /\ UNCHANGED <<revs, serving, deny, ticketVars, sectionVars, grantVars>>

\* cmdJoin and cmdKnock: checked first, saved when the answer has come.
BeginJoin ==
  /\ file.id = None /\ ~joining /\ Spend
  /\ joining' = TRUE
  /\ UNCHANGED <<fileVars, serving, deny, ticketVars, mu, held, fetching, grantVars,
                 ghostVars>>

EndJoin(c, ros) ==
  /\ joining /\ joining' = FALSE
  /\ SaveOutside([id |-> c, ros |-> ros]) /\ left' = FALSE
  /\ UNCHANGED <<revs, serving, deny, ticketVars, mu, held, fetching, boundVars,
                 grantVars>>

\* cmdCreate: a roster with the founder alone, active.
Create(c) ==
  /\ file.id = None /\ Spend
  /\ SaveOutside([id |-> c, ros |-> [Blank EXCEPT ![Self] = "active"]])
  /\ left' = FALSE
  /\ UNCHANGED <<revs, serving, deny, ticketVars, sectionVars, grantVars>>

-----------------------------------------------------------------------------
\* The daemon's life.

\* runDaemon from the start: every store is new, the registry's snapshot comes
\* from the file, and without a Clan the daemon idles.
Boot ==
  /\ serving' = (file.id # None)
  /\ deny' = IF file.id # None THEN revs.ids ELSE {}
  /\ invite' = [t \in Token |->
                  IF invite[t].state = "live" THEN [invite[t] EXCEPT !.state = "lost"]
                                              ELSE invite[t]]
  /\ knock' = [k \in Knocks |->
                  IF knock[k].state = "pending" THEN [knock[k] EXCEPT !.state = "lost"]
                                                ELSE knock[k]]
  /\ waiting' = {} /\ held' = {} /\ fetching' = {}
  /\ mu' = Free
  /\ UNCHANGED <<fileVars, joining, grantVars, ghostVars>>

Crash == Fault /\ Boot

\* The idle daemon sees that the member has joined and exits to be restarted.
Restart ==
  /\ ~serving /\ file.id # None
  /\ Boot /\ UNCHANGED boundVars

\* ZombieMaxAge passes.  No request and no section lasts that long.
Day ==
  /\ mu.op = "free" /\ held = {} /\ fetching = {} /\ waiting = {} /\ ~joining
  /\ \E m \in Member : file.ros[m] = "admitted"
  /\ file' = [file EXCEPT !.ros =
                [m \in Member |-> IF @[m] = "admitted" THEN "zombie" ELSE @[m]]]
  /\ UNCHANGED <<revs, serving, deny, ticketVars, sectionVars, boundVars, grantVars,
                 ghostVars>>

-----------------------------------------------------------------------------
\* A Clan that Self founded, with the daemon started afterwards.
InitWith(ros) ==
  /\ \E c \in Clan : file = [id |-> c, ros |-> ros]
  /\ revs = NoRevs
  /\ serving = TRUE /\ deny = {}
  /\ invite = [t \in Token |-> [state |-> "none", clan |-> None]]
  /\ knock = [k \in Knocks |-> [state |-> "none", who |-> None]]
  /\ waiting = {} /\ held = {} /\ fetching = {}
  /\ mu = Free /\ joining = FALSE
  /\ ops = 0 /\ faults = 0
  /\ uses = [t \in Ticket |-> 0] /\ grants = {}
  /\ outside = FALSE /\ left = FALSE

Init == InitWith([Blank EXCEPT ![Self] = "active"])

Others == Member \ {Self}

Tickets ==
  \/ \E t \in Token : IssueInvite(t) \/ \E m \in Others : Redeem(t, m)
  \/ \E k \in Knocks : KnockAccept(k) \/ KnockDeny(k) \/ \E m \in Others : Knock(k, m)
  \/ Expire

Requests ==
  \/ \E m \in Others : Welcome(m)
  \/ \E m \in Member : Revoke(m) \/ Promote(m)
  \/ Sweep

Serve == \E w \in waiting : EnterWaiting(w) \/ Refuse(w)

Outside ==
  \/ \E w \in Writer : Load(w)
  \/ \E h \in held : GiveUp(h)
  \/ LoadRevocations

Finish ==
  \/ \E h \in held : PutBack(h) \/ \E r \in PeerRoster : MergeRoster(h, r)
  \/ \E l \in fetching, ids \in SUBSET Member : MergeRevocations(l, ids)

Commands ==
  \/ Leave \/ BeginJoin
  \/ \E c \in Clan : Create(c)

Answer == \E c \in Clan, r \in PeerRoster : EndJoin(c, r)

Next ==
  \/ Tickets \/ Requests \/ Serve \/ Inside \/ DeliverFails \/ SaveFails
  \/ Outside \/ Finish \/ Commands \/ Answer
  \/ Crash \/ Restart \/ Day

Spec == Init /\ [][Next]_vars

\* Goroutines run, calls return or time out, the daemon is restarted when it
\* exits, time passes and the sweep ticks.  Nothing forces a request.
Fairness ==
  /\ WF_vars(Serve) /\ WF_vars(Inside) /\ WF_vars(Finish) /\ WF_vars(Answer)
  /\ WF_vars(Restart) /\ WF_vars(Day) /\ WF_vars(Sweep)

FairSpec == Spec /\ Fairness

-----------------------------------------------------------------------------
TypeOK ==
  /\ file \in ClanFile /\ revs \in RevList
  /\ serving \in BOOLEAN /\ deny \subseteq Member
  /\ invite \in [Token -> [state : {"none", "live", "used", "expired", "lost"},
                           clan : Clan \cup {None}]]
  /\ knock \in [Knocks -> [state : {"none", "pending", "accepted", "denied",
                                    "expired", "lost"},
                           who : Member \cup {None}]]
  /\ waiting \subseteq Request
  /\ mu \in Section
  /\ held \subseteq [by : Writer, snap : ClanFile]
  /\ fetching \subseteq RevList
  /\ joining \in BOOLEAN
  /\ ops \in 0..MaxOps /\ faults \in 0..MaxFaults
  /\ uses \in [Ticket -> Nat] /\ grants \subseteq Ticket \X Clan
  /\ outside \in BOOLEAN /\ left \in BOOLEAN

\* "Single-use: redemption consumes it", and "ensures only one concurrent
\* accept wins": however requests, decisions, expiry and restarts interleave, a
\* ticket hands out the key at most once, and a knock that was not accepted
\* never does.
TicketsAdmitOnce ==
  /\ \A t \in Ticket : uses[t] <= 1
  /\ \A k \in Knocks : uses[k] > 0 => knock[k].state = "accepted"

\* A token hands out the key of the Clan it was minted for, though its issuer
\* may have left that Clan and joined another while the request waited.
TokensKeepTheirClan ==
  \A t \in Token, c \in Clan : <<t, c>> \in grants => invite[t].clan = c

\* The step saves over a change it has not seen: a section outside Service.mu
\* whose copy is not the file, a join whose check is out of date, or a section
\* inside that was overtaken by one outside.
Overtakes ==
  \/ \E h \in held \ held' : h.snap # file
  \/ joining /\ ~joining' /\ file.id # None
  \/ mu.op # "free" /\ mu' # mu /\ outside

\* A roster entry loses rank only to a fresh admission of that member, to the
\* sweep if it is a zombie, to a change of Clan, or to a writer that Service.mu
\* does not cover; and a member that left comes back only by joining.
KeepsRank ==
  \/ Overtakes
  \/ file'.id # file.id /\ left' = (file'.id = None)
  \/ /\ file'.id = file.id
     /\ \A m \in Member : Rank(file'.ros[m]) < Rank(file.ros[m]) =>
          \/ mu.who = m /\ mu.op \in {"redeem", "welcome", "delivered"}
          \/ mu.op = "sweep" /\ file.ros[m] = "zombie"

NoBackslide == [][KeepsRank]_vars

\* spec 3.1: nobody stays "admitted" for ever; the entry is promoted, revoked or
\* swept, across restarts and whatever the other writers put back.
AdmittedSettles ==
  \A m \in Member :
    (file.id # None /\ file.ros[m] \in Admitted) ~>
      (file.id = None \/ file.ros[m] \notin Admitted)

-----------------------------------------------------------------------------
\* What the comments say, and the code does not do.

\* cmdLeave: "daemon may still be running but will pick up the change on its
\* next state read".  After a leave clan.json names no Clan until a join.
LeaveSticks == left => file.id = None

\* rostersync/sync.go calls the revocations "an append-only list".
RevocationsKept == [][revs.ids \subseteq revs'.ids]_vars
=============================================================================
