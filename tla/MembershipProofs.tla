-------------------------- MODULE MembershipProofs --------------------------
(***************************************************************************)
(* Proofs about Membership for any set of members, Clans and tickets, any  *)
(* number of requests and any number of faults.                            *)
(***************************************************************************)
EXTENDS Membership, TLAPS

\* Every "revoke" in progress has paid for the entry it may add.
Paid(n) == IF mu.op \in {"revoke", "append"} THEN n + 1 <= ops ELSE n <= ops

\* No list has more repeated entries than there were requests.
DupBound ==
  /\ Paid(revs.dup)
  /\ mu.op = "append" => mu.list.dup + 1 <= ops

\* An operation inside Service.mu has an active Clan and, but for the sweep, a
\* member it is about; a knock that can be accepted has a joiner.
SectionInv ==
  /\ \A k \in Knocks : knock[k].state = "pending" => knock[k].who \in Member
  /\ mu.op \notin {"free", "append"} => mu.snap.id \in Clan
  /\ mu.op \notin {"free", "sweep"} => mu.who \in Member
  /\ mu.op \in {"redeem", "accept"} => mu.ticket \in Ticket

TypeInv == TypeOK /\ DupBound /\ SectionInv

USE DEF fileVars, ticketVars, sectionVars, boundVars, grantVars, ghostVars

LEMMA FreeType == Free \in Section /\ NoClan \in ClanFile /\ Blank \in Roster
BY LimitAssumption DEF Free, Section, NoClan, ClanFile, NoRevs, RevList, Blank, Roster, Standing

\* The roster operators keep the roster's type.
LEMMA RosterType ==
  ASSUME NEW ros \in Roster
  PROVE  /\ \A m \in Member : Upsert(ros, m) \in Roster
         /\ \A other \in Roster : MergeRosterStates(ros, other) \in Roster
         /\ Purge(ros) \in Roster
BY DEF Roster, Standing, Upsert, MergeRosterStates, Purge

LEMMA TypeInit == Init => TypeInv
<1> SUFFICES ASSUME Init PROVE TypeInv
  OBVIOUS
<1>1. [Blank EXCEPT ![Self] = "active"] \in Roster
  BY MemberAssumption DEF Blank, Roster, Standing
<1>2. TypeOK
  <2>1. file \in ClanFile /\ revs \in RevList
    BY <1>1, LimitAssumption DEF Init, InitWith, ClanFile, RevList, NoRevs
  <2>2. serving \in BOOLEAN /\ joining \in BOOLEAN /\ outside \in BOOLEAN /\ left \in BOOLEAN
    BY DEF Init, InitWith
  <2>3. /\ deny \subseteq Member /\ waiting \subseteq Request /\ mu \in Section
        /\ held \subseteq [by : Writer, snap : ClanFile] /\ fetching \subseteq RevList
        /\ grants \subseteq Ticket \X Clan
    BY FreeType DEF Init, InitWith
  <2>4. /\ invite \in [Token -> [state : {"none", "live", "used", "expired", "lost"},
                                 clan : Clan \cup {None}]]
        /\ knock \in [Knocks -> [state : {"none", "pending", "accepted", "denied",
                                          "expired", "lost"},
                                 who : Member \cup {None}]]
    BY DEF Init, InitWith
  <2>5. ops \in 0..MaxOps /\ faults \in 0..MaxFaults /\ uses \in [Ticket -> Nat]
    BY LimitAssumption DEF Init, InitWith
  <2> QED
    BY <2>1, <2>2, <2>3, <2>4, <2>5 DEF TypeOK
<1>3. DupBound /\ SectionInv
  BY DEF Init, InitWith, DupBound, Paid, SectionInv, NoRevs, Free
<1> QED
  BY <1>2, <1>3 DEF TypeInv

\* Entering Service.mu.
LEMMA EnterType ==
  ASSUME TypeInv, NEW op \in {"redeem", "accept", "welcome", "revoke", "promote", "sweep"},
         NEW m \in Member \cup {None}, NEW t \in Ticket \cup {None}, Enter(op, m, t),
         op # "sweep" => m \in Member, op \in {"redeem", "accept"} => t \in Ticket
  PROVE  /\ mu' \in Section /\ outside' \in BOOLEAN
         /\ mu'.op = op /\ mu'.snap = file /\ mu'.snap.id \in Clan
         /\ mu'.op \notin {"free", "sweep"} => mu'.who \in Member
         /\ mu'.op \in {"redeem", "accept"} => mu'.ticket \in Ticket
<1>1. mu' = [op |-> op, who |-> m, ticket |-> t, snap |-> file, list |-> NoRevs]
  BY DEF Enter, Free
<1>2. NoRevs \in RevList
  BY LimitAssumption DEF NoRevs, RevList
<1>3. file \in ClanFile /\ file.id \in Clan
  BY DEF Enter, TypeInv, TypeOK, ClanFile
<1>4. outside' \in BOOLEAN
  BY DEF Enter
<1> QED
  BY <1>1, <1>2, <1>3, <1>4 DEF Section

\* A request counts, and leaves room for the entries it may add.
LEMMA SpendType ==
  ASSUME TypeInv, Spend
  PROVE  /\ ops' \in 0..MaxOps /\ faults' \in 0..MaxFaults
         /\ UNCHANGED <<revs, mu>> => DupBound'
         /\ revs.dup + 1 <= ops' /\ revs.dup <= ops'
<1>1. ops \in Nat /\ ops' = ops + 1 /\ ops + 1 <= MaxOps /\ faults' = faults
  BY LimitAssumption DEF Spend, TypeInv, TypeOK
<1>2. revs.dup \in Nat /\ mu.list.dup \in Nat
  BY LimitAssumption DEF TypeInv, TypeOK, RevList, Section
<1>3. revs.dup <= ops
  BY <1>1, <1>2 DEF TypeInv, DupBound, Paid
<1>4. UNCHANGED <<revs, mu>> => DupBound'
  BY <1>1, <1>2 DEF TypeInv, DupBound, Paid
<1> QED
  BY <1>1, <1>2, <1>3, <1>4, LimitAssumption DEF TypeInv, TypeOK

\* So does a fault.
LEMMA FaultType ==
  ASSUME TypeInv, Fault
  PROVE  ops' = ops /\ faults' \in 0..MaxFaults
BY LimitAssumption DEF Fault, TypeInv, TypeOK

\* Leaving Service.mu.
LEMMA FreeInv ==
  ASSUME TypeInv, mu' = Free, ops' = ops, UNCHANGED <<revs, knock>>
  PROVE  DupBound' /\ SectionInv'
BY DEF TypeInv, TypeOK, DupBound, Paid, SectionInv, Free, RevList

\* Handing out a key.
LEMMA HandType ==
  ASSUME TypeInv, NEW t \in Ticket, NEW c \in Clan, Hand(t, c)
  PROVE  uses' \in [Ticket -> Nat] /\ grants' \subseteq Ticket \X Clan
BY DEF TypeInv, TypeOK, Hand

\* A save by the holder of Service.mu.
LEMMA SaveType ==
  ASSUME TypeInv, NEW ros \in Roster, mu.op \notin {"free", "append"}, SaveInside(ros)
  PROVE  file' \in ClanFile /\ file'.ros = ros /\ file'.id = mu.snap.id
         /\ outside' = outside /\ left' = left
BY DEF TypeInv, TypeOK, SaveInside, ClanFile, Section

\* Ticket steps keep the types.
LEMMA TicketsType == TypeInv /\ Tickets => TypeInv'
<1> SUFFICES ASSUME TypeInv, Tickets PROVE TypeInv'
  OBVIOUS
<1> USE DEF TypeInv
<1>1. ASSUME NEW t \in Token, IssueInvite(t) PROVE TypeInv'
  <2>1. DupBound' /\ ops' \in 0..MaxOps /\ faults' \in 0..MaxFaults
    BY <1>1, SpendType DEF IssueInvite
  <2> QED
    BY <1>1, <2>1 DEF IssueInvite, TypeOK, SectionInv, ClanFile
<1>2. ASSUME NEW t \in Token, NEW m \in Others, Redeem(t, m) PROVE TypeInv'
  BY <1>2 DEF Redeem, TypeOK, DupBound, Paid, SectionInv, Request, Others, Ticket
<1>3. ASSUME NEW k \in Knocks, KnockAccept(k) PROVE TypeInv'
  BY <1>3 DEF KnockAccept, Consumable, TypeOK, DupBound, Paid, SectionInv, Request, Ticket
<1>4. ASSUME NEW k \in Knocks, KnockDeny(k) PROVE TypeInv'
  BY <1>4 DEF KnockDeny, TypeOK, DupBound, Paid, SectionInv
<1>5. ASSUME NEW k \in Knocks, NEW m \in Others, Knock(k, m) PROVE TypeInv'
  <2>1. DupBound' /\ ops' \in 0..MaxOps /\ faults' \in 0..MaxFaults
    BY <1>5, SpendType DEF Knock
  <2> QED
    BY <1>5, <2>1 DEF Knock, TypeOK, SectionInv, Others
<1>6. CASE Expire
  <2>1. ASSUME NEW t \in Token, UNCHANGED knock,
               invite' = [invite EXCEPT ![t].state = "expired"]
        PROVE  TypeInv'
    BY <1>6, <2>1 DEF Expire, TypeOK, DupBound, Paid, SectionInv
  <2>2. ASSUME NEW k \in Knocks, UNCHANGED invite,
               knock' = [knock EXCEPT ![k].state = "expired"]
        PROVE  TypeInv'
    BY <1>6, <2>2 DEF Expire, TypeOK, DupBound, Paid, SectionInv
  <2> QED
    BY <1>6, <2>1, <2>2 DEF Expire
<1> QED
  BY <1>1, <1>2, <1>3, <1>4, <1>5, <1>6 DEF Tickets

\* So does entering Service.mu.
LEMMA EntersType == TypeInv /\ (Requests \/ Serve) => TypeInv'
<1> SUFFICES ASSUME TypeInv, Requests \/ Serve PROVE TypeInv'
  OBVIOUS
<1> USE DEF Others
<1>1. ASSUME NEW m \in Others, Welcome(m) PROVE TypeInv'
  <2>1. Enter("welcome", m, None) /\ Spend
    BY <1>1 DEF Welcome
  <2>2. DupBound'
    BY <1>1, <2>1, EnterType, SpendType DEF Welcome, DupBound, Paid
  <2> QED
    BY <1>1, <2>1, <2>2, EnterType, SpendType DEF Welcome, TypeInv, TypeOK, SectionInv
<1>2. ASSUME NEW m \in Member, Revoke(m) PROVE TypeInv'
  <2>1. Enter("revoke", m, None) /\ Spend
    BY <1>2 DEF Revoke
  <2>2. DupBound'
    BY <1>2, <2>1, EnterType, SpendType DEF Revoke, DupBound, Paid
  <2> QED
    BY <1>2, <2>1, <2>2, EnterType, SpendType DEF Revoke, TypeInv, TypeOK, SectionInv
<1>3. ASSUME NEW m \in Member, Promote(m) PROVE TypeInv'
  <2>1. Enter("promote", m, None) /\ mu.op = "free"
    BY <1>3 DEF Promote, Enter
  <2>2. DupBound'
    BY <1>3, <2>1, EnterType DEF Promote, DupBound, Paid, TypeInv
  <2> QED
    BY <1>3, <2>1, <2>2, EnterType DEF Promote, TypeInv, TypeOK, SectionInv
<1>4. CASE Sweep
  <2>1. Enter("sweep", None, None) /\ mu.op = "free"
    BY <1>4 DEF Sweep, Enter
  <2>2. DupBound'
    BY <1>4, <2>1, EnterType DEF Sweep, DupBound, Paid, TypeInv
  <2> QED
    BY <1>4, <2>1, <2>2, EnterType DEF Sweep, TypeInv, TypeOK, SectionInv
<1>5. ASSUME NEW w \in waiting, EnterWaiting(w) PROVE TypeInv'
  <2>1. /\ w.op \in {"redeem", "accept"} /\ w.who \in Member /\ w.ticket \in Ticket
        /\ Enter(w.op, w.who, w.ticket) /\ mu.op = "free"
    BY <1>5 DEF EnterWaiting, Enter, TypeInv, TypeOK, Request
  <2>2. DupBound'
    BY <1>5, <2>1, EnterType DEF EnterWaiting, DupBound, Paid, TypeInv
  <2> QED
    BY <1>5, <2>1, <2>2, EnterType DEF EnterWaiting, TypeInv, TypeOK, SectionInv
<1>6. ASSUME NEW w \in waiting, Refuse(w) PROVE TypeInv'
  BY <1>6 DEF Refuse, TypeInv, TypeOK, DupBound, Paid, SectionInv
<1> QED
  BY <1>1, <1>2, <1>3, <1>4, <1>5, <1>6 DEF Requests, Serve

\* So does the rest of an operation inside Service.mu, and its failure.
LEMMA InsideType == TypeInv /\ (Inside \/ DeliverFails \/ SaveFails) => TypeInv'
<1> SUFFICES ASSUME TypeInv, Inside \/ DeliverFails \/ SaveFails PROVE TypeInv'
  OBVIOUS
<1>0. mu.snap \in ClanFile /\ mu.snap.ros \in Roster
  BY DEF TypeInv, TypeOK, Section, ClanFile
<1>1. CASE Deliver
  <2>1. /\ mu.op = "accept" /\ mu' = [mu EXCEPT !.op = "delivered"]
        /\ mu.ticket \in Ticket /\ mu.snap.id \in Clan /\ Hand(mu.ticket, mu.snap.id)
    BY <1>1 DEF Deliver, TypeInv, SectionInv
  <2>2. mu' \in Section /\ mu'.op = "delivered" /\ mu'.snap = mu.snap /\ mu'.who = mu.who
    BY <2>1 DEF TypeInv, TypeOK, Section
  <2>3. DupBound' /\ SectionInv'
    BY <1>1, <2>1, <2>2 DEF Deliver, TypeInv, DupBound, Paid, SectionInv
  <2> QED
    BY <1>1, <2>1, <2>2, <2>3, HandType DEF Deliver, TypeInv, TypeOK
<1>2. CASE DeliverFails
  <2>1. mu.ticket \in Ticket /\ mu.snap.id \in Clan
    BY <1>2 DEF DeliverFails, TypeInv, SectionInv
  <2>2. uses' \in [Ticket -> Nat] /\ grants' \subseteq Ticket \X Clan
    BY <1>2, <2>1, HandType DEF DeliverFails, TypeInv, TypeOK
  <2>3. DupBound' /\ SectionInv'
    BY <1>2, FaultType, FreeInv DEF DeliverFails
  <2> QED
    BY <1>2, <2>2, <2>3, FaultType, FreeType DEF DeliverFails, TypeInv, TypeOK
<1>3. CASE Admit
  <2>1. /\ Upsert(mu.snap.ros, mu.who) \in Roster
        /\ SaveInside(Upsert(mu.snap.ros, mu.who)) /\ mu.op \notin {"free", "append"}
    BY <1>0, <1>3, RosterType DEF Admit, TypeInv, SectionInv
  <2>2. uses' \in [Ticket -> Nat] /\ grants' \subseteq Ticket \X Clan
    BY <1>3, HandType DEF Admit, TypeInv, TypeOK, SectionInv
  <2>3. DupBound' /\ SectionInv'
    BY <1>3, FreeInv DEF Admit
  <2> QED
    BY <1>3, <2>1, <2>2, <2>3, SaveType, FreeType DEF Admit, TypeInv, TypeOK
<1>4. CASE MarkRevoked
  <2>1. /\ [mu.snap.ros EXCEPT ![mu.who] = "revoked"] \in Roster
        /\ SaveInside([mu.snap.ros EXCEPT ![mu.who] = "revoked"]) /\ mu.op = "revoke"
        /\ mu.who \in Member
    BY <1>0, <1>4 DEF MarkRevoked, TypeInv, SectionInv, Roster, Standing
  <2>2. mu' = [op |-> "append", who |-> mu.who, ticket |-> None, snap |-> NoClan,
               list |-> revs]
    BY <1>4 DEF MarkRevoked, Free
  <2>3. mu' \in Section
    BY <2>1, <2>2, FreeType DEF TypeInv, TypeOK, Section
  <2>4. DupBound' /\ SectionInv'
    BY <1>4, <2>1, <2>2 DEF MarkRevoked, TypeInv, DupBound, Paid, SectionInv
  <2> QED
    BY <1>4, <2>1, <2>3, <2>4, SaveType DEF MarkRevoked, TypeInv, TypeOK
<1>5. CASE AppendRevocation
  <2>1. mu.op = "append" /\ mu.who \in Member /\ mu.list \in RevList
    BY <1>5 DEF AppendRevocation, TypeInv, TypeOK, SectionInv, Section
  <2>2. ops \in Nat /\ ops <= MaxOps /\ mu.list.dup \in Nat /\ mu.list.dup + 1 <= ops
    BY <2>1, LimitAssumption DEF TypeInv, TypeOK, DupBound, RevList
  <2>3. revs' \in RevList /\ revs'.dup <= ops
    BY <1>5, <2>1, <2>2, LimitAssumption DEF AppendRevocation, AddEntry, RevList
  <2>4. DupBound' /\ SectionInv'
    BY <1>5, <2>3 DEF AppendRevocation, TypeInv, DupBound, Paid, SectionInv, Free
  <2> QED
    BY <1>5, <2>3, <2>4, FreeType DEF AppendRevocation, TypeInv, TypeOK
<1>6. CASE MakeActive
  <2>1. /\ [mu.snap.ros EXCEPT ![mu.who] = "active"] \in Roster
        /\ SaveInside([mu.snap.ros EXCEPT ![mu.who] = "active"]) /\ mu.op = "promote"
    BY <1>0, <1>6 DEF MakeActive, TypeInv, SectionInv, Roster, Standing
  <2>2. DupBound' /\ SectionInv'
    BY <1>6, FreeInv DEF MakeActive
  <2> QED
    BY <1>6, <2>1, <2>2, SaveType, FreeType DEF MakeActive, TypeInv, TypeOK
<1>7. CASE PurgeZombies
  <2>1. /\ Purge(mu.snap.ros) \in Roster
        /\ SaveInside(Purge(mu.snap.ros)) /\ mu.op = "sweep"
    BY <1>0, <1>7, RosterType DEF PurgeZombies
  <2>2. DupBound' /\ SectionInv'
    BY <1>7, FreeInv DEF PurgeZombies
  <2> QED
    BY <1>7, <2>1, <2>2, SaveType, FreeType DEF PurgeZombies, TypeInv, TypeOK
<1>8. CASE SaveFails
  BY <1>8, FaultType, FreeInv, FreeType DEF SaveFails, TypeInv, TypeOK
<1> QED
  BY <1>1, <1>2, <1>3, <1>4, <1>5, <1>6, <1>7, <1>8 DEF Inside

\* So do the writers outside Service.mu and the commands.
LEMMA OutsideType == TypeInv /\ (Outside \/ Finish \/ Commands \/ Answer) => TypeInv'
<1> SUFFICES ASSUME TypeInv, Outside \/ Finish \/ Commands \/ Answer PROVE TypeInv'
  OBVIOUS
<1>0. /\ \A h \in held : h.snap \in ClanFile /\ h.snap.ros \in Roster
      /\ \A l \in fetching : l \in RevList
      /\ file \in ClanFile
  BY DEF TypeInv, TypeOK, ClanFile
<1>1. ASSUME NEW w \in Writer, Load(w) PROVE TypeInv'
  <2>1. [by |-> w, snap |-> file] \in [by : Writer, snap : ClanFile]
    BY <1>0
  <2> QED
    BY <1>1, <2>1, SpendType DEF Load, TypeInv, TypeOK, SectionInv
<1>2. ASSUME NEW h \in held, GiveUp(h) PROVE TypeInv'
  BY <1>2, FaultType DEF GiveUp, TypeInv, TypeOK, DupBound, Paid, SectionInv
<1>3. CASE LoadRevocations
  BY <1>3, SpendType DEF LoadRevocations, TypeInv, TypeOK, SectionInv
<1>4. ASSUME NEW h \in held, PutBack(h) PROVE TypeInv'
  BY <1>0, <1>4 DEF PutBack, SaveOutside, TypeInv, TypeOK, DupBound, Paid, SectionInv
<1>5. ASSUME NEW h \in held, NEW r \in PeerRoster, MergeRoster(h, r) PROVE TypeInv'
  <2>1. MergeRosterStates(h.snap.ros, r) \in Roster
    BY <1>0, PeerAssumption, RosterType
  <2>2. [h.snap EXCEPT !.ros = MergeRosterStates(h.snap.ros, r)] \in ClanFile
    BY <1>0, <2>1 DEF ClanFile
  <2>3. file' \in ClanFile /\ outside' \in BOOLEAN
    BY <1>0, <1>5, <2>2 DEF MergeRoster, SaveOutside, TypeInv, TypeOK
  <2> QED
    BY <1>5, <2>3 DEF MergeRoster, TypeInv, TypeOK, DupBound, Paid, SectionInv
<1>6. ASSUME NEW l \in fetching, NEW ids \in SUBSET Member, MergeRevocations(l, ids)
      PROVE  TypeInv'
  <2>1. MergeRevs(l, ids) \in RevList /\ MergeRevs(l, ids).dup = 0
    BY <1>0, LimitAssumption DEF MergeRevs, RevList
  <2>2. revs' \in RevList /\ deny' \subseteq Member /\ (revs' = revs \/ revs'.dup = 0)
    BY <1>6, <2>1 DEF MergeRevocations, TypeInv, TypeOK, RevList
  <2>3. DupBound'
    <3>1. ops \in Nat /\ revs.dup \in Nat
      BY LimitAssumption DEF TypeInv, TypeOK, RevList
    <3> QED
      BY <1>6, <2>2, <3>1 DEF MergeRevocations, TypeInv, DupBound, Paid
  <2> QED
    BY <1>6, <2>2, <2>3 DEF MergeRevocations, TypeInv, TypeOK, SectionInv
<1>7. CASE Leave
  BY <1>7, SpendType, FreeType DEF Leave, SaveOutside, TypeInv, TypeOK, SectionInv
<1>8. CASE BeginJoin
  BY <1>8, SpendType DEF BeginJoin, TypeInv, TypeOK, SectionInv
<1>9. ASSUME NEW c \in Clan, Create(c) PROVE TypeInv'
  <2>1. [id |-> c, ros |-> [Blank EXCEPT ![Self] = "active"]] \in ClanFile
    BY MemberAssumption DEF ClanFile, Blank, Roster, Standing
  <2> QED
    BY <1>9, <2>1, SpendType DEF Create, SaveOutside, TypeInv, TypeOK, SectionInv
<1>10. ASSUME NEW c \in Clan, NEW r \in PeerRoster, EndJoin(c, r) PROVE TypeInv'
  <2>1. [id |-> c, ros |-> r] \in ClanFile
    BY PeerAssumption DEF ClanFile
  <2> QED
    BY <1>10, <2>1 DEF EndJoin, SaveOutside, TypeInv, TypeOK, DupBound, Paid, SectionInv
<1> QED
  BY <1>1, <1>2, <1>3, <1>4, <1>5, <1>6, <1>7, <1>8, <1>9, <1>10
     DEF Outside, Finish, Commands, Answer

\* So do the daemon's start and the passing of time.
LEMMA LifeType == TypeInv /\ (Crash \/ Restart \/ Day) => TypeInv'
<1> SUFFICES ASSUME TypeInv, Crash \/ Restart \/ Day PROVE TypeInv'
  OBVIOUS
<1>1. ASSUME Boot, ops' = ops, faults' \in 0..MaxFaults PROVE TypeInv'
  <2>1. serving' \in BOOLEAN
    BY <1>1 DEF Boot
  <2>2. deny' \subseteq Member
    BY <1>1 DEF Boot, TypeInv, TypeOK, RevList
  <2>3. invite' \in [Token -> [state : {"none", "live", "used", "expired", "lost"},
                               clan : Clan \cup {None}]]
    BY <1>1 DEF Boot, TypeInv, TypeOK
  <2>4. knock' \in [Knocks -> [state : {"none", "pending", "accepted", "denied",
                                        "expired", "lost"},
                               who : Member \cup {None}]]
    BY <1>1 DEF Boot, TypeInv, TypeOK
  <2>5. \A k \in Knocks : knock'[k].state # "pending"
    BY <1>1 DEF Boot, TypeInv, TypeOK
  <2>6. DupBound' /\ SectionInv'
    BY <1>1, <2>5 DEF Boot, TypeInv, TypeOK, DupBound, Paid, SectionInv, Free, RevList
  <2> QED
    BY <1>1, <2>1, <2>2, <2>3, <2>4, <2>6, FreeType DEF Boot, TypeInv, TypeOK
<1>2. CASE Day
  <2>1. file' \in ClanFile
    BY <1>2 DEF Day, TypeInv, TypeOK, ClanFile, Roster, Standing
  <2> QED
    BY <1>2, <2>1 DEF Day, TypeInv, TypeOK, DupBound, Paid, SectionInv
<1> QED
  BY <1>1, <1>2, FaultType DEF Crash, Restart, TypeInv, TypeOK

\* Every step keeps the types.
LEMMA TypeStep == TypeInv /\ [Next]_vars => TypeInv'
<1> SUFFICES ASSUME TypeInv, [Next]_vars PROVE TypeInv'
  OBVIOUS
<1>1. CASE UNCHANGED vars
  BY <1>1 DEF vars, TypeInv, TypeOK, DupBound, Paid, SectionInv
<1> QED
  BY <1>1, TicketsType, EntersType, InsideType, OutsideType, LifeType DEF Next

\* Type correctness of Membership: every variable keeps its type, and the lists
\* and counters their bounds.
THEOREM MembershipTypeCorrect == Spec => []TypeOK
<1>1. Spec => []TypeInv
  BY TypeInit, TypeStep, PTL DEF Spec
<1>2. TypeInv => TypeOK
  BY DEF TypeInv
<1> QED
  BY <1>1, <1>2, PTL

-----------------------------------------------------------------------------
\* The tickets that were redeemed, or accepted.
Consumed ==
  {t \in Token : invite[t].state = "used"} \cup
  {k \in Knocks : knock[k].state = "accepted"}

\* The key is handed out for consumed tickets only, once; the one request that
\* consumed a ticket waits for Service.mu, is inside, or is done.
TicketInv ==
  /\ \A t \in Ticket : uses[t] <= 1
  /\ \A t \in Ticket : t \notin Consumed => uses[t] = 0
  /\ \A w \in waiting : /\ w.ticket \in Consumed /\ uses[w.ticket] = 0
                        /\ w.ticket # mu.ticket
                        /\ w.op = "redeem" <=> w.ticket \in Token
  /\ \A w, x \in waiting : w.ticket = x.ticket => w = x
  /\ mu.op \in {"redeem", "accept"} => /\ uses[mu.ticket] = 0
                                       /\ mu.op = "redeem" <=> mu.ticket \in Token
  /\ IF mu.op \in {"redeem", "accept", "delivered"} THEN mu.ticket \in Consumed
                                                   ELSE mu.ticket = None

\* The Clan of a token is settled when it is minted.
ClanInv ==
  /\ \A t \in Token, c \in Clan : <<t, c>> \in grants => t \in Consumed
  /\ mu.op = "redeem" => invite[mu.ticket].clan = mu.snap.id
  /\ TokensKeepTheirClan

GrantInv == TypeInv /\ TicketInv /\ ClanInv

\* A step that has nothing to do with tickets.
Quiet ==
  /\ UNCHANGED <<invite, knock, waiting, uses, grants>>
  /\ mu' = mu \/ (mu'.ticket = None /\ mu'.op \notin {"redeem", "accept", "delivered"})

LEMMA QuietStep == GrantInv /\ Quiet => TicketInv' /\ ClanInv'
<1> SUFFICES ASSUME GrantInv, Quiet PROVE TicketInv' /\ ClanInv'
  OBVIOUS
<1>1. \A w \in waiting : w.ticket # None
  BY NoneAssumption DEF GrantInv, TypeInv, TypeOK, Request, Ticket
<1>2. TicketInv'
  BY <1>1 DEF GrantInv, Quiet, TicketInv, Consumed
<1>3. ClanInv'
  BY DEF GrantInv, Quiet, ClanInv, Consumed, TokensKeepTheirClan
<1> QED
  BY <1>2, <1>3

\* Tickets are minted, consumed, refused and time out.
LEMMA TicketsStep == GrantInv /\ Tickets => TicketInv' /\ ClanInv'
<1> SUFFICES ASSUME GrantInv, Tickets PROVE TicketInv' /\ ClanInv'
  OBVIOUS
<1>0. /\ \A w \in waiting : w.ticket \in Ticket
      /\ Token \cap Knocks = {} /\ Ticket = Token \cup Knocks
      /\ mu.ticket \in Ticket \cup {None} /\ None \notin Ticket
      /\ \A t \in Token : t # None
  BY TicketAssumption, NoneAssumption
     DEF GrantInv, TypeInv, TypeOK, Request, Section, Ticket
<1>1. ASSUME NEW t \in Token, IssueInvite(t) PROVE TicketInv' /\ ClanInv'
  <2>1. /\ invite[t].state = "none" /\ invite'[t].state = "live"
        /\ \A u \in Token : u # t => invite'[u] = invite[u]
        /\ UNCHANGED <<knock, waiting, mu, uses, grants>>
    BY <1>1 DEF IssueInvite, GrantInv, TypeInv, TypeOK
  <2>2. t \notin Consumed /\ Consumed' = Consumed
    BY <1>0, <2>1 DEF Consumed
  <2>3. TicketInv'
    BY <1>0, <2>1, <2>2 DEF GrantInv, TicketInv
  <2>4. ClanInv'
    BY <1>0, <2>1, <2>2 DEF GrantInv, ClanInv, TokensKeepTheirClan, TicketInv
  <2> QED
    BY <2>3, <2>4
<1>2. ASSUME NEW t \in Token, NEW m \in Others, Redeem(t, m) PROVE TicketInv' /\ ClanInv'
  <2>1. /\ invite[t].state = "live" /\ invite'[t].state = "used"
        /\ \A u \in Token : u # t => invite'[u] = invite[u]
        /\ \A u \in Token : invite'[u].clan = invite[u].clan
        /\ waiting' = waiting \cup {[op |-> "redeem", who |-> m, ticket |-> t]}
        /\ UNCHANGED <<knock, mu, uses, grants>>
    BY <1>2 DEF Redeem, GrantInv, TypeInv, TypeOK
  <2>2. t \notin Consumed /\ Consumed' = Consumed \cup {t}
    BY <1>0, <2>1 DEF Consumed
  <2>3. TicketInv'
    <3>1. /\ uses[t] = 0 /\ t # mu.ticket
          /\ \A w \in waiting : w.ticket # t
      BY <1>0, <2>2 DEF GrantInv, TicketInv
    <3>2. \A w \in waiting' : w \in waiting \/ (w.op = "redeem" /\ w.ticket = t)
      BY <2>1
    <3>3. \A w \in waiting' : /\ w.ticket \in Consumed' /\ uses'[w.ticket] = 0
                              /\ w.ticket # mu'.ticket
                              /\ w.op = "redeem" <=> w.ticket \in Token
      BY <1>0, <2>1, <2>2, <3>1, <3>2 DEF GrantInv, TicketInv
    <3>4. \A w, x \in waiting' : w.ticket = x.ticket => w = x
      BY <2>1, <3>1 DEF GrantInv, TicketInv
    <3> QED
      BY <2>1, <2>2, <3>3, <3>4 DEF GrantInv, TicketInv
  <2>4. ClanInv'
    BY <1>0, <2>1, <2>2 DEF GrantInv, ClanInv, TokensKeepTheirClan, TicketInv
  <2> QED
    BY <2>3, <2>4
<1>3. ASSUME NEW k \in Knocks, KnockAccept(k) PROVE TicketInv' /\ ClanInv'
  <2>1. /\ knock[k].state = "pending" /\ knock'[k].state = "accepted"
        /\ \A u \in Knocks : u # k => knock'[u] = knock[u]
        /\ waiting' = waiting \cup {[op |-> "accept", who |-> knock[k].who, ticket |-> k]}
        /\ UNCHANGED <<invite, mu, uses, grants>>
    BY <1>3 DEF KnockAccept, Consumable, GrantInv, TypeInv, TypeOK
  <2>2. k \notin Consumed /\ Consumed' = Consumed \cup {k}
    BY <1>0, <2>1 DEF Consumed
  <2>3. TicketInv'
    <3>1. /\ uses[k] = 0 /\ k # mu.ticket
          /\ \A w \in waiting : w.ticket # k
      BY <1>0, <2>2 DEF GrantInv, TicketInv
    <3>2. \A w \in waiting' : w \in waiting \/ (w.op = "accept" /\ w.ticket = k)
      BY <2>1
    <3>3. \A w \in waiting' : /\ w.ticket \in Consumed' /\ uses'[w.ticket] = 0
                              /\ w.ticket # mu'.ticket
                              /\ w.op = "redeem" <=> w.ticket \in Token
      BY <1>0, <2>1, <2>2, <3>1, <3>2 DEF GrantInv, TicketInv
    <3>4. \A w, x \in waiting' : w.ticket = x.ticket => w = x
      BY <2>1, <3>1 DEF GrantInv, TicketInv
    <3> QED
      BY <2>1, <2>2, <3>3, <3>4 DEF GrantInv, TicketInv
  <2>4. ClanInv'
    BY <1>0, <2>1, <2>2 DEF GrantInv, ClanInv, TokensKeepTheirClan, TicketInv
  <2> QED
    BY <2>3, <2>4
<1>4. ASSUME UNCHANGED <<waiting, mu, uses, grants>>,
             Consumed' = Consumed,
             \A u \in Token : invite'[u].clan = invite[u].clan
      PROVE  TicketInv' /\ ClanInv'
  <2>1. TicketInv'
    BY <1>0, <1>4 DEF GrantInv, TicketInv
  <2>2. ClanInv'
    BY <1>0, <1>4 DEF GrantInv, ClanInv, TokensKeepTheirClan, TicketInv
  <2> QED
    BY <2>1, <2>2
<1>5. ASSUME NEW k \in Knocks, KnockDeny(k) PROVE TicketInv' /\ ClanInv'
  <2>1. Consumed' = Consumed
    BY <1>0, <1>5 DEF KnockDeny, Consumable, Consumed, GrantInv, TypeInv, TypeOK
  <2> QED
    BY <1>4, <1>5, <2>1 DEF KnockDeny
<1>6. ASSUME NEW k \in Knocks, NEW m \in Others, Knock(k, m) PROVE TicketInv' /\ ClanInv'
  <2>1. Consumed' = Consumed
    BY <1>0, <1>6 DEF Knock, Consumed, GrantInv, TypeInv, TypeOK
  <2> QED
    BY <1>4, <1>6, <2>1 DEF Knock
<1>7. CASE Expire
  <2>1. \A u \in Token : invite'[u].clan = invite[u].clan
    BY <1>7 DEF Expire, GrantInv, TypeInv, TypeOK
  <2>2. ASSUME NEW t \in Token, UNCHANGED knock, invite[t].state = "live",
               invite' = [invite EXCEPT ![t].state = "expired"]
        PROVE  Consumed' = Consumed
    BY <2>2 DEF Consumed, GrantInv, TypeInv, TypeOK
  <2>3. ASSUME NEW k \in Knocks, UNCHANGED invite, knock[k].state = "pending",
               knock' = [knock EXCEPT ![k].state = "expired"]
        PROVE  Consumed' = Consumed
    BY <2>3 DEF Consumed, GrantInv, TypeInv, TypeOK
  <2> QED
    BY <1>4, <1>7, <2>1, <2>2, <2>3 DEF Expire
<1> QED
  BY <1>1, <1>2, <1>3, <1>5, <1>6, <1>7 DEF Tickets

\* A request gets Service.mu, or is refused.
LEMMA ServeStep == GrantInv /\ Serve => TicketInv' /\ ClanInv'
<1> SUFFICES ASSUME GrantInv, NEW w \in waiting, EnterWaiting(w) \/ Refuse(w)
             PROVE  TicketInv' /\ ClanInv'
  BY DEF Serve
<1>0. /\ w \in Request /\ UNCHANGED <<invite, knock, uses, grants>>
      /\ waiting' = waiting \ {w} /\ Consumed' = Consumed
      /\ None \notin Ticket /\ \A x \in waiting : x.ticket \in Ticket
  BY TicketAssumption, NoneAssumption
     DEF GrantInv, TypeInv, TypeOK, Request, Ticket, EnterWaiting, Refuse, Consumed
<1>1. CASE EnterWaiting(w)
  <2>1. /\ mu'.op = w.op /\ mu'.ticket = w.ticket /\ mu'.snap = file
        /\ w.op \in {"redeem", "accept"}
        /\ w.op = "redeem" => invite[w.ticket].clan = file.id
    BY <1>0, <1>1 DEF EnterWaiting, Enter, Free, Valid, Request
  <2>2. TicketInv'
    <3>1. \A x \in waiting' : x.ticket # w.ticket
      BY <1>0 DEF GrantInv, TicketInv
    <3> QED
      BY <1>0, <2>1, <3>1 DEF GrantInv, TicketInv
  <2>3. ClanInv'
    BY <1>0, <2>1 DEF GrantInv, ClanInv, TokensKeepTheirClan
  <2> QED
    BY <2>2, <2>3
<1>2. CASE Refuse(w)
  <2>1. mu' = mu
    BY <1>2 DEF Refuse, sectionVars
  <2>2. TicketInv'
    BY <1>0, <2>1 DEF GrantInv, TicketInv
  <2>3. ClanInv'
    BY <1>0, <2>1 DEF GrantInv, ClanInv, TokensKeepTheirClan
  <2> QED
    BY <2>2, <2>3
<1> QED
  BY <1>1, <1>2

\* The key is handed out: by the holder of Service.mu, for the ticket it consumed,
\* and the section does not do so again.
LEMMA HandStep ==
  ASSUME GrantInv, mu.op \in {"redeem", "accept"}, Hand(mu.ticket, mu.snap.id),
         UNCHANGED ticketVars,
         mu' = Free \/ mu' = [mu EXCEPT !.op = "delivered"]
  PROVE  TicketInv' /\ ClanInv'
<1>0. /\ mu \in Section /\ Consumed' = Consumed /\ None \notin Ticket
      /\ UNCHANGED <<invite, knock, waiting>>
      /\ mu.ticket \in Consumed /\ mu.ticket \in Ticket
      /\ \A x \in waiting : x.ticket \in Ticket
  BY TicketAssumption, NoneAssumption
     DEF GrantInv, TicketInv, TypeInv, TypeOK, Request, Ticket, Consumed, ticketVars
<1>1. /\ uses[mu.ticket] = 0 /\ uses'[mu.ticket] = 1
      /\ \A t \in Ticket : t # mu.ticket => uses'[t] = uses[t]
      /\ grants' = grants \cup {<<mu.ticket, mu.snap.id>>}
  BY <1>0 DEF GrantInv, TicketInv, TypeInv, TypeOK, Hand
<1>2. /\ mu'.op \in {"free", "delivered"}
      /\ mu'.op = "delivered" => mu'.ticket = mu.ticket
      /\ mu'.op = "free" => mu'.ticket = None
  BY <1>0 DEF Free, Section
<1>3. TicketInv'
  <2>1. \A t \in Ticket : uses'[t] <= 1 /\ (t \notin Consumed => uses'[t] = 0)
    BY <1>0, <1>1 DEF GrantInv, TicketInv
  <2>2. \A w \in waiting : /\ w.ticket \in Consumed /\ uses'[w.ticket] = 0
                           /\ w.ticket # mu'.ticket
                           /\ w.op = "redeem" <=> w.ticket \in Token
    BY <1>0, <1>1, <1>2 DEF GrantInv, TicketInv
  <2> QED
    BY <1>0, <1>1, <1>2, <2>1, <2>2 DEF GrantInv, TicketInv
<1>4. ClanInv'
  <2>1. ASSUME NEW t \in Token, NEW c \in Clan, <<t, c>> \in grants'
        PROVE  t \in Consumed /\ invite[t].clan = c
    <3>1. CASE <<t, c>> \in grants
      BY <3>1 DEF GrantInv, ClanInv, TokensKeepTheirClan
    <3>2. CASE t = mu.ticket /\ c = mu.snap.id
      BY <1>0, <3>2 DEF GrantInv, TicketInv, ClanInv
    <3> QED
      BY <1>1, <2>1, <3>1, <3>2
  <2> QED
    BY <1>0, <1>2, <2>1 DEF ClanInv, TokensKeepTheirClan
<1> QED
  BY <1>3, <1>4

\* The holder of Service.mu goes on, or fails.
LEMMA SectionStep ==
  GrantInv /\ (Inside \/ DeliverFails \/ SaveFails) => TicketInv' /\ ClanInv'
<1> SUFFICES ASSUME GrantInv, Inside \/ DeliverFails \/ SaveFails
             PROVE  TicketInv' /\ ClanInv'
  OBVIOUS
<1>1. CASE Deliver
  BY <1>1, HandStep DEF Deliver
<1>2. CASE DeliverFails
  <2>1. CASE Hand(mu.ticket, mu.snap.id)
    BY <1>2, <2>1, HandStep DEF DeliverFails
  <2>2. CASE UNCHANGED grantVars
    BY <1>2, <2>2, QuietStep DEF DeliverFails, Quiet, ticketVars, grantVars, Free
  <2> QED
    BY <1>2, <2>1, <2>2 DEF DeliverFails
<1>3. CASE Admit /\ mu.op = "redeem"
  BY <1>3, HandStep DEF Admit
<1>4. CASE Admit /\ mu.op # "redeem"
  BY <1>4, QuietStep DEF Admit, Quiet, ticketVars, grantVars, Free
<1>5. CASE SaveFails
  BY <1>5, QuietStep DEF SaveFails, Quiet, ticketVars, grantVars, Free
<1>6. CASE MarkRevoked
  <2>1. mu'.op = "append" /\ mu'.ticket = None
    BY <1>6 DEF MarkRevoked, Free
  <2> QED
    BY <1>6, <2>1, QuietStep DEF MarkRevoked, Quiet, ticketVars, grantVars
<1>7. CASE AppendRevocation \/ MakeActive \/ PurgeZombies
  <2>1. mu' = Free /\ UNCHANGED <<ticketVars, grantVars>>
    BY <1>7 DEF AppendRevocation, MakeActive, PurgeZombies
  <2> QED
    BY <2>1, QuietStep DEF Quiet, ticketVars, grantVars, Free
<1> QED
  BY <1>1, <1>2, <1>3, <1>4, <1>5, <1>6, <1>7 DEF Inside

\* A restart loses every ticket that was not consumed and every request.
LEMMA BootStep == GrantInv /\ Boot => TicketInv' /\ ClanInv'
<1> SUFFICES ASSUME GrantInv, Boot PROVE TicketInv' /\ ClanInv'
  OBVIOUS
<1>1. /\ UNCHANGED <<uses, grants>> /\ waiting' = {}
      /\ mu'.op = "free" /\ mu'.ticket = None
  BY DEF Boot, Free, grantVars
<1>2. \A t \in Token : /\ invite'[t].state = "used" <=> invite[t].state = "used"
                       /\ invite'[t].clan = invite[t].clan
  BY DEF Boot, GrantInv, TypeInv, TypeOK
<1>3. \A k \in Knocks : knock'[k].state = "accepted" <=> knock[k].state = "accepted"
  BY DEF Boot, GrantInv, TypeInv, TypeOK
<1>4. Consumed' = Consumed
  BY <1>2, <1>3 DEF Consumed
<1>5. TicketInv'
  BY <1>1, <1>4 DEF GrantInv, TicketInv
<1>6. ClanInv'
  BY <1>1, <1>2, <1>4 DEF GrantInv, ClanInv, TokensKeepTheirClan
<1> QED
  BY <1>5, <1>6

\* Every step keeps the ticket invariants.
LEMMA GrantStep == GrantInv /\ [Next]_vars => GrantInv'
<1> SUFFICES ASSUME GrantInv, [Next]_vars PROVE TicketInv' /\ ClanInv'
  BY TypeStep DEF GrantInv
<1>1. CASE UNCHANGED vars
  BY <1>1, QuietStep DEF vars, Quiet, ticketVars, sectionVars, grantVars
<1>2. CASE Requests
  BY <1>2, QuietStep DEF Requests, Welcome, Revoke, Promote, Sweep, Enter, Free, Quiet,
     ticketVars, grantVars
<1>3. CASE Outside \/ Finish
  BY <1>3, QuietStep DEF Outside, Finish, Load, GiveUp, LoadRevocations, PutBack,
     MergeRoster, MergeRevocations, Quiet, ticketVars, grantVars
<1>4. CASE Commands \/ Answer \/ Day
  BY <1>4, QuietStep DEF Commands, Answer, Day, Leave, BeginJoin, Create, EndJoin, Quiet,
     ticketVars, sectionVars, grantVars
<1>5. CASE Crash \/ Restart
  BY <1>5, BootStep DEF Crash, Restart
<1> QED
  BY <1>1, <1>2, <1>3, <1>4, <1>5, TicketsStep, ServeStep, SectionStep DEF Next

LEMMA GrantInit == Init => GrantInv
<1> SUFFICES ASSUME Init PROVE TicketInv /\ ClanInv
  BY TypeInit DEF GrantInv
<1>1. TicketInv
  BY DEF Init, InitWith, TicketInv, Free, Ticket
<1>2. ClanInv
  BY DEF Init, InitWith, ClanInv, TokensKeepTheirClan, Free
<1> QED
  BY <1>1, <1>2

\* InviteStore.Redeem and KnockStore.Consume admit once per ticket: for any
\* number of members, tickets, requests and restarts a ticket hands out the key
\* at most once, and a knock only after it was accepted.
THEOREM TicketsAdmitOnceAlways == Spec => []TicketsAdmitOnce
<1>1. Spec => []GrantInv
  BY GrantInit, GrantStep, PTL DEF Spec
<1>2. GrantInv => TicketsAdmitOnce
  BY TicketAssumption DEF GrantInv, TicketInv, TicketsAdmitOnce, Consumed, Ticket
<1> QED
  BY <1>1, <1>2, PTL

\* RedeemInvite's comparison of the Clan with the token's is made under the lock
\* with the copy it answers from, so the key handed out is the token's Clan's.
THEOREM TokensKeepTheirClanAlways == Spec => []TokensKeepTheirClan
<1>1. Spec => []GrantInv
  BY GrantInit, GrantStep, PTL DEF Spec
<1>2. GrantInv => TokensKeepTheirClan
  BY DEF GrantInv, ClanInv
<1> QED
  BY <1>1, <1>2, PTL

-----------------------------------------------------------------------------
\* What the holder of Service.mu knows: unless a writer outside it has saved
\* since, its copy is the file; and a promotion starts from an admitted entry.
SnapInv ==
  /\ mu.op \notin {"free", "append"} /\ ~outside => mu.snap = file
  /\ mu.op = "promote" => mu.snap.ros[mu.who] \in Admitted

RankInv == TypeInv /\ SnapInv

LEMMA RankFacts ==
  /\ Rank("absent") = 0 /\ Rank("admitted") = 1 /\ Rank("zombie") = 1
  /\ Rank("active") = 2 /\ Rank("revoked") = 3
  /\ \A s \in Standing : Rank(s) \in 0..3
BY DEF Rank, Admitted, Standing

\* At each member MergeRosterStates keeps one of the two standings, the one of
\* higher rank, and its own when they tie.
LEMMA MergeAt ==
  ASSUME NEW r \in Roster, NEW q \in Roster, NEW m \in Member
  PROVE  /\ Rank(r[m]) \in 0..3 /\ Rank(q[m]) \in 0..3
         /\ Rank(q[m]) > Rank(r[m]) => MergeRosterStates(r, q)[m] = q[m]
         /\ Rank(q[m]) <= Rank(r[m]) => MergeRosterStates(r, q)[m] = r[m]
<1>1. Rank(r[m]) \in 0..3 /\ Rank(q[m]) \in 0..3
  BY RankFacts DEF Roster
<1> QED
  BY <1>1 DEF MergeRosterStates

\* In ranks, MergeRosterStates is the least roster above both: neither side's
\* standing is lowered and none is invented.
LEMMA MergeBounds ==
  ASSUME NEW r \in Roster, NEW q \in Roster, NEW m \in Member
  PROVE  /\ Rank(MergeRosterStates(r, q)[m]) >= Rank(r[m])
         /\ Rank(MergeRosterStates(r, q)[m]) >= Rank(q[m])
         /\ MergeRosterStates(r, q)[m] \in {r[m], q[m]}
BY MergeAt

\* The laws of gossiping rosters with state.MergeRosterStates: a repeated merge
\* changes nothing, merges may be grouped at will, and in either order they are
\* rosterEqual (an "admitted" entry and a zombie tie, and each side keeps its
\* own).  And MaybeSync's test skips the save exactly when the peer had nothing
\* of a higher standing to tell.
THEOREM RosterMergeLaws ==
  ASSUME NEW r \in Roster, NEW q \in Roster, NEW s \in Roster
  PROVE  /\ MergeRosterStates(r, r) = r
         /\ MergeRosterStates(MergeRosterStates(r, q), q) = MergeRosterStates(r, q)
         /\ MergeRosterStates(MergeRosterStates(r, q), s)
              = MergeRosterStates(r, MergeRosterStates(q, s))
         /\ RosterEqual(MergeRosterStates(r, q), MergeRosterStates(q, r))
         /\ RosterEqual(MergeRosterStates(r, q), r)
              <=> \A m \in Member : Rank(q[m]) <= Rank(r[m])
         /\ RosterEqual(MergeRosterStates(r, q), r) => MergeRosterStates(r, q) = r
<1> DEFINE rq == MergeRosterStates(r, q)
           qs == MergeRosterStates(q, s)
           qr == MergeRosterStates(q, r)
           lhs == MergeRosterStates(rq, s)
           rhs == MergeRosterStates(r, qs)
<1>1. rq \in Roster /\ qs \in Roster /\ qr \in Roster /\ lhs \in Roster /\ rhs \in Roster
  BY RosterType
<1> HIDE DEF rq, qs, qr, lhs, rhs
<1>2. \A m \in Member : MergeRosterStates(r, r)[m] = r[m] /\ MergeRosterStates(rq, q)[m] = rq[m]
  <2> TAKE m \in Member
  <2>1. MergeRosterStates(r, r)[m] = r[m]
    BY MergeAt
  <2>2. Rank(rq[m]) >= Rank(q[m])
    BY MergeBounds DEF rq
  <2> QED
    BY <1>1, <2>1, <2>2, MergeAt
<1>3. \A m \in Member : lhs[m] = rhs[m]
  <2> TAKE m \in Member
  <2>1. rq[m] = IF Rank(q[m]) > Rank(r[m]) THEN q[m] ELSE r[m]
    BY MergeAt DEF rq
  <2>2. qs[m] = IF Rank(s[m]) > Rank(q[m]) THEN s[m] ELSE q[m]
    BY MergeAt DEF qs
  <2>3. lhs[m] = IF Rank(s[m]) > Rank(rq[m]) THEN s[m] ELSE rq[m]
    BY <1>1, MergeAt DEF lhs
  <2>4. rhs[m] = IF Rank(qs[m]) > Rank(r[m]) THEN qs[m] ELSE r[m]
    BY <1>1, MergeAt DEF rhs
  <2>5. Rank(r[m]) \in 0..3 /\ Rank(q[m]) \in 0..3 /\ Rank(s[m]) \in 0..3
    BY MergeAt
  <2> QED
    BY <2>1, <2>2, <2>3, <2>4, <2>5
<1>4. \A m \in Member : Rank(rq[m]) = Rank(qr[m])
  BY MergeAt DEF rq, qr
<1>5. /\ RosterEqual(rq, r) <=> \A m \in Member : Rank(q[m]) <= Rank(r[m])
      /\ RosterEqual(rq, r) => \A m \in Member : rq[m] = r[m]
  BY MergeAt DEF rq, RosterEqual
<1>6. ASSUME NEW a \in Roster, NEW b \in Roster, \A m \in Member : a[m] = b[m]
      PROVE  a = b
  BY <1>6 DEF Roster
<1>7. MergeRosterStates(r, r) \in Roster /\ MergeRosterStates(rq, q) \in Roster
  BY <1>1, RosterType
<1>8. MergeRosterStates(r, r) = r /\ MergeRosterStates(rq, q) = rq
  BY <1>1, <1>2, <1>6, <1>7
<1>9. lhs = rhs /\ (RosterEqual(rq, r) => rq = r)
  BY <1>1, <1>3, <1>5, <1>6
<1> QED
  BY <1>4, <1>5, <1>8, <1>9 DEF rq, qs, qr, lhs, rhs, RosterEqual

\* The step entered Service.mu with a fresh copy.
Fresh ==
  /\ UNCHANGED file
  /\ mu'.snap = file
  /\ mu'.op = "promote" => file.ros[mu'.who] \in Admitted

LEMMA EnterFresh == Requests \/ (\E w \in waiting : EnterWaiting(w) /\ w \in Request) => Fresh
<1> SUFFICES ASSUME Requests \/ (\E w \in waiting : EnterWaiting(w) /\ w \in Request)
             PROVE Fresh
  OBVIOUS
<1>1. ASSUME NEW w \in Request, EnterWaiting(w) PROVE Fresh
  BY <1>1 DEF EnterWaiting, Enter, Free, Fresh, Request, fileVars
<1>2. ASSUME NEW m \in Member, Welcome(m) \/ Revoke(m) PROVE Fresh
  BY <1>2 DEF Welcome, Revoke, Enter, Free, Fresh, fileVars
<1>3. ASSUME NEW m \in Member, Promote(m) PROVE Fresh
  BY <1>3 DEF Promote, Enter, Free, Fresh, fileVars
<1>4. CASE Sweep
  BY <1>4 DEF Sweep, Enter, Free, Fresh, fileVars
<1> QED
  BY <1>1, <1>2, <1>3, <1>4 DEF Requests, Others

\* A step leaves file, mu and outside alone, enters, leaves Service.mu, moves on
\* inside it, or saves outside it.
LEMMA SnapStep == RankInv /\ [Next]_vars => RankInv'
<1> SUFFICES ASSUME RankInv, [Next]_vars PROVE SnapInv'
  BY TypeStep DEF RankInv
<1>1. CASE UNCHANGED <<file, mu, outside>>
  BY <1>1 DEF RankInv, SnapInv
<1>2. CASE mu'.op \in {"free", "append"}
  BY <1>2 DEF SnapInv
<1>3. CASE Fresh
  BY <1>3 DEF Fresh, SnapInv
<1>4. CASE UNCHANGED mu /\ outside'
  BY <1>4 DEF RankInv, SnapInv
<1>5. CASE UNCHANGED vars \/ Tickets
  BY <1>1, <1>5 DEF vars, Tickets, IssueInvite, Redeem, Knock, KnockAccept, KnockDeny,
     Expire, fileVars, sectionVars, ghostVars
<1>6. CASE Serve
  <2>1. \A w \in waiting : w \in Request
    BY DEF RankInv, TypeInv, TypeOK
  <2>2. ASSUME NEW w \in waiting, Refuse(w) PROVE SnapInv'
    BY <1>1, <2>2 DEF Refuse, fileVars, sectionVars, ghostVars
  <2> QED
    BY <1>3, <1>6, <2>1, <2>2, EnterFresh DEF Serve
<1>7. CASE Requests
  BY <1>3, <1>7, EnterFresh
<1>8. CASE Inside \/ DeliverFails \/ SaveFails
  <2>1. CASE Deliver
    <3>1. /\ mu'.op = "delivered" /\ mu'.snap = mu.snap /\ UNCHANGED <<file, outside>>
          /\ mu.op = "accept"
      BY <2>1 DEF Deliver, fileVars, ghostVars, RankInv, TypeInv, TypeOK, Section
    <3> QED
      BY <3>1 DEF RankInv, SnapInv
  <2>2. CASE MarkRevoked
    BY <1>2, <2>2 DEF MarkRevoked, Free
  <2>3. CASE mu' = Free
    BY <1>2, <2>3 DEF Free
  <2> QED
    BY <1>8, <2>1, <2>2, <2>3 DEF Inside, Admit, AppendRevocation, MakeActive,
       PurgeZombies, DeliverFails, SaveFails
<1>9. CASE Outside
  BY <1>1, <1>9 DEF Outside, Load, GiveUp, LoadRevocations, fileVars, ghostVars
<1>10. CASE Finish
  BY <1>1, <1>4, <1>10 DEF Finish, PutBack, MergeRoster, MergeRevocations, SaveOutside,
     ghostVars
<1>11. CASE Commands \/ Answer
  BY <1>1, <1>4, <1>11 DEF Commands, Answer, Leave, BeginJoin, Create, EndJoin,
     SaveOutside, fileVars, sectionVars, ghostVars
<1>12. CASE Crash \/ Restart
  BY <1>2, <1>12 DEF Crash, Restart, Boot, Free
<1>13. CASE Day
  BY <1>2, <1>13 DEF Day, sectionVars
<1> QED
  BY <1>5, <1>6, <1>7, <1>8, <1>9, <1>10, <1>11, <1>12, <1>13 DEF Next

\* The roster after the holder's save, when nobody has saved outside since.
LEMMA InsideKeepsRank == RankInv /\ (Inside \/ DeliverFails \/ SaveFails) => KeepsRank
<1> SUFFICES ASSUME RankInv, Inside \/ DeliverFails \/ SaveFails PROVE KeepsRank
  OBVIOUS
<1>0. /\ file \in ClanFile /\ mu \in Section
      /\ \A m \in Member : file.ros[m] \in Standing
  BY DEF RankInv, TypeInv, TypeOK, ClanFile, Roster
<1>1. CASE UNCHANGED file
  BY <1>0, <1>1, RankFacts DEF KeepsRank
<1>2. CASE outside /\ mu.op # "free" /\ mu' # mu
  BY <1>2 DEF KeepsRank, Overtakes
<1>3. Admit \/ MarkRevoked \/ MakeActive \/ PurgeZombies
        => mu.op \notin {"free", "append"} /\ mu' # mu
  <2>1. MarkRevoked => mu.op = "revoke" /\ mu'.op = "append"
    BY DEF MarkRevoked, Free
  <2>2. Admit \/ MakeActive \/ PurgeZombies
          => mu.op \notin {"free", "append"} /\ mu'.op = "free"
    BY DEF Admit, MakeActive, PurgeZombies, Free
  <2> QED
    BY <2>1, <2>2
<1>4. ASSUME ~outside, Admit \/ MarkRevoked \/ MakeActive \/ PurgeZombies
      PROVE  mu.snap = file
  BY <1>3, <1>4 DEF RankInv, SnapInv
<1>5. CASE Admit /\ ~outside
  <2>1. file' = [file EXCEPT !.ros = [file.ros EXCEPT ![mu.who] = "admitted"]]
    BY <1>4, <1>5 DEF Admit, SaveInside, Upsert
  <2>2. file'.id = file.id /\ \A m \in Member : m # mu.who => file'.ros[m] = file.ros[m]
    BY <1>0, <2>1 DEF ClanFile, Roster
  <2> QED
    BY <1>0, <1>5, <2>2, RankFacts DEF KeepsRank, Admit
<1>6. CASE MarkRevoked /\ ~outside
  <2>1. file' = [file EXCEPT !.ros = [file.ros EXCEPT ![mu.who] = "revoked"]]
    BY <1>4, <1>6 DEF MarkRevoked, SaveInside
  <2>2. /\ file'.id = file.id
        /\ \A m \in Member : file'.ros[m] = file.ros[m] \/ file'.ros[m] = "revoked"
    BY <1>0, <2>1 DEF ClanFile, Roster
  <2> QED
    BY <1>0, <2>2, RankFacts DEF KeepsRank
<1>7. CASE MakeActive /\ ~outside
  <2>1. /\ file' = [file EXCEPT !.ros = [file.ros EXCEPT ![mu.who] = "active"]]
        /\ file.ros[mu.who] \in Admitted
    BY <1>4, <1>7 DEF MakeActive, SaveInside, RankInv, SnapInv
  <2>2. /\ file'.id = file.id
        /\ \A m \in Member : file'.ros[m] # file.ros[m] =>
             file'.ros[m] = "active" /\ file.ros[m] \in Admitted
    BY <1>0, <2>1 DEF ClanFile, Roster
  <2> QED
    BY <1>0, <2>2, RankFacts DEF KeepsRank, Admitted
<1>8. CASE PurgeZombies /\ ~outside
  <2>1. file' = [file EXCEPT !.ros = Purge(file.ros)] /\ mu.op = "sweep"
    BY <1>4, <1>8 DEF PurgeZombies, SaveInside
  <2>2. /\ file'.id = file.id
        /\ \A m \in Member : file'.ros[m] = file.ros[m] \/ file.ros[m] = "zombie"
    BY <1>0, <2>1 DEF ClanFile, Roster, Purge
  <2> QED
    BY <1>0, <2>1, <2>2, RankFacts DEF KeepsRank
<1>9. CASE Deliver \/ AppendRevocation \/ DeliverFails \/ SaveFails
  BY <1>1, <1>9 DEF Deliver, AppendRevocation, DeliverFails, SaveFails, fileVars
<1> QED
  BY <1>2, <1>3, <1>5, <1>6, <1>7, <1>8, <1>9 DEF Inside

\* A section outside Service.mu overtakes, or its copy is the file.
LEMMA FinishKeepsRank == RankInv /\ Finish => KeepsRank
<1> SUFFICES ASSUME RankInv, Finish PROVE KeepsRank
  OBVIOUS
<1>0. file \in ClanFile /\ \A m \in Member : file.ros[m] \in Standing
  BY DEF RankInv, TypeInv, TypeOK, ClanFile, Roster
<1>1. CASE UNCHANGED file
  BY <1>0, <1>1, RankFacts DEF KeepsRank
<1>2. ASSUME NEW h \in held, h \notin held', h.snap # file PROVE KeepsRank
  BY <1>2 DEF KeepsRank, Overtakes
<1>3. ASSUME NEW h \in held, PutBack(h) PROVE KeepsRank
  BY <1>1, <1>2, <1>3 DEF PutBack, SaveOutside
<1>4. ASSUME NEW h \in held, NEW r \in PeerRoster, MergeRoster(h, r) PROVE KeepsRank
  <2> DEFINE merged == MergeRosterStates(file.ros, r)
  <2>1. \A m \in Member : merged[m] = file.ros[m] \/ Rank(merged[m]) > Rank(file.ros[m])
    BY <1>0, PeerAssumption DEF MergeRosterStates
  <2>2. CASE h.snap = file /\ file' = [file EXCEPT !.ros = merged]
    <3>1. file'.id = file.id /\ file'.ros = merged
      BY <1>0, <2>2 DEF ClanFile
    <3>2. \A m \in Member : merged[m] \in Standing
      BY <1>0, PeerAssumption DEF MergeRosterStates, Roster
    <3> QED
      BY <1>0, <2>1, <3>1, <3>2, RankFacts DEF KeepsRank
  <2> QED
    BY <1>1, <1>2, <1>4, <2>2 DEF MergeRoster, SaveOutside
<1>5. ASSUME NEW l \in fetching, NEW ids \in SUBSET Member, MergeRevocations(l, ids)
      PROVE  KeepsRank
  BY <1>1, <1>5 DEF MergeRevocations
<1> QED
  BY <1>3, <1>4, <1>5 DEF Finish

\* Leaving, joining and creating change the Clan; a join overtakes when the
\* member has a Clan again.
LEMMA CommandsKeepRank == RankInv /\ (Commands \/ Answer) => KeepsRank
<1> SUFFICES ASSUME RankInv, Commands \/ Answer PROVE KeepsRank
  OBVIOUS
<1>0. file \in ClanFile /\ \A m \in Member : file.ros[m] \in Standing
  BY DEF RankInv, TypeInv, TypeOK, ClanFile, Roster
<1>1. CASE Leave
  BY <1>1 DEF Leave, SaveOutside, NoClan, KeepsRank
<1>2. CASE BeginJoin
  BY <1>0, <1>2, RankFacts DEF BeginJoin, fileVars, KeepsRank
<1>3. ASSUME NEW c \in Clan, Create(c) PROVE KeepsRank
  BY <1>3, NoneAssumption DEF Create, SaveOutside, KeepsRank
<1>4. ASSUME NEW c \in Clan, NEW r \in PeerRoster, EndJoin(c, r) PROVE KeepsRank
  BY <1>4, NoneAssumption DEF EndJoin, SaveOutside, KeepsRank, Overtakes
<1> QED
  BY <1>1, <1>2, <1>3, <1>4 DEF Commands, Answer

\* No step lets a standing slide back, but for the writers named in Overtakes.
LEMMA RankStep == RankInv /\ Next => KeepsRank
<1> SUFFICES ASSUME RankInv, Next PROVE KeepsRank
  OBVIOUS
<1>0. file \in ClanFile /\ \A m \in Member : file.ros[m] \in Standing
  BY DEF RankInv, TypeInv, TypeOK, ClanFile, Roster
<1>1. CASE UNCHANGED file
  BY <1>0, <1>1, RankFacts DEF KeepsRank
<1>2. CASE Tickets \/ Requests
  BY <1>1, <1>2, EnterFresh DEF Fresh, Tickets, IssueInvite, Redeem, Knock, KnockAccept,
     KnockDeny, Expire, fileVars
<1>3. CASE Serve \/ Outside \/ Crash \/ Restart
  BY <1>1, <1>3 DEF Serve, EnterWaiting, Refuse, Outside, Load, GiveUp,
     LoadRevocations, Crash, Restart, Boot, fileVars
<1>4. CASE Day
  <2>1. /\ file'.id = file.id
        /\ \A m \in Member : file'.ros[m] # file.ros[m] =>
             file.ros[m] = "admitted" /\ file'.ros[m] = "zombie"
    BY <1>0, <1>4 DEF Day, ClanFile, Roster
  <2> QED
    BY <1>0, <2>1, RankFacts DEF KeepsRank
<1> QED
  BY <1>2, <1>3, <1>4, InsideKeepsRank, FinishKeepsRank, CommandsKeepRank DEF Next

\* membership.Service's lock does what service.go says of it, for every roster
\* and any number of requests: a standing slides back only where a writer that
\* does not take the lock is named as the cause.
THEOREM NoBackslideAlways == Spec => NoBackslide
<1>1. Init => RankInv
  BY TypeInit DEF Init, InitWith, RankInv, SnapInv, Free
<1>2. Spec => []RankInv
  BY <1>1, SnapStep, PTL DEF Spec
<1>3. RankInv /\ [Next]_vars => [KeepsRank]_vars
  BY RankStep
<1> QED
  BY <1>2, <1>3, PTL DEF Spec, NoBackslide
=============================================================================
