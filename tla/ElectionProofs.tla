--------------------------- MODULE ElectionProofs ---------------------------
(***************************************************************************)
(* Proofs about Election for every set of members, every roster, every     *)
(* score, every bound and every mix of faults, and about the selections    *)
(* the engine makes for every set of candidates.                           *)
(***************************************************************************)
EXTENDS Election, Views, FunctionTheorems, FiniteSetTheorems, TLAPS

\* What the comparison functions of selectCandidate and selectScribe promise
\* for any set of member ids, scores and admission dates.

\* c precedes every other candidate of S in the Orchestrator order.
Leads(c, S) == c \in S /\ \A d \in S \ {c} : Ahead(c, d)

\* Both comparison functions are strict and transitive, and they decide
\* between any two members: sort.Slice gets a proper order, and a tie can
\* never make two daemons with the same view choose differently.
THEOREM ComparisonsAreTotalOrders ==
  ASSUME NEW Ids \in SUBSET Nat,
         NEW c \in Candidate(Ids), NEW d \in Candidate(Ids), NEW e \in Candidate(Ids)
  PROVE  /\ ~Ahead(c, c) /\ ~ScribeAhead(c, c)
         /\ Ahead(c, d) /\ Ahead(d, e) => Ahead(c, e)
         /\ ScribeAhead(c, d) /\ ScribeAhead(d, e) => ScribeAhead(c, e)
         /\ c.id # d.id => (Ahead(c, d) \/ Ahead(d, c))
                           /\ (ScribeAhead(c, d) \/ ScribeAhead(d, c))
<1>1. /\ c.id \in Nat /\ c.score \in Nat /\ c.admitted \in Nat
      /\ d.id \in Nat /\ d.score \in Nat /\ d.admitted \in Nat
      /\ e.id \in Nat /\ e.score \in Nat /\ e.admitted \in Nat
  BY DEF Candidate
<1> QED BY <1>1 DEF Ahead, ScribeAhead, Senior

\* The order decides the selection: with no pins, the one member that precedes
\* all others is the one every daemon with that view selects.
LEMMA LeaderIsSelected ==
  ASSUME NEW Ids \in SUBSET Nat, NEW S \in SUBSET Candidate(Ids), NEW none,
         PinnedOf(S) = {}, NEW c \in S, Leads(c, S)
  PROVE  SelectCandidate(S, none) = c.id
<1> DEFINE P(x) == \A d \in S \ {x} : Ahead(x, d)
           best == CHOOSE x \in S : P(x)
<1>1. best \in S /\ P(best)
  BY DEF Leads
<1>2. best = c
  <2> SUFFICES ASSUME best # c PROVE FALSE
    OBVIOUS
  <2>1. Ahead(best, c) /\ Ahead(c, best)
    BY <1>1 DEF Leads
  <2>2. best \in Candidate(Ids) /\ c \in Candidate(Ids)
    BY <1>1
  <2>3. Ahead(c, c)
    BY <2>1, <2>2, ComparisonsAreTotalOrders
  <2> QED BY <2>2, <2>3, ComparisonsAreTotalOrders
<1> QED BY <1>2 DEF SelectCandidate

\* A leader outlives the others: in an unpinned view, whoever precedes all is
\* selected before and after any other members drop out.
THEOREM LosingOthersKeepsLeader ==
  ASSUME NEW Ids \in SUBSET Nat, NEW S \in SUBSET Candidate(Ids), NEW none,
         PinnedOf(S) = {}, NEW c \in S, Leads(c, S),
         NEW T \in SUBSET S, c \in T
  PROVE  /\ SelectCandidate(S, none) = c.id
         /\ SelectCandidate(T, none) = c.id
<1>1. PinnedOf(T) = {} /\ T \in SUBSET Candidate(Ids)
  BY DEF PinnedOf
<1>2. Leads(c, T)
  BY DEF Leads
<1> QED BY <1>1, <1>2, LeaderIsSelected

-----------------------------------------------------------------------------
(***************************************************************************)
(* The selections over all views: there is an order to sort into, its      *)
(* first is the choice, and the choice stays while it can.                 *)
(***************************************************************************)

\* A strict order that decides between any two members of S.
Ordering(S, R) ==
  /\ \A c \in S : <<c, c>> \notin R
  /\ \A c, d, e \in S : <<c, d>> \in R /\ <<d, e>> \in R => <<c, e>> \in R
  /\ \A c, d \in S : c = d \/ <<c, d>> \in R \/ <<d, c>> \in R

\* s lists the members of S by R.
Lists(s, S, R) ==
  /\ s \in [1..Cardinality(S) -> S]
  /\ \A i, j \in 1..Cardinality(S) : i < j => s[i] # s[j] /\ <<s[j], s[i]>> \notin R

\* The members of a finite set can be listed by an order: each goes to the place
\* that the number of those before it says.
LEMMA ListExists ==
  ASSUME NEW S, IsFiniteSet(S), NEW R, Ordering(S, R)
  PROVE  \E s : Lists(s, S, R)
<1> DEFINE Upto(c) == {d \in S : d = c \/ <<d, c>> \in R}
           n == Cardinality(S)
           r == [c \in S |-> Cardinality(Upto(c))]
           s == [j \in 1..n |-> CHOOSE c \in S : r[c] = j]
<1>1. n \in Nat
  BY FS_CardinalityType
<1>2. ASSUME NEW c \in S
      PROVE  IsFiniteSet(Upto(c)) /\ Cardinality(Upto(c)) \in 1..n
  <2>1. Upto(c) \in SUBSET S /\ c \in Upto(c)
    OBVIOUS
  <2> HIDE DEF Upto
  <2>2. IsFiniteSet(Upto(c)) /\ Cardinality(Upto(c)) <= n
    BY <2>1, FS_Subset
  <2>3. Cardinality(Upto(c)) \in Nat /\ Cardinality(Upto(c)) # 0
    BY <2>1, <2>2, FS_CardinalityType, FS_EmptySet
  <2> QED
    BY <1>1, <2>2, <2>3
<1>3. ASSUME NEW c \in S, NEW d \in S, <<c, d>> \in R
      PROVE  Cardinality(Upto(c)) < Cardinality(Upto(d))
  <2>1. Upto(c) \in SUBSET Upto(d)
    BY <1>3 DEF Ordering
  <2>2. d \in Upto(d) /\ d \notin Upto(c)
    <3>1. d # c /\ <<d, c>> \notin R
      BY <1>3 DEF Ordering
    <3> QED
      BY <3>1
  <2>3. IsFiniteSet(Upto(d)) /\ Cardinality(Upto(d)) \in Nat /\ Cardinality(Upto(c)) \in Nat
    BY <1>1, <1>2
  <2> HIDE DEF Upto
  <2>4. Cardinality(Upto(c)) <= Cardinality(Upto(d)) /\ Cardinality(Upto(c)) # Cardinality(Upto(d))
    BY <2>1, <2>2, <2>3, FS_Subset
  <2> QED
    BY <2>3, <2>4
<1> HIDE DEF n
<1>4. r \in [S -> 1..n]
  BY <1>2
<1>5. \A c, d \in S : <<c, d>> \in R => r[c] < r[d]
  BY <1>3
<1> HIDE DEF r
<1>6. \A c, d \in S : r[c] = r[d] => c = d
  <2> SUFFICES ASSUME NEW c \in S, NEW d \in S, c # d PROVE r[c] # r[d]
    OBVIOUS
  <2>1. <<c, d>> \in R \/ <<d, c>> \in R
    BY DEF Ordering
  <2>2. r[c] < r[d] \/ r[d] < r[c]
    BY <1>5, <2>1
  <2>3. r[c] \in Nat /\ r[d] \in Nat
    BY <1>1, <1>4
  <2> QED
    BY <2>2, <2>3
<1>7. r \in Injection(S, 1..n)
  BY <1>4, <1>6 DEF Injection, IsInjective
<1>8. IsFiniteSet(1..n) /\ Cardinality(1..n) = Cardinality(S)
  <2>1. Cardinality(1..n) = (IF 1 > n THEN 0 ELSE n - 1 + 1) /\ IsFiniteSet(1..n)
    BY <1>1, FS_Interval
  <2>2. Cardinality(1..n) = n
    BY <1>1, <2>1
  <2> QED
    BY <2>1, <2>2 DEF n
<1>9. r \in Surjection(S, 1..n)
  BY <1>7, <1>8, FS_Injection
<1>10. \A j \in 1..n : s[j] \in S /\ r[s[j]] = j
  <2> SUFFICES ASSUME NEW j \in 1..n PROVE s[j] \in S /\ r[s[j]] = j
    OBVIOUS
  <2>1. \E c \in S : r[c] = j
    BY <1>9 DEF Surjection
  <2>2. s[j] = CHOOSE c \in S : r[c] = j
    OBVIOUS
  <2> HIDE DEF s
  <2> QED
    BY <2>1, <2>2
<1>11. s \in [1..n -> S]
  BY <1>10
<1> HIDE DEF s
<1>12. ASSUME NEW i \in 1..n, NEW j \in 1..n, i < j
       PROVE  s[i] # s[j] /\ <<s[j], s[i]>> \notin R
  <2>1. s[i] \in S /\ s[j] \in S /\ r[s[i]] = i /\ r[s[j]] = j
    BY <1>10
  <2>2. ~ (j < i) /\ i # j
    BY <1>1, <1>12
  <2> QED
    BY <1>5, <2>1, <2>2
<1>13. Lists(s, S, R)
  BY <1>11, <1>12 DEF Lists, n
<1> QED
  BY <1>13

\* The first of a list is before all others.
LEMMA FirstLeads ==
  ASSUME NEW S, IsFiniteSet(S), S # {}, NEW R, Ordering(S, R), NEW s, Lists(s, S, R)
  PROVE  s[1] \in S /\ \A d \in S : d = s[1] \/ <<s[1], d>> \in R
<1> DEFINE n == Cardinality(S)
<1>1. n \in Nat /\ n # 0
  BY FS_CardinalityType, FS_EmptySet
<1>2. 1 \in 1..n
  BY <1>1
<1>3. /\ s \in [1..n -> S]
      /\ \A i, j \in 1..n : i < j => s[i] # s[j] /\ <<s[j], s[i]>> \notin R
  BY DEF Lists
<1> HIDE DEF n
<1>4. \A i, j \in 1..n : s[i] = s[j] => i = j
  <2> SUFFICES ASSUME NEW i \in 1..n, NEW j \in 1..n, i # j PROVE s[i] # s[j]
    OBVIOUS
  <2>1. i < j \/ j < i
    BY <1>1
  <2> QED
    BY <1>3, <2>1
<1>5. s \in Injection(1..n, S)
  BY <1>3, <1>4 DEF Injection, IsInjective
<1>6. Cardinality(1..n) = Cardinality(S)
  <2>1. Cardinality(1..n) = (IF 1 > n THEN 0 ELSE n - 1 + 1)
    BY <1>1, FS_Interval
  <2>2. Cardinality(1..n) = n
    BY <1>1, <2>1
  <2> QED
    BY <2>2 DEF n
<1>7. s \in Surjection(1..n, S)
  BY <1>5, <1>6, FS_Injection
<1>8. ASSUME NEW d \in S, d # s[1] PROVE <<s[1], d>> \in R
  <2>1. PICK j \in 1..n : s[j] = d
    BY <1>7 DEF Surjection
  <2>2. 1 < j
    BY <1>1, <1>8, <2>1
  <2>3. <<d, s[1]>> \notin R /\ s[1] \in S
    BY <1>2, <1>3, <2>1, <2>2
  <2> QED
    BY <1>8, <2>3 DEF Ordering
<1> QED
  BY <1>2, <1>3, <1>8

-----------------------------------------------------------------------------
\* A view: candidates with different ids.
IsView(S) ==
  /\ S \in SUBSET Candidate(Nat) /\ IsFiniteSet(S)
  /\ \A c, d \in S : c.id = d.id => c = d

ViewInv == IsView(view)

\* The orders of the three sorts, as relations on a view.
IdOrder(S) == {p \in S \X S : SmallerId(p[1], p[2])}
CandidateOrder(S) == {p \in S \X S : Ahead(p[1], p[2])}
ScribeOrder(S) == {p \in S \X S : ScribeAhead(p[1], p[2])}

LEMMA SortsAreOrders ==
  ASSUME NEW S, IsView(S)
  PROVE  /\ Ordering(S, IdOrder(S)) /\ Ordering(S, CandidateOrder(S)) /\ Ordering(S, ScribeOrder(S))
         /\ \A s : s \in Sorted(S, SmallerId) <=> Lists(s, S, IdOrder(S))
         /\ \A s : s \in Sorted(S, Ahead) <=> Lists(s, S, CandidateOrder(S))
         /\ \A s : s \in Sorted(S, ScribeAhead) <=> Lists(s, S, ScribeOrder(S))
<1>1. \A c \in S : c \in Candidate(Nat) /\ c.id \in Nat
  BY DEF IsView, Candidate
<1>2. \A c, d \in S : c.id = d.id => c = d
  BY DEF IsView
<1>3. /\ \A c, d \in S : <<c, d>> \in IdOrder(S) <=> c.id < d.id
      /\ \A c, d \in S : <<c, d>> \in CandidateOrder(S) <=> Ahead(c, d)
      /\ \A c, d \in S : <<c, d>> \in ScribeOrder(S) <=> ScribeAhead(c, d)
  BY DEF IdOrder, CandidateOrder, ScribeOrder, SmallerId
<1>4. Ordering(S, IdOrder(S))
  BY <1>1, <1>2, <1>3 DEF Ordering
<1>5. \A c, d, e \in S :
        /\ ~Ahead(c, c) /\ ~ScribeAhead(c, c)
        /\ Ahead(c, d) /\ Ahead(d, e) => Ahead(c, e)
        /\ ScribeAhead(c, d) /\ ScribeAhead(d, e) => ScribeAhead(c, e)
        /\ c.id # d.id => (Ahead(c, d) \/ Ahead(d, c)) /\ (ScribeAhead(c, d) \/ ScribeAhead(d, c))
  <2>1. Nat \in SUBSET Nat
    OBVIOUS
  <2> QED
    BY <1>1, <2>1, ComparisonsAreTotalOrders, Zenon
<1>6. Ordering(S, CandidateOrder(S)) /\ Ordering(S, ScribeOrder(S))
  BY <1>2, <1>3, <1>5, Zenon DEF Ordering
<1>7. ASSUME NEW s PROVE s \in Sorted(S, SmallerId) <=> Lists(s, S, IdOrder(S))
  BY <1>3 DEF Sorted, Lists, SmallerId
<1>8. ASSUME NEW s PROVE s \in Sorted(S, Ahead) <=> Lists(s, S, CandidateOrder(S))
  BY <1>3 DEF Sorted, Lists
<1>9. ASSUME NEW s PROVE s \in Sorted(S, ScribeAhead) <=> Lists(s, S, ScribeOrder(S))
  BY <1>3 DEF Sorted, Lists
<1> QED
  BY <1>4, <1>6, <1>7, <1>8, <1>9

\* Who is chosen: the lowest id among the pinned, else the one before all others.
LowestPin(c, S) == c \in PinnedOf(S) /\ \A d \in PinnedOf(S) : c.id <= d.id
Foremost(c, S) ==
  IF PinnedOf(S) # {} THEN LowestPin(c, S) ELSE \A d \in S : d = c \/ Ahead(c, d)
ForemostScribe(c, S) ==
  IF PinnedOf(S) # {} THEN LowestPin(c, S) ELSE \A d \in S : d = c \/ ScribeAhead(c, d)

LEMMA ChosenCandidate ==
  ASSUME NEW S, IsView(S), NEW none, NEW c \in S, Foremost(c, S)
  PROVE  SelectCandidate(S, none) = c.id
<1>1. CASE PinnedOf(S) # {}
  <2> DEFINE best == LowestId(PinnedOf(S))
  <2>1. best \in PinnedOf(S) /\ \A d \in PinnedOf(S) : best.id <= d.id
    BY <1>1 DEF LowestId, Foremost, LowestPin
  <2>2. best.id = c.id
    <3>1. best.id <= c.id /\ c.id <= best.id
      BY <1>1, <2>1 DEF Foremost, LowestPin
    <3>2. best.id \in Nat /\ c.id \in Nat
      BY <2>1 DEF IsView, Candidate, PinnedOf
    <3> QED
      BY <3>1, <3>2
  <2>3. S # {}
    OBVIOUS
  <2> QED
    BY <1>1, <2>2, <2>3 DEF SelectCandidate
<1>2. CASE PinnedOf(S) = {}
  <2>1. Leads(c, S)
    BY <1>2 DEF Leads, Foremost
  <2>2. Nat \in SUBSET Nat /\ S \in SUBSET Candidate(Nat)
    BY DEF IsView
  <2> QED
    BY <1>2, <2>1, <2>2, LeaderIsSelected
<1> QED
  BY <1>1, <1>2

LEMMA ChosenScribe ==
  ASSUME NEW S, IsView(S), NEW none, NEW c \in S, ForemostScribe(c, S)
  PROVE  SelectScribe(S, none) = c.id
<1>1. CASE PinnedOf(S) # {}
  <2>1. SelectCandidate(S, none) = c.id
    BY <1>1, ChosenCandidate DEF Foremost, ForemostScribe
  <2>2. S # {}
    OBVIOUS
  <2> QED
    BY <1>1, <2>1, <2>2 DEF SelectScribe, SelectCandidate
<1>2. CASE PinnedOf(S) = {}
  <2> DEFINE P(x) == \A d \in S \ {x} : ScribeAhead(x, d)
             best == CHOOSE x \in S : P(x)
  <2>1. P(c)
    BY <1>2 DEF ForemostScribe
  <2>2. best \in S /\ P(best)
    BY <2>1
  <2>3. best = c
    <3> SUFFICES ASSUME best # c PROVE FALSE
      OBVIOUS
    <3>1. ScribeAhead(best, c) /\ ScribeAhead(c, best)
      BY <2>1, <2>2
    <3> HIDE DEF best
    <3>2. best \in Candidate(Nat) /\ c \in Candidate(Nat) /\ Nat \in SUBSET Nat
      BY <2>2 DEF IsView
    <3>3. ScribeAhead(c, c)
      BY <3>1, <3>2, ComparisonsAreTotalOrders
    <3> QED
      BY <3>2, <3>3, ComparisonsAreTotalOrders
  <2>4. S # {}
    OBVIOUS
  <2> QED
    BY <1>2, <2>3, <2>4 DEF SelectScribe
<1> QED
  BY <1>1, <1>2

\* The pinned part of a view is a view.
LEMMA PinnedIsView ==
  ASSUME NEW S, IsView(S)
  PROVE  IsView(PinnedOf(S)) /\ PinnedOf(S) \in SUBSET S
<1>1. PinnedOf(S) \in SUBSET S
  BY DEF PinnedOf
<1>2. IsFiniteSet(PinnedOf(S))
  BY <1>1, FS_Subset DEF IsView
<1> QED
  BY <1>1, <1>2 DEF IsView

-----------------------------------------------------------------------------
LEMMA ViewStep == ViewInv /\ [ViewNext]_view => ViewInv'
<1> SUFFICES ASSUME ViewInv, [ViewNext]_view PROVE IsView(view')
  BY DEF ViewInv
<1>1. IsView(view)
  BY DEF ViewInv
<1>2. CASE view' = view
  BY <1>1, <1>2
<1>3. ASSUME NEW c \in Candidacy, Arrive(c) PROVE IsView(view')
  <2>1. view' = view \cup {c} /\ \A d \in view : d.id # c.id
    BY <1>3 DEF Arrive
  <2>2. c \in Candidate(Nat)
    BY ViewSets DEF Candidacy, Candidate
  <2>3. IsFiniteSet(view \cup {c})
    BY <1>1, FS_AddElement DEF IsView
  <2> QED
    BY <1>1, <2>1, <2>2, <2>3 DEF IsView
<1>4. ASSUME NEW c \in Candidacy, Depart(c) PROVE IsView(view')
  <2>1. view' = view \ {c}
    BY <1>4 DEF Depart
  <2>2. IsFiniteSet(view \ {c})
    BY <1>1, FS_RemoveElement DEF IsView
  <2> QED
    BY <1>1, <2>1, <2>2 DEF IsView
<1> QED
  BY <1>2, <1>3, <1>4 DEF ViewNext

\* A daemon's view always holds at most one candidacy of each member, and
\* finitely many, whatever the order of arrivals and departures in its registry.
THEOREM ViewsAreSets == ViewSpec => []ViewInv
<1>1. ViewInit => ViewInv
  BY FS_EmptySet DEF ViewInit, ViewInv, IsView
<1> QED
  BY <1>1, ViewStep, PTL DEF ViewSpec

\* What the sort leaves of a view, for either role: something, and it begins
\* with the foremost member.
LEMMA OrdersOfView ==
  ASSUME NEW S, IsView(S), S # {}
  PROVE  /\ CandidateOrders(S) # {} /\ ScribeOrders(S) # {}
         /\ \A s \in CandidateOrders(S) : s[1] \in S /\ Foremost(s[1], S)
         /\ \A s \in ScribeOrders(S) : s[1] \in S /\ ForemostScribe(s[1], S)
<1>1. IsFiniteSet(S)
  BY DEF IsView
<1>2. CASE PinnedOf(S) # {}
  <2> DEFINE P == PinnedOf(S)
  <2>1. IsView(P) /\ IsFiniteSet(P) /\ P \in SUBSET S
    BY PinnedIsView DEF IsView
  <2>2. CandidateOrders(S) = Sorted(P, SmallerId) /\ ScribeOrders(S) = Sorted(P, SmallerId)
    BY <1>2 DEF CandidateOrders, ScribeOrders
  <2>3. P # {}
    BY <1>2
  <2> HIDE DEF P
  <2>4. /\ Ordering(P, IdOrder(P))
        /\ \A s : s \in Sorted(P, SmallerId) <=> Lists(s, P, IdOrder(P))
    BY <2>1, SortsAreOrders
  <2>5. Sorted(P, SmallerId) # {}
    BY <2>1, <2>4, ListExists
  <2>6. ASSUME NEW s \in Sorted(P, SmallerId) PROVE s[1] \in S /\ LowestPin(s[1], S)
    <3>1. s[1] \in P /\ \A d \in P : d = s[1] \/ <<s[1], d>> \in IdOrder(P)
      BY <2>1, <2>3, <2>4, FirstLeads
    <3>2. \A d \in P : d = s[1] \/ s[1].id < d.id
      <4>1. \A d \in P : d = s[1] \/ SmallerId(s[1], d)
        BY <3>1 DEF IdOrder
      <4> QED
        BY <4>1 DEF SmallerId
    <3>3. \A d \in P : d.id \in Nat
      BY <2>1 DEF IsView, Candidate
    <3>4. \A d \in P : s[1].id <= d.id
      BY <3>1, <3>2, <3>3
    <3>5. s[1] \in S
      BY <2>1, <3>1
    <3> QED
      BY <3>1, <3>4, <3>5 DEF LowestPin, P
  <2> QED
    BY <1>2, <2>2, <2>5, <2>6 DEF Foremost, ForemostScribe
<1>3. CASE PinnedOf(S) = {}
  <2>1. CandidateOrders(S) = Sorted(S, Ahead) /\ ScribeOrders(S) = Sorted(S, ScribeAhead)
    BY <1>3 DEF CandidateOrders, ScribeOrders
  <2>2. /\ Ordering(S, CandidateOrder(S)) /\ Ordering(S, ScribeOrder(S))
        /\ \A s : s \in Sorted(S, Ahead) <=> Lists(s, S, CandidateOrder(S))
        /\ \A s : s \in Sorted(S, ScribeAhead) <=> Lists(s, S, ScribeOrder(S))
    BY SortsAreOrders
  <2>3. Sorted(S, Ahead) # {} /\ Sorted(S, ScribeAhead) # {}
    BY <1>1, <2>2, ListExists
  <2>4. ASSUME NEW s \in Sorted(S, Ahead) PROVE s[1] \in S /\ Foremost(s[1], S)
    <3>1. s[1] \in S /\ \A d \in S : d = s[1] \/ <<s[1], d>> \in CandidateOrder(S)
      BY <1>1, <2>2, FirstLeads
    <3>2. \A d \in S : d = s[1] \/ Ahead(s[1], d)
      BY <3>1 DEF CandidateOrder
    <3> QED
      BY <1>3, <3>1, <3>2 DEF Foremost
  <2>5. ASSUME NEW s \in Sorted(S, ScribeAhead) PROVE s[1] \in S /\ ForemostScribe(s[1], S)
    <3>1. s[1] \in S /\ \A d \in S : d = s[1] \/ <<s[1], d>> \in ScribeOrder(S)
      BY <1>1, <2>2, FirstLeads
    <3>2. \A d \in S : d = s[1] \/ ScribeAhead(s[1], d)
      BY <3>1 DEF ScribeOrder
    <3> QED
      BY <1>3, <3>1, <3>2 DEF ForemostScribe
  <2> QED
    BY <2>1, <2>3, <2>4, <2>5
<1> QED
  BY <1>2, <1>3

\* The order in which the registry lists the candidates makes no difference to
\* selectCandidate and selectScribe: the comparison leaves an order to sort
\* into, and every one of them begins with the selected member.
THEOREM SelectionsIgnoreOrder == ViewSpec => []OrderIrrelevant
<1>1. ASSUME ViewInv, view # {}
      PROVE  /\ CandidateOrders(view) # {} /\ ScribeOrders(view) # {}
             /\ \A s \in CandidateOrders(view) : SelectCandidate(view, Nobody) = s[1].id
             /\ \A s \in ScribeOrders(view) : SelectScribe(view, Nobody) = s[1].id
  BY <1>1, OrdersOfView, ChosenCandidate, ChosenScribe DEF ViewInv
<1>2. ViewInv => OrderIrrelevant
  BY <1>1 DEF OrderIrrelevant
<1> QED
  BY <1>2, ViewsAreSets, PTL

\* The foremost member stays so in what is left of a view.
LEMMA ForemostStays ==
  ASSUME NEW S, IsView(S), NEW T \in SUBSET S, NEW c \in T
  PROVE  /\ IsView(T)
         /\ Foremost(c, S) => Foremost(c, T)
         /\ ForemostScribe(c, S) => ForemostScribe(c, T)
<1>1. IsFiniteSet(T)
  BY FS_Subset DEF IsView
<1>2. IsView(T)
  BY <1>1 DEF IsView
<1>3. PinnedOf(T) \in SUBSET PinnedOf(S) /\ (c \in PinnedOf(S) => c \in PinnedOf(T))
  BY DEF PinnedOf
<1>4. LowestPin(c, S) => LowestPin(c, T) /\ PinnedOf(T) # {}
  BY <1>3 DEF LowestPin
<1>5. PinnedOf(S) = {} => PinnedOf(T) = {}
  BY <1>3
<1> QED
  BY <1>2, <1>4, <1>5 DEF Foremost, ForemostScribe

\* What changes when candidates only leave a view: not the chosen member, while
\* it stays.
LEMMA ChoiceKept ==
  ASSUME NEW S, IsView(S), NEW T \in SUBSET S, NEW none, NEW sel, sel \in {c.id : c \in T}
  PROVE  /\ sel = SelectCandidate(S, none) => sel = SelectCandidate(T, none)
         /\ sel = SelectScribe(S, none) => sel = SelectScribe(T, none)
<1>1. PICK e \in T : sel = e.id
  OBVIOUS
<1>2. e \in S /\ S # {} /\ \A c \in S : c.id = sel => c = e
  BY <1>1 DEF IsView
<1>3. PICK s \in CandidateOrders(S) : s[1] \in S /\ Foremost(s[1], S)
  BY <1>2, OrdersOfView
<1>4. PICK q \in ScribeOrders(S) : q[1] \in S /\ ForemostScribe(q[1], S)
  BY <1>2, OrdersOfView
<1>5. SelectCandidate(S, none) = s[1].id /\ SelectScribe(S, none) = q[1].id
  BY <1>3, <1>4, ChosenCandidate, ChosenScribe
<1>6. ASSUME sel = SelectCandidate(S, none) PROVE sel = SelectCandidate(T, none)
  <2>1. s[1] = e
    BY <1>2, <1>3, <1>5, <1>6
  <2>2. Foremost(e, T) /\ IsView(T)
    BY <1>3, <2>1, ForemostStays
  <2> QED
    BY <1>1, <2>2, ChosenCandidate
<1>7. ASSUME sel = SelectScribe(S, none) PROVE sel = SelectScribe(T, none)
  <2>1. q[1] = e
    BY <1>2, <1>4, <1>5, <1>7
  <2>2. ForemostScribe(e, T) /\ IsView(T)
    BY <1>4, <2>1, ForemostStays
  <2> QED
    BY <1>1, <2>2, ChosenScribe
<1> QED
  BY <1>6, <1>7

\* No member that leaves the selection moves a role away from another that
\* stays (selectCandidate, selectScribe), pins or not.
THEOREM LosingOthersKeepsChoice == ViewSpec => KeepsChoice
<1> DEFINE Kept == \A sel \in {SelectCandidate(view, Nobody), SelectScribe(view, Nobody)} :
                     (view' \subseteq view /\ sel \in {c.id : c \in view'}) =>
                       /\ sel = SelectCandidate(view, Nobody) => sel = SelectCandidate(view', Nobody)
                       /\ sel = SelectScribe(view, Nobody) => sel = SelectScribe(view', Nobody)
<1>1. ASSUME ViewInv PROVE Kept
  BY <1>1, ChoiceKept DEF ViewInv
<1>2. ViewInv => [Kept]_view
  BY <1>1
<1> QED
  BY <1>2, ViewsAreSets, PTL DEF KeepsChoice

-----------------------------------------------------------------------------
USE DEF Phase, AdView, RuntimeView

-----------------------------------------------------------------------------
\* Type correctness.

\* What the shared steps leave well typed.
LEMMA PersistType ==
  ASSUME TypeOK, NEW n \in Node, NEW t \in Term, NEW o \in Node, Persist(n, t, o)
  PROVE  /\ dTerm' \in [Node -> Term]
         /\ dOrch' \in [Node -> Node \cup {None}]
         /\ pinned' \subseteq Node
         /\ faults' \in 0..MaxFaults
BY BoundAssumption, SMTT(30) DEF TypeOK, Persist, Fault

LEMMA AdoptType ==
  ASSUME TypeOK, NEW m \in Node, NEW from \in Node, NEW t \in Term,
         Adopt(m, from, t)
  PROVE  /\ term' \in [Node -> Term]
         /\ orch' \in [Node -> Node \cup {None}]
         /\ lease' \in [Node -> Phase]
         /\ votes' \subseteq (Node \X Term \X Node)
BY DEF TypeOK, Adopt

LEMMA CommitType ==
  ASSUME TypeOK, NEW n \in Node, NEW t \in Term, CommitSelfElection(n, t)
  PROVE  /\ term' \in [Node -> Term]
         /\ orch' \in [Node -> Node \cup {None}]
         /\ lease' \in [Node -> Phase]
         /\ faults' \in 0..MaxFaults
<1>1. term' \in [Node -> Term] /\ orch' \in [Node -> Node \cup {None}]
  BY DEF TypeOK, CommitSelfElection
<1>2. CASE lease' = [lease EXCEPT ![n] = "held"] /\ UNCHANGED faults
  BY <1>1, <1>2 DEF TypeOK
<1>3. CASE lease' = [lease EXCEPT ![n] = "expired"] /\ Fault("clock")
  BY <1>1, <1>3, BoundAssumption DEF TypeOK, Fault
<1> QED BY <1>2, <1>3 DEF CommitSelfElection

LEMMA TouchType ==
  ASSUME TypeOK, NEW pairs \in SUBSET (Node \X Node), TouchLive(pairs)
  PROVE  /\ live' \subseteq (Node \X Node) /\ seen' \subseteq (Node \X Node)
         /\ behind' \subseteq (Node \X Node)
         /\ registry' \in [Node -> SUBSET Node]
         /\ ads' \in [Node -> [Node -> AdView]]
BY DEF TypeOK, TouchLive

LEMMA EngineType ==
  ASSUME TypeOK, NEW n \in Node
  PROVE  /\ eng[n].term \in Term
         /\ eng[n].todo \subseteq Node /\ eng[n].acc \subseteq Node
         /\ Idle \in EngineState
         /\ \A m \in Node, ok \in BOOLEAN : Posted(eng[n], m, ok) \in EngineState
BY BoundAssumption DEF TypeOK, EngineState, Idle, Posted, Tally, Term

\* Every step keeps the state well typed.
LEMMA TypeStep == TypeOK /\ [Next]_vars => TypeOK'
<1> SUFFICES ASSUME TypeOK, [Next]_vars PROVE TypeOK'
  OBVIOUS
<1> USE NodeAssumption, BoundAssumption
<1>1. ASSUME NEW n \in Node, BeginEmit(n) PROVE TypeOK'
  BY <1>1 DEF BeginEmit, Round, EngineState, TypeOK, stateVars, diskVars, peerVars,
              ghostVars
<1>2. ASSUME NEW n \in Node, BeginElection(n) PROVE TypeOK'
  BY <1>2 DEF BeginElection, Round, EngineState, Term, TypeOK, stateVars, diskVars,
              peerVars, ghostVars
<1>3. ASSUME NEW n \in Node, NEW m \in Node, Deliver(n, m) PROVE TypeOK'
  <2>1. /\ term' \in [Node -> Term] /\ orch' \in [Node -> Node \cup {None}]
        /\ lease' \in [Node -> Phase]
        /\ votes' \subseteq (Node \X Term \X Node)
    BY <1>3, EngineType, AdoptType DEF Deliver
  <2>2. /\ dTerm' \in [Node -> Term] /\ dOrch' \in [Node -> Node \cup {None}]
        /\ pinned' \subseteq Node /\ faults' \in 0..MaxFaults
    <3>1. CASE Changed(m, eng[n].term, n)
      BY <1>3, <3>1, EngineType, PersistType DEF Deliver, PersistIf
    <3>2. CASE ~Changed(m, eng[n].term, n)
      BY <1>3, <3>2 DEF Deliver, PersistIf, TypeOK, diskVars
    <3> QED BY <3>1, <3>2
  <2>3. /\ live' \subseteq (Node \X Node) /\ seen' \subseteq (Node \X Node)
        /\ behind' \subseteq (Node \X Node)
        /\ registry' \in [Node -> SUBSET Node]
        /\ ads' \in [Node -> [Node -> AdView]]
    BY <1>3, TouchType DEF Deliver
  <2>4. eng' \in [Node -> EngineState]
    BY <1>3, EngineType DEF Deliver, TypeOK
  <2> QED BY <1>3, <2>1, <2>2, <2>3, <2>4 DEF Deliver, TypeOK, ghostVars
<1>4. ASSUME NEW n \in Node, NEW m \in Node, Refuse(n, m) PROVE TypeOK'
  <2>1. /\ live' \subseteq (Node \X Node) /\ seen' \subseteq (Node \X Node)
        /\ behind' \subseteq (Node \X Node)
        /\ registry' \in [Node -> SUBSET Node]
        /\ ads' \in [Node -> [Node -> AdView]]
    BY <1>4, TouchType DEF Refuse
  <2>2. eng' \in [Node -> EngineState]
    BY <1>4, EngineType DEF Refuse, TypeOK
  <2> QED BY <1>4, <2>1, <2>2 DEF Refuse, TypeOK, stateVars, diskVars, ghostVars
<1>5. ASSUME NEW n \in Node, NEW m \in Node, Lose(n, m) PROVE TypeOK'
  <2>1. eng' \in [Node -> EngineState]
    BY <1>5, EngineType DEF Lose, TypeOK
  <2>2. late' \subseteq Heartbeat /\ faults' \in 0..MaxFaults
    BY <1>5, EngineType DEF Lose, TypeOK, Heartbeat, Fault
  <2> QED BY <1>5, <2>1, <2>2
          DEF Lose, TypeOK, stateVars, diskVars, peerVars, ghostVars
<1>6. ASSUME NEW n \in Node, FinishEmit(n) PROVE TypeOK'
  <2>1. eng' \in [Node -> EngineState]
    BY <1>6, EngineType DEF FinishEmit, TypeOK
  <2> QED BY <1>6, <2>1, EngineType, CommitType
          DEF FinishEmit, TypeOK, diskVars, peerVars, ghostVars
<1>7. ASSUME NEW n \in Node, WinElection(n) PROVE TypeOK'
  <2>1. [mode |-> "persist", term |-> eng[n].term, todo |-> {}, acc |-> {}]
          \in EngineState
    BY EngineType DEF EngineState
  <2>2. eng' \in [Node -> EngineState]
    BY <1>7, <2>1, EngineType DEF WinElection, TypeOK
  <2>3. won' \subseteq Win
    <3>1. eng[n].acc \cup {n} \in SUBSET Node /\ eng[n].term \in Term
      BY EngineType
    <3>2. [by |-> n, term |-> eng[n].term, backers |-> eng[n].acc \cup {n}] \in Win
      BY <3>1 DEF Win
    <3> QED BY <1>7, <3>2 DEF WinElection, TypeOK
  <2>4. elected' \in [Node -> SUBSET Term]
    BY <1>7, EngineType DEF WinElection, TypeOK
  <2> QED BY <1>7, <2>2, <2>3, <2>4, EngineType, CommitType
          DEF WinElection, TypeOK, diskVars, peerVars
<1>8. ASSUME NEW n \in Node, AbortElection(n) PROVE TypeOK'
  BY <1>8, EngineType
     DEF AbortElection, TypeOK, stateVars, diskVars, peerVars, ghostVars
<1>9. ASSUME NEW n \in Node, PersistWin(n) PROVE TypeOK'
  <2>1. eng' \in [Node -> EngineState]
    BY <1>9, EngineType DEF PersistWin, TypeOK
  <2> QED BY <1>9, <2>1, EngineType, PersistType
          DEF PersistWin, TypeOK, stateVars, peerVars, ghostVars
<1>10. ASSUME NEW n \in Node, Elapse(n) PROVE TypeOK'
  <2>1. faults' \in 0..MaxFaults
    BY <1>10 DEF Elapse, Fault, TypeOK
  <2> QED BY <1>10, <2>1
          DEF Elapse, NextPhase, TypeOK, diskVars, peerVars, ghostVars
<1>11. ASSUME NEW n \in Node, Pin(n) PROVE TypeOK'
  BY <1>11 DEF Pin, Fault, TypeOK, stateVars, peerVars, ghostVars
<1>12. ASSUME NEW n \in Node, NEW r \in RuntimeView, RuntimeChange(n, r)
       PROVE TypeOK'
  BY <1>12 DEF RuntimeChange, Fault, TypeOK, stateVars, diskVars, peerVars, ghostVars
<1>13. ASSUME NEW n \in Node, Crash(n) PROVE TypeOK'
  <2>1. /\ live' \subseteq (Node \X Node) /\ seen' \subseteq (Node \X Node)
        /\ behind' \subseteq (Node \X Node)
    BY <1>13 DEF Crash, TypeOK
  <2>2. eng' \in [Node -> EngineState]
    BY <1>13, EngineType DEF Crash, TypeOK
  <2> QED BY <1>13, <2>1, <2>2 DEF Crash, Fault, StartPhase, TypeOK, diskVars
<1>14. ASSUME NEW n \in Node, Restart(n) PROVE TypeOK'
  BY <1>14 DEF Restart, TypeOK, stateVars, diskVars, peerVars, ghostVars
<1>15. ASSUME NEW n \in Node, NEW m \in Node, Advertise(m, n) PROVE TypeOK'
  BY <1>15 DEF Advertise, AdOf, TypeOK, stateVars, diskVars, ghostVars
<1>16. ASSUME NEW n \in Node, NEW m \in Node, AdvertiseOlder(m, n) PROVE TypeOK'
  BY <1>16 DEF AdvertiseOlder, TypeOK, stateVars, diskVars, ghostVars
<1>17. ASSUME NEW n \in Node, NEW m \in Node, CatchUp(m, n) PROVE TypeOK'
  BY <1>17 DEF CatchUp, TypeOK, stateVars, diskVars, ghostVars
<1>18. ASSUME NEW n \in Node, NEW m \in Node, AdLapse(n, m) PROVE TypeOK'
  <2>1. faults' \in 0..MaxFaults
    BY <1>18 DEF AdLapse, Fault, TypeOK
  <2> QED BY <1>18, <2>1 DEF AdLapse, TypeOK, stateVars, diskVars, ghostVars
<1>19. ASSUME NEW h \in late, HandleLate(h) PROVE TypeOK'
  <2>1. h.to \in Node /\ h.from \in Node /\ h.term \in Term
    BY DEF Heartbeat, TypeOK
  <2>2. /\ term' \in [Node -> Term] /\ orch' \in [Node -> Node \cup {None}]
        /\ lease' \in [Node -> Phase]
        /\ votes' \subseteq (Node \X Term \X Node)
    BY <1>19, <2>1, AdoptType DEF HandleLate
  <2>3. /\ live' \subseteq (Node \X Node) /\ seen' \subseteq (Node \X Node)
        /\ behind' \subseteq (Node \X Node)
        /\ registry' \in [Node -> SUBSET Node]
        /\ ads' \in [Node -> [Node -> AdView]]
    BY <1>19, <2>1, TouchType DEF HandleLate
  <2>4. pend' \in [Node -> SUBSET (Term \X Node)] /\ late' \subseteq Heartbeat
    <3>1. <<h.term, h.from>> \in Term \X Node
      BY <2>1
    <3>2. CASE Changed(h.to, h.term, h.from)
      BY <1>19, <2>1, <3>1, <3>2 DEF HandleLate, TypeOK
    <3>3. CASE ~Changed(h.to, h.term, h.from)
      BY <1>19, <3>3 DEF HandleLate, TypeOK
    <3> QED BY <3>2, <3>3
  <2> QED BY <1>19, <2>2, <2>3, <2>4 DEF HandleLate, TypeOK, diskVars, ghostVars
<1>20. ASSUME NEW h \in late, RefuseLate(h) PROVE TypeOK'
  BY <1>20 DEF RefuseLate, TypeOK, stateVars, diskVars, peerVars, ghostVars
<1>21. ASSUME NEW n \in Node, NEW p \in pend[n], PersistLate(n, p) PROVE TypeOK'
  <2>1. p[1] \in Term /\ p[2] \in Node
    BY DEF TypeOK
  <2> QED BY <1>21, <2>1, PersistType
          DEF PersistLate, TypeOK, stateVars, peerVars, ghostVars
<1>22. CASE UNCHANGED vars
  BY <1>22 DEF vars, TypeOK, stateVars, diskVars, peerVars, ghostVars
<1> QED
  BY <1>1, <1>2, <1>3, <1>4, <1>5, <1>6, <1>7, <1>8, <1>9, <1>10, <1>11, <1>12,
     <1>13, <1>14, <1>15, <1>16, <1>17, <1>18, <1>19, <1>20, <1>21, <1>22
     DEF Next, Engine, Environment, Peers

\* The election state of every member of every Clan stays well typed; in
\* particular no round announces a term beyond the bound.
THEOREM TypeCorrect == Spec => []TypeOK
<1>1. Init => TypeOK
  BY NodeAssumption, BoundAssumption
     DEF Init, InitWith, TypeOK, Term, EngineState, Idle, StartPhase
<1> QED BY <1>1, TypeStep, PTL DEF Spec

-----------------------------------------------------------------------------
\* The inductive invariant behind the safety properties.

\* Whoever holds its own lease won the term since its daemon started, a round
\* of renewals runs in such a term, and nobody POSTs to itself.
LeaseInv ==
  \A n \in Node : orch[n] = n /\ lease[n] = "held" => term[n] \in elected[n]
EmitInv ==
  \A n \in Node : eng[n].mode = "emit" => eng[n].term \in elected[n]
OthersOnly ==
  /\ \A n \in Node : n \notin eng[n].todo
  /\ \A h \in late : h.from # h.to
LeadInv == LeaseInv /\ EmitInv /\ OthersOnly

\* Every accept tallied in an election is an acceptance of the announced term.
TallyInv ==
  \A n \in Node : eng[n].mode = "elect" =>
    \A v \in eng[n].acc : <<v, eng[n].term, n>> \in votes
BackInv == TallyInv /\ WinsAreBacked

\* Steps that touch neither leases, rounds, requests nor the history.
Quiet == UNCHANGED <<stateVars, eng, late, votes, ghostVars>>

LEMMA QuietSteps ==
  /\ \A n, m \in Node : Peers(n, m) => Quiet
  /\ \A n \in Node : \/ Pin(n) \/ Restart(n)
                     \/ \E r \in RuntimeView : RuntimeChange(n, r)
                     \/ \E p \in pend[n] : PersistLate(n, p)
                     => Quiet
BY DEF Quiet, Peers, Advertise, AdvertiseOlder, CatchUp, AdLapse, Pin, Restart,
       RuntimeChange, PersistLate

\* Nobody leads, or renews, a term it did not win: preserved by every step.
LEMMA LeadStep == TypeOK /\ LeadInv /\ [Next]_vars => LeadInv'
<1> SUFFICES ASSUME TypeOK, LeadInv, [Next]_vars PROVE LeadInv'
  OBVIOUS
<1> USE DEF LeadInv, LeaseInv, EmitInv, OthersOnly
<1>1. ASSUME NEW n \in Node, BeginEmit(n) PROVE LeadInv'
  <2>1. term[n] \in elected[n]
    BY <1>1 DEF BeginEmit, IAmOrchestrator
  <2>2. EmitInv'
    BY <1>1, <2>1 DEF BeginEmit, Round, TypeOK, ghostVars
  <2> QED BY <1>1, <2>2 DEF BeginEmit, Round, TypeOK, stateVars, ghostVars
<1>2. ASSUME NEW n \in Node, BeginElection(n) PROVE LeadInv'
  BY <1>2 DEF BeginElection, Round, TypeOK, stateVars, ghostVars
<1>3. ASSUME NEW n \in Node, NEW m \in Node, Deliver(n, m) PROVE LeadInv'
  <2>1. n # m
    BY <1>3 DEF Deliver
  <2>2. LeaseInv'
    BY <1>3, <2>1 DEF Deliver, Adopt, TypeOK, ghostVars
  <2>3. EmitInv' /\ OthersOnly'
    BY <1>3 DEF Deliver, Posted, TypeOK, ghostVars
  <2> QED BY <2>2, <2>3
<1>4. ASSUME NEW n \in Node, NEW m \in Node, Refuse(n, m) PROVE LeadInv'
  BY <1>4 DEF Refuse, Posted, TypeOK, stateVars, ghostVars
<1>5. ASSUME NEW n \in Node, NEW m \in Node, Lose(n, m) PROVE LeadInv'
  <2>1. LeaseInv' /\ EmitInv' /\ \A k \in Node : k \notin eng'[k].todo
    BY <1>5 DEF Lose, Posted, TypeOK, stateVars, ghostVars
  <2>2. \A h \in late' : h.from # h.to
    BY <1>5 DEF Lose
  <2> QED BY <2>1, <2>2
<1>6. ASSUME NEW n \in Node, FinishEmit(n) PROVE LeadInv'
  <2>1. eng[n].term \in elected[n]
    BY <1>6 DEF FinishEmit
  <2>2. LeaseInv'
    BY <1>6, <2>1 DEF FinishEmit, CommitSelfElection, TypeOK, ghostVars
  <2> QED BY <1>6, <2>2 DEF FinishEmit, Idle, TypeOK, ghostVars
<1>7. ASSUME NEW n \in Node, WinElection(n) PROVE LeadInv'
  <2>1. /\ eng[n].term \in elected'[n]
        /\ \A k \in Node : elected[k] \subseteq elected'[k]
    BY <1>7 DEF WinElection, TypeOK
  <2>2. LeaseInv'
    BY <1>7, <2>1 DEF WinElection, CommitSelfElection, TypeOK
  <2>3. \A k \in Node : k # n => eng'[k] = eng[k]
    BY <1>7 DEF WinElection, TypeOK
  <2>4. eng'[n].mode # "emit" /\ eng'[n].todo = {}
    BY <1>7 DEF WinElection, Idle, TypeOK
  <2> QED BY <1>7, <2>1, <2>2, <2>3, <2>4 DEF WinElection
<1>8. ASSUME NEW n \in Node, AbortElection(n) \/ PersistWin(n) PROVE LeadInv'
  <2>1. /\ eng' = [eng EXCEPT ![n] = Idle]
        /\ UNCHANGED <<term, orch, lease, late, elected>>
    BY <1>8 DEF AbortElection, PersistWin, stateVars, ghostVars
  <2> QED BY <2>1 DEF Idle, TypeOK
<1>9. ASSUME NEW n \in Node, Elapse(n) PROVE LeadInv'
  BY <1>9 DEF Elapse, NextPhase, TypeOK, ghostVars
<1>10. ASSUME NEW n \in Node, Crash(n) PROVE LeadInv'
  BY <1>10 DEF Crash, StartPhase, Idle, TypeOK
<1>11. ASSUME NEW h \in late, HandleLate(h) PROVE LeadInv'
  BY <1>11 DEF HandleLate, Adopt, TypeOK, ghostVars
<1>12. ASSUME NEW h \in late, RefuseLate(h) PROVE LeadInv'
  BY <1>12 DEF RefuseLate, stateVars, ghostVars
<1>13. CASE Quiet
  BY <1>13 DEF Quiet, stateVars, ghostVars
<1>14. CASE UNCHANGED vars
  BY <1>14 DEF vars, stateVars, ghostVars
<1> QED
  BY <1>1, <1>2, <1>3, <1>4, <1>5, <1>6, <1>7, <1>8, <1>9, <1>10, <1>11, <1>12,
     <1>13, <1>14, QuietSteps DEF Next, Engine, Environment

\* A member acts as Orchestrator only in a term it won since its daemon
\* started, whatever is lost, delayed, restarted or written to disk.
THEOREM LeadershipIsWon == Spec => []LeadsOnlyWonTerm
<1>1. Init => LeadInv
  BY DEF Init, InitWith, LeadInv, LeaseInv, EmitInv, OthersOnly, StartPhase, Idle
<1>2. LeadInv => LeadsOnlyWonTerm
  BY DEF LeadInv, LeaseInv, LeadsOnlyWonTerm, IAmOrchestrator
<1> QED BY <1>1, <1>2, LeadStep, TypeCorrect, PTL DEF Spec

-----------------------------------------------------------------------------
\* The tally of a round and the history of wins rest on real acceptances:
\* preserved by every step.
LEMMA BackStep == TypeOK /\ TypeOK' /\ BackInv /\ [Next]_vars => BackInv'
<1> SUFFICES ASSUME TypeOK, TypeOK', BackInv, [Next]_vars PROVE BackInv'
  OBVIOUS
<1> USE DEF BackInv, TallyInv, WinsAreBacked
<1>1. ASSUME NEW n \in Node, BeginEmit(n) \/ BeginElection(n) PROVE BackInv'
  <2>1. PICK mode, t : eng' = Round(mode, n, t)
    BY <1>1 DEF BeginEmit, BeginElection
  <2>2. UNCHANGED <<votes, won>>
    BY <1>1 DEF BeginEmit, BeginElection, ghostVars
  <2> QED BY <2>1, <2>2 DEF Round, TypeOK
<1>2. ASSUME NEW n \in Node, NEW m \in Node, Deliver(n, m) PROVE BackInv'
  <2>1. votes' = votes \cup {<<m, eng[n].term, n>>} /\ UNCHANGED won
    BY <1>2 DEF Deliver, Adopt, ghostVars
  <2>2. WinsAreBacked'
    BY <2>1
  <2>3. \A k \in Node : k # n => eng'[k] = eng[k]
    BY <1>2 DEF Deliver, TypeOK
  <2>4. /\ eng'[n].mode = eng[n].mode /\ eng'[n].term = eng[n].term
        /\ eng'[n].acc = eng[n].acc \cup {m}
    BY <1>2 DEF Deliver, Posted, Tally, TypeOK
  <2> QED BY <2>1, <2>2, <2>3, <2>4
<1>3. ASSUME NEW n \in Node, NEW m \in Node, Refuse(n, m) \/ Lose(n, m)
      PROVE BackInv'
  <2>1. eng' = [eng EXCEPT ![n] = Posted(eng[n], m, FALSE)]
    BY <1>3 DEF Refuse, Lose
  <2>2. \A k \in Node : /\ eng'[k].mode = eng[k].mode /\ eng'[k].term = eng[k].term
                        /\ eng'[k].acc = eng[k].acc
    BY <2>1 DEF Posted, Tally, TypeOK
  <2>3. UNCHANGED <<votes, won>>
    BY <1>3 DEF Refuse, Lose, ghostVars
  <2> QED BY <2>2, <2>3
<1>4. ASSUME NEW n \in Node, WinElection(n) PROVE BackInv'
  <2> DEFINE w == [by |-> n, term |-> eng[n].term, backers |-> eng[n].acc \cup {n}]
  <2>1. won' = won \cup {w} /\ votes' = votes
    BY <1>4 DEF WinElection
  <2>2. Cardinality(w.backers) >= Quorum
    BY <1>4 DEF WinElection
  <2>3. \A v \in w.backers \ {w.by} : <<v, w.term, w.by>> \in votes
    BY <1>4 DEF WinElection
  <2>4. WinsAreBacked'
    BY <2>1, <2>2, <2>3
  <2>5. \A k \in Node : k # n => eng'[k] = eng[k]
    BY <1>4 DEF WinElection, TypeOK
  <2>6. eng'[n].mode # "elect"
    BY <1>4 DEF WinElection, Idle, TypeOK
  <2> QED BY <2>1, <2>4, <2>5, <2>6
<1>5. ASSUME NEW n \in Node, FinishEmit(n) \/ AbortElection(n) \/ PersistWin(n)
      PROVE BackInv'
  <2>1. eng' = [eng EXCEPT ![n] = Idle] /\ UNCHANGED <<votes, won>>
    BY <1>5 DEF FinishEmit, AbortElection, PersistWin, ghostVars
  <2> QED BY <2>1 DEF Idle, TypeOK
<1>6. ASSUME NEW n \in Node, Elapse(n) PROVE BackInv'
  BY <1>6 DEF Elapse, ghostVars
<1>7. ASSUME NEW n \in Node, Crash(n) PROVE BackInv'
  BY <1>7 DEF Crash, Idle, TypeOK
<1>8. ASSUME NEW h \in late, HandleLate(h) \/ RefuseLate(h) PROVE BackInv'
  BY <1>8 DEF HandleLate, RefuseLate, Adopt, ghostVars
<1>9. CASE Quiet
  BY <1>9 DEF Quiet, ghostVars
<1>10. CASE UNCHANGED vars
  BY <1>10 DEF vars, ghostVars
<1> QED
  BY <1>1, <1>2, <1>3, <1>4, <1>5, <1>6, <1>7, <1>8, <1>9, <1>10, QuietSteps
     DEF Next, Engine, Environment

\* Every win is backed by a quorum of members that accepted the winner's
\* announcement of that very term.
THEOREM WinsRestOnVotes == Spec => []WinsAreBacked
<1>1. Init => BackInv
  BY DEF Init, InitWith, BackInv, TallyInv, WinsAreBacked, Idle
<1>2. BackInv => WinsAreBacked
  BY DEF BackInv
<1> QED BY <1>1, <1>2, BackStep, TypeCorrect, PTL DEF Spec

\* Two sets of members that each reach the quorum of an odd roster meet.
LEMMA QuorumsMeet ==
  ASSUME NEW A \in SUBSET Node, NEW B \in SUBSET Node,
         Active = Node, Cardinality(Node) % 2 = 1,
         Cardinality(A) >= Quorum, Cardinality(B) >= Quorum
  PROVE  A \cap B # {}
<1>1. IsFiniteSet(Node) /\ Cardinality(Node) \in Nat
  BY NodeAssumption, FS_CardinalityType
<1>2. /\ IsFiniteSet(A) /\ IsFiniteSet(B)
      /\ Cardinality(A) \in Nat /\ Cardinality(B) \in Nat
      /\ Cardinality(A \cup B) <= Cardinality(Node)
  BY <1>1, FS_Subset, FS_CardinalityType, FS_Union
<1>3. Cardinality(A \cup B)
        = Cardinality(A) + Cardinality(B) - Cardinality(A \cap B)
  BY <1>2, FS_Union
<1>4. Node # {}
  BY FS_EmptySet
<1>5. 2 * Quorum = Cardinality(Node) + 1 /\ Quorum \in Nat
  BY <1>1, <1>4 DEF Quorum
<1>6. Cardinality(A \cap B) # 0
  BY <1>1, <1>2, <1>3, <1>5, FS_Intersection, FS_CardinalityType
<1> QED BY <1>6, FS_EmptySet

\* With an odd active roster that is also the electorate, a term won twice
\* means that some member backed both winners.
THEOREM SplitsNeedDoubleVotes == Spec => []SplitNeedsDoubleVote
<1>1. TypeOK /\ WinsAreBacked => SplitNeedsDoubleVote
  <2> SUFFICES ASSUME TypeOK, WinsAreBacked,
                      Active = Node, Cardinality(Node) % 2 = 1,
                      NEW w \in won, NEW x \in won
               PROVE  w.backers \cap x.backers # {}
    BY DEF SplitNeedsDoubleVote
  <2>1. w.backers \in SUBSET Node /\ x.backers \in SUBSET Node
    BY DEF TypeOK, Win
  <2> QED BY <2>1, QuorumsMeet DEF WinsAreBacked
<1> QED BY <1>1, TypeCorrect, WinsRestOnVotes, PTL

-----------------------------------------------------------------------------
\* A running member outside a round never goes back to an older term.
THEOREM TermsHoldOutsideRounds == Spec => NoRegressOutsideRounds
<1> DEFINE Kept == \A n \in up \cap up' :
                     eng[n].mode \notin {"emit", "elect"} => term'[n] >= term[n]
<1>1. TypeOK /\ [Next]_vars => Kept
  <2> SUFFICES ASSUME TypeOK, [Next]_vars PROVE Kept
    OBVIOUS
  <2> USE DEF TypeOK, Term
  <2>1. ASSUME UNCHANGED term PROVE Kept
    BY <2>1, BoundAssumption
  <2>2. ASSUME NEW n \in Node, NEW m \in Node, Deliver(n, m) PROVE Kept
    <3>1. eng[n].term \in Nat /\ eng[n].term >= term[m]
      BY <2>2, EngineType, BoundAssumption DEF Deliver, Accepts
    <3> QED BY <2>2, <3>1, BoundAssumption DEF Deliver, Adopt
  <2>3. ASSUME NEW h \in late, HandleLate(h) PROVE Kept
    <3>1. h.term \in Nat /\ h.term >= term[h.to] /\ h.to \in Node
      BY <2>3, BoundAssumption DEF HandleLate, Accepts, Heartbeat
    <3> QED BY <2>3, <3>1, BoundAssumption DEF HandleLate, Adopt
  <2>4. ASSUME NEW n \in Node, FinishEmit(n) \/ WinElection(n) PROVE Kept
    BY <2>4, BoundAssumption DEF FinishEmit, WinElection, CommitSelfElection
  <2>5. ASSUME NEW n \in Node, Crash(n) PROVE Kept
    BY <2>5, BoundAssumption DEF Crash
  <2>6. ASSUME NEW n \in Node,
               \/ BeginEmit(n) \/ BeginElection(n) \/ AbortElection(n)
               \/ PersistWin(n) \/ Elapse(n)
        PROVE  UNCHANGED term
    BY <2>6 DEF BeginEmit, BeginElection, AbortElection, PersistWin, Elapse, stateVars
  <2>7. ASSUME NEW n \in Node, NEW m \in Node, Refuse(n, m) \/ Lose(n, m)
        PROVE  UNCHANGED term
    BY <2>7 DEF Refuse, Lose, stateVars
  <2>8. ASSUME NEW h \in late, RefuseLate(h) PROVE UNCHANGED term
    BY <2>8 DEF RefuseLate, stateVars
  <2>9. ASSUME Quiet \/ UNCHANGED vars PROVE UNCHANGED term
    BY <2>9 DEF Quiet, vars, stateVars
  <2> HIDE DEF Kept
  <2> QED
    BY <2>1, <2>2, <2>3, <2>4, <2>5, <2>6, <2>7, <2>8, <2>9, QuietSteps
       DEF Next, Engine, Environment
<1>2. [][Kept]_vars <=> NoRegressOutsideRounds
  BY PTL DEF NoRegressOutsideRounds
<1> QED BY <1>1, <1>2, TypeCorrect, PTL DEF Spec
=============================================================================
