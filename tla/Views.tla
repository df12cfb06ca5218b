------------------------------- MODULE Views --------------------------------
(***************************************************************************)
(* The selections over every view a daemon can have: peers enter its       *)
(* registry with an eligible ad (Arrive) and leave the selection when they *)
(* are no longer live or eligible (Depart), one at a time.                 *)
(***************************************************************************)
EXTENDS Selection, FiniteSets

CONSTANTS
  Id, Scores, Dates,   \* the members there may be, and what they advertise
  Nobody               \* the selection of an empty view

ASSUME ViewSets == Id \subseteq Nat /\ Scores \subseteq Nat /\ Dates \subseteq Nat

VARIABLE view   \* the candidates selectCandidate and selectScribe collect

Candidacy == [id : Id, score : Scores, pinned : BOOLEAN, admitted : Dates]

ViewInit == view = {}

Arrive(c) == c.id \notin {d.id : d \in view} /\ view' = view \cup {c}

Depart(c) == c \in view /\ view' = view \ {c}

ViewNext == \E c \in Candidacy : Arrive(c) \/ Depart(c)

ViewSpec == ViewInit /\ [][ViewNext]_view

-----------------------------------------------------------------------------
\* What sort.Slice may leave of the members of S: an arrangement in which none
\* is Before an earlier one.  The sort is not stable, so it is any of them.
Sorted(S, Before(_, _)) ==
  {s \in [1..Cardinality(S) -> S] :
     \A i, j \in 1..Cardinality(S) : i < j => s[i] # s[j] /\ ~ Before(s[j], s[i])}

SmallerId(c, d) == c.id < d.id

\* The sorted slices selectCandidate and selectScribe may take the first of.
CandidateOrders(S) ==
  IF PinnedOf(S) # {} THEN Sorted(PinnedOf(S), SmallerId) ELSE Sorted(S, Ahead)
ScribeOrders(S) ==
  IF PinnedOf(S) # {} THEN Sorted(PinnedOf(S), SmallerId) ELSE Sorted(S, ScribeAhead)

\* engine.go sorts a slice that comes out of a Go map with an unstable sort.
\* The comparison leaves an order to sort into, and whichever the sort arrives
\* at, the first is the same: all daemons with the same ads choose the same
\* Orchestrator and the same Scribe.
OrderIrrelevant ==
  view # {} =>
    /\ CandidateOrders(view) # {} /\ ScribeOrders(view) # {}
    /\ \A s \in CandidateOrders(view) : SelectCandidate(view, Nobody) = s[1].id
    /\ \A s \in ScribeOrders(view) : SelectScribe(view, Nobody) = s[1].id

\* Losing other members never moves a role: while the chosen member stays in
\* view it stays chosen, so a dying follower makes no leader step down.
KeepsChoice ==
  [][\A sel \in {SelectCandidate(view, Nobody), SelectScribe(view, Nobody)} :
       (view' \subseteq view /\ sel \in {c.id : c \in view'}) =>
         /\ sel = SelectCandidate(view, Nobody) => sel = SelectCandidate(view', Nobody)
         /\ sel = SelectScribe(view, Nobody) => sel = SelectScribe(view', Nobody)]_view

\* clan-protocol.md 13.8: Scribe and Orchestrator coincide "when exactly one
\* member is scribe-capable ... The inverse selection otherwise guarantees they
\* differ."  Stated for unpinned members that qualify for both roles.
ScribeDiffers ==
  (Cardinality(view) >= 2 /\ PinnedOf(view) = {}) =>
    SelectCandidate(view, Nobody) # SelectScribe(view, Nobody)
=============================================================================
