----------------------------- MODULE Selection -----------------------------
(***************************************************************************)
(* Who should be Orchestrator and who should be Scribe: the two pure       *)
(* selections of cland/internal/election/engine.go.  Both look at a set of *)
(* candidates, one record per member that passes the eligibility gates:    *)
(*                                                                         *)
(*   id        member_id; ids are compared with <, so they are numbers     *)
(*   score     reasoning_score of the latest advertisement                 *)
(*   pinned    the advertised pin for the role being selected              *)
(*   admitted  AdmittedAt of the roster entry (0 when it has none)         *)
(*                                                                         *)
(* The code sorts the candidates with sort.Slice, which is not stable, and *)
(* takes the first.  Ahead and ScribeAhead are the two comparison          *)
(* functions; the selections CHOOSE the element that is ahead of all       *)
(* others, which is what such a sort puts at the front.                    *)
(***************************************************************************)
EXTENDS Naturals

Candidate(Id) == [id : Id, score : Nat, pinned : BOOLEAN, admitted : Nat]

\* (faulty) a tie-break that stops at AdmittedAt.
SeniorByDate(c, d) == c.admitted <= d.admitted

\* Tie-break shared by both roles: oldest AdmittedAt, then lowest member_id.
Senior(c, d) ==
  \/ c.admitted < d.admitted
  \/ c.admitted = d.admitted /\ c.id < d.id

\* Orchestrator order: the highest reasoning_score is ahead.
Ahead(c, d) ==
  \/ c.score > d.score
  \/ c.score = d.score /\ Senior(c, d)

\* Scribe order: the same with the score comparison inverted.
ScribeAhead(c, d) ==
  \/ c.score < d.score
  \/ c.score = d.score /\ Senior(c, d)

\* (faulty) several pins cancel each other.
PinnedIfSingle(S) ==
  {c \in S : c.pinned /\ \A d \in S : d.pinned => d = c}

\* The pinned candidates of S; when there are any, only they compete.
PinnedOf(S) == {c \in S : c.pinned}

\* Of several pinned candidates the lowest member_id wins.
LowestId(S) == CHOOSE c \in S : \A d \in S : c.id <= d.id

\* selectCandidate: the member_id of the chosen Orchestrator, none for an
\* empty set of candidates.
SelectCandidate(S, none) ==
  IF S = {} THEN none
  ELSE IF PinnedOf(S) # {} THEN LowestId(PinnedOf(S)).id
  ELSE (CHOOSE c \in S : \A d \in S \ {c} : Ahead(c, d)).id

\* selectScribe: the inverse selection over the scribe-capable members.
SelectScribe(S, none) ==
  IF S = {} THEN none
  ELSE IF PinnedOf(S) # {} THEN LowestId(PinnedOf(S)).id
  ELSE (CHOOSE c \in S : \A d \in S \ {c} : ScribeAhead(c, d)).id
=============================================================================
