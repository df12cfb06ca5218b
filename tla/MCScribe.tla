------------------------------ MODULE MCScribe ------------------------------
(* An instance of Scribe for TLC: one daemon, one session with its summary. *)
EXTENDS Scribe

CONSTANTS m1

\* 1 is a session, 2 its summary, 3 and 4 any other nodes.
MCId == {1, 2, 3, 4}
MCEdge == {<<2, 1>>, <<3, 1>>}
MCBody ==
  [type : {"finding"}, status : {"proposed", "active", "archived"},
   src : {"manual", "scribe", "import"}, session : {0, 1}]
  \cup [type : {"research_session"}, status : {"active", "archived"},
        src : {"manual", "scribe", "import"}, session : {0}]

\* People add findings to the session, as proposals too.
MCPosted == {b \in MCBody : b.src = "manual" /\ b.type = "finding" /\ b.session = 1
                         /\ b.status # "archived"}

StatusRank == [proposed |-> 1, active |-> 2, archived |-> 3]
SrcRank == [manual |-> 0, scribe |-> 4, import |-> 8]
MCNoBody == [type |-> "", status |-> "", src |-> "", session |-> 0]
MCRank == [b \in {MCNoBody} \cup MCBody |->
             IF b = MCNoBody THEN 0
             ELSE StatusRank[b.status] + SrcRank[b.src] + 16 * b.session
                  + (IF b.type = "finding" THEN 0 ELSE 32)]
MCImported == [b \in MCBody |-> [b EXCEPT !.src = "import"]]
MCRefiled == [old \in MCBody |-> [new \in MCBody |-> [new EXCEPT !.src = old.src]]]
MCSessionOf == [b \in MCBody |-> b.session]
MCEventBody ==
  [type |-> "finding", status |-> "active", src |-> "manual", session |-> 0]
MCSummaryId == [i \in {1} |-> 2]
\* The session is open.
MCStart ==
  [m \in {m1} |->
    [NewGraph EXCEPT !.node[1] =
      [upd |-> 1, rev |-> 1, body |-> NewSession]]]
MCClock == [m \in {m1} |-> {2}]
=============================================================================
