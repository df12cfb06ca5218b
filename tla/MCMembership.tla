---------------------------- MODULE MCMembership ----------------------------
(***************************************************************************)
(* Small instances of Membership.  Veteran is a member that joined and was *)
(* promoted before the run starts, a state Init reaches by Welcome and     *)
(* Promote.  A peer's roster holds the others in any standing and Self as  *)
(* admitted (a fresh join) or active.                                      *)
(***************************************************************************)
EXTENDS Membership

CONSTANT Veteran

MCPeerRoster ==
  {r \in [Member -> {"absent", "admitted", "active", "revoked"}] :
     r[Self] \in {"admitted", "active"}}

\* The Clans are alike: one of them to start with is enough.
MCInit ==
  /\ InitWith([m \in Member |-> IF m \in {Self, Veteran} THEN "active" ELSE "absent"])
  /\ file.id = CHOOSE c \in Clan : TRUE

MCSpec == MCInit /\ [][Next]_vars
MCFairSpec == MCSpec /\ Fairness
=============================================================================
