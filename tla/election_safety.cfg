SPECIFICATION MCSpec
CONSTANTS
  Node = {1, 2, 3}
  Active = {1, 2, 3}
  None = None
  Score <- MCScore
  Admitted <- MCAdmitted
  MaxTerm = 2
  MaxFaults = 2
  FaultKinds = {"loss", "delay", "disk", "clock"}
INVARIANTS TypeOK WinsAreBacked SplitNeedsDoubleVote
 
CHECK_DEADLOCK FALSE
