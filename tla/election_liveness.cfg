SPECIFICATION MCFairSpec
CONSTANTS
  Node = {1, 2}
  Active = {1, 2}
  None = None
  Score <- MCScore
  Admitted <- MCAdmitted
  MaxTerm = 3
  MaxFaults = 1
  FaultKinds = {"loss", "delay", "disk", "clock", "ad", "pin", "runtime", "crash"}
INVARIANTS LeadsOnlyWonTerm
 
CHECK_DEADLOCK FALSE
