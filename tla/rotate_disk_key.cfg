SPECIFICATION Spec
CONSTANTS
  Member = {a, b}
  Orchestrators = {a}
  Rotation = {r1}
  Old = Old
  None = None
  MaxOpen = 1
  MaxFaults = 0
  FaultKinds = {}
INVARIANTS DiskKeyAccepted
CHECK_DEADLOCK FALSE
SYMMETRY Symmetry
