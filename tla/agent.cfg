SPECIFICATION FairSpec
CONSTANTS
  Req = {r1}
  Tool = {exec, read}
  readTools = {read}
  MaxIters = 2
  MaxCalls = 2
  NoCall = NoCall
INVARIANTS RanOnOwnApproval ReadOnlyChangesNothing
PROPERTIES  ChatEnds
CHECK_DEADLOCK FALSE
