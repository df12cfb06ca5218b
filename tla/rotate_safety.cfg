SPECIFICATION FairSpec
CONSTANTS
  Member = {a, b, c}
  Orchestrators = {a, b}
  Rotation = {r1, r2}
  Old = Old
  None = None
  MaxOpen = 2
  MaxFaults = 1
  FaultKinds = {"loss", "delay", "crash"}
INVARIANTS TypeOK KeyNeedsEveryAck HeardThroughout SharedWhenOrderly
PROPERTIES ProposesSettle
CHECK_DEADLOCK FALSE
