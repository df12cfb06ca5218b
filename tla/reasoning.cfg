SPECIFICATION FairSpec
CONSTANTS
  Member = {m1, m2, m3}
  None = None
  MaxHops = 4
  MaxMoves = 1
  MaxDeltas = 2
  MaxTools = 1
INVARIANTS AnthropicEnvelope 
 
CHECK_DEADLOCK FALSE
