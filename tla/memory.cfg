SPECIFICATION MemFairSpec
CONSTANTS
  m1 = m1
  m2 = m2
  Member = {m1, m2}
  Id <- MCId
  Edge <- MCEdge
  Body <- MCBody
  NoBody = 0
  Rank <- MCRank
  Imported <- MCImported
  Refiled <- MCRefiled
  SessionOf <- MCSessionOf
  NoId = 0
  EventId = 1
  EventBody = 1
  MaxNodes = 2
  Start <- MCStart
  Clock <- MCClock
  MaxEdits = 2
  MaxFaults = 1
INVARIANTS DigestOfDisk HighWater
PROPERTIES NeverRewinds DurableForward Converges
CHECK_DEADLOCK FALSE
