SPECIFICATION ScribeSpec
CONSTANTS
  m1 = m1
  Member = {m1}
  Self = m1
  Client = {c1}
  Id <- MCId
  Edge <- MCEdge
  Body <- MCBody
  Posted <- MCPosted
  NoBody <- MCNoBody
  Rank <- MCRank
  Imported <- MCImported
  Refiled <- MCRefiled
  SessionOf <- MCSessionOf
  Session = {1}
  SummaryId <- MCSummaryId
  NoId = 0
  EventId = 3
  EventBody <- MCEventBody
  MaxNodes = 3
  Start <- MCStart
  Clock <- MCClock
  MaxEdits = 2
  MaxFaults = 1
  Budget = 0
  MaxProposals = 1
  MaxLog = 2
INVARIANTS PeoplePromote PendingBounded FreshOnce
PROPERTIES TombstonesHold
CHECK_DEADLOCK FALSE
