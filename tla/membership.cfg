SPECIFICATION MCFairSpec
CONSTANTS
  Member = {s, a, b}
  Self = s
  Veteran = a
  Clan = {c1, c2}
  None = None
  Token = {t}
  Knocks = {k}
  PeerRoster <- MCPeerRoster
  MaxOps = 3
  MaxFaults = 1
INVARIANTS TypeOK TicketsAdmitOnce TokensKeepTheirClan
PROPERTIES NoBackslide AdmittedSettles
CHECK_DEADLOCK FALSE
