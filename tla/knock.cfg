SPECIFICATION FairSpec
CONSTANTS
  Joiner = {j1}
  Clan = {c1, c2}
  None = None
  MaxCmds = 2
  MaxFaults = 2
INVARIANTS JoinsOnOwnWelcome 
PROPERTIES KnockSettles
CHECK_DEADLOCK FALSE
