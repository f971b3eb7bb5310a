SPECIFICATION ManagerSafety
CONSTANTS
  Peers = {p1, p2, p3}
  MaxOffset = 2
  MinLength = 1
  MaxEntries = 3
SYMMETRY Symmetry
INVARIANTS
  ManagerTypeOK
  TokensExclusive
  
  GrantStands
PROPERTY ImplementsByteTokens
