SPECIFICATION ProtocolSafety
CONSTANTS
  Peers = {p1, p2}
  MaxOffset = 3
  MinLength = 1
  MaxEntries = 2
  Modes = {TRUE, FALSE}
  OrderedDelivery = TRUE
CHECK_DEADLOCK FALSE
SYMMETRY Symmetry
INVARIANTS
  ProtocolTypeOK
  
  GrantedTokensKept
  
