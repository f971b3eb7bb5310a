SPECIFICATION ProtocolSafety
CONSTANTS
  Peers = {p1, p2}
  MaxOffset = 2
  MinLength = 1
  MaxEntries = 3
  Modes = {TRUE, FALSE}
  OrderedDelivery = FALSE
INVARIANT ClientsExclusive
