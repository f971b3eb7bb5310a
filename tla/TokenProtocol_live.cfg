SPECIFICATION ProtocolSpec
CONSTANTS
  Peers = {p1, p2}
  MaxOffset = 2
  MinLength = 1
  MaxEntries = 2
  Modes = {TRUE, FALSE}
  OrderedDelivery = FALSE
CHECK_DEADLOCK FALSE
PROPERTY AnsweredUnlessLeaked
