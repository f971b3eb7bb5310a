SPECIFICATION ServersSafety
CONSTANTS
  NumServers = 2
  StripeSize = 2
  BlockSize = 2
  Names = {f}
  Clients = {c1, c2}
  Widths <- MCWidths
  FileSize = 8
  Values = {1}
  Hole = Hole
CHECK_DEADLOCK FALSE
INVARIANTS
  ServersTypeOK
  RefusedOnlyIfSpoiled
  ReadsReturnWrites
SYMMETRY Symmetry
