SPECIFICATION CoherenceSafety
CONSTANTS
  Clients = {c1, c2}
  Size = 3
  BlockSize = 2
  Ranges <- MCRanges
  Nobody = Nobody
SYMMETRY Symmetry
CONSTRAINT Unspoiled
INVARIANTS
  CoherenceTypeOK
  
  
