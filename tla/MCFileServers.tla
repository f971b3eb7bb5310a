--------------------------- MODULE MCFileServers ---------------------------
EXTENDS FileServers, TLC
Symmetry == Permutations(Clients)
MCWidths == [f \in Names |-> {2, 3}]
=============================================================================
