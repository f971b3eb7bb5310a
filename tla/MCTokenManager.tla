--------------------------- MODULE MCTokenManager ---------------------------
EXTENDS TokenManager, TLC
Symmetry == Permutations(Peers)
=============================================================================
