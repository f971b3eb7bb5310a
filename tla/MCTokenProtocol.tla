-------------------------- MODULE MCTokenProtocol --------------------------
EXTENDS TokenProtocol, TLC
Symmetry == Permutations(Peers)
=============================================================================
