---------------------------- MODULE MCCoherence ----------------------------
EXTENDS Coherence, TLC

Symmetry == Permutations(Clients)

\* Two ranges that meet inside a block; the second one goes on in the next.
MCRanges == {<<0, 1>>, <<1, 3>>}

\* Behaviours are followed up to the first spoiled byte.
Unspoiled == spoiled = {}
=============================================================================
