--------------------------- MODULE MCUpdateInstall ---------------------------
EXTENDS UpdateInstall, TLC
CONSTANTS p1, p2
MCProcs == {p1, p2}
Symmetry == Permutations(MCProcs)
=============================================================================
