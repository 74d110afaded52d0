---------------------------- MODULE MCAccessGate ----------------------------
EXTENDS AccessGate, TLC

Symmetric == Permutations(Procs)
=============================================================================
