---------------------------- MODULE MCDataSwap ----------------------------
EXTENDS DataSwap, TLC

Symmetry == Permutations(Requests)
=============================================================================
