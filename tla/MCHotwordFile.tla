---------------------------- MODULE MCHotwordFile ----------------------------
EXTENDS HotwordFile, TLC
Symmetry == Permutations(Windows)
=============================================================================
