----------------------------- MODULE MCAsrReload -----------------------------
EXTENDS AsrReload, TLC
Symmetry == Permutations(Callers) \cup Permutations(Providers)
=============================================================================
