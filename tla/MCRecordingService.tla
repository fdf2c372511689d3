------------------------- MODULE MCRecordingService -------------------------
EXTENDS RecordingService, TLC
Symmetry == Permutations(Recordings) \cup Permutations(Texts)
=============================================================================
