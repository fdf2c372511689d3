------------------------ MODULE MCAdapterSupervisor ------------------------
EXTENDS AdapterSupervisor, TLC
(* Adapters, definitions and processes are interchangeable.                 *)
Symmetry == Permutations(Adapters) \cup Permutations(Versions) \cup Permutations(Procs)
=============================================================================
