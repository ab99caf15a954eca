----------------------------- MODULE MCSqlStore -----------------------------
(* Model checking SqlStore: safety only, so the sets are symmetric.         *)
EXTENDS SqlStore, TLC

West == -1      \* a server west of Greenwich

Symmetry == Permutations(KeyIDs) \cup Permutations(Serials) \cup Permutations(Procs)
=============================================================================
