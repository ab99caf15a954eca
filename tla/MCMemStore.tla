----------------------------- MODULE MCMemStore -----------------------------
(* Model checking MemStore.  No symmetry: liveness is checked, too.          *)
EXTENDS MemStore
=============================================================================
