---------------------------- MODULE MCClientInput ----------------------------
(* Model checking ClientInput.                                               *)
EXTENDS ClientInput

MCSizes == {-1, 0, 256, 2048}
=============================================================================
