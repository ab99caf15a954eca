------------------------------ MODULE MCClient ------------------------------
(* Model checking Client: a bound below zero, for the clock past the expiry. *)
EXTENDS Client

OneTickPast == -1
=============================================================================
