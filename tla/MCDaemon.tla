------------------------------ MODULE MCDaemon ------------------------------
(* Model checking Daemon: one setting of each kind, no symmetry (liveness). *)
EXTENDS Daemon
=============================================================================
