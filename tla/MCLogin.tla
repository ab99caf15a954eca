------------------------------ MODULE MCLogin ------------------------------
(* Small instances of Login.                                               *)
EXTENDS Login
=============================================================================
