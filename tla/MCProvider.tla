----------------------------- MODULE MCProvider -----------------------------
(* Two users, two groups, the name of one inside the name of the other.      *)
EXTENDS Provider
CONSTANTS g1, g2
MCInside == {<<g1, g2>>}
=============================================================================
