-------------------------------- MODULE MCCA --------------------------------
(* Model checking CA: the key ids and expiries its assumptions ask for.     *)
EXTENDS CA, TLC

MCKeyIDs == Names \X Times
MCExpiries == Int64s
UntilsBeforeEpoch == {-1, 3}
MCPosted == {<<u, Start>> : u \in Users}
MCOwner == [t \in Tokens |-> CHOOSE u \in Users : TRUE]

Symmetry == Permutations(Serials) \cup Permutations(Procs) \cup Permutations(Tokens)
=============================================================================
