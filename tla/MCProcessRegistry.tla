------------------------- MODULE MCProcessRegistry -------------------------
(* Three pids that collide in a table of two slots, and two identities.    *)
EXTENDS ProcessRegistry, TLC

MCHome     == [p \in Pids |-> 1]
MCSymmetry == Permutations(Tracers) \cup Permutations(Ids) \cup Permutations(Pids)
=============================================================================
