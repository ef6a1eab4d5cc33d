-------------------------- MODULE MCSessionGroup --------------------------
(* Tracers are interchangeable.                                            *)
EXTENDS SessionGroup, TLC

TracerSymmetry == Permutations(Tracers)
=============================================================================
