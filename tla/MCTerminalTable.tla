-------------------------- MODULE MCTerminalTable --------------------------
(* More nodes than slots; tracers and inode numbers are interchangeable.   *)
EXTENDS TerminalTable, TLC

Symmetry == Permutations(Tracers) \cup Permutations(Inodes)
=============================================================================
