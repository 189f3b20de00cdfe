------------------------------ MODULE MCTitanGC ------------------------------
(* Small instances of TitanGC for TLC.                                     *)
EXTENDS TitanStore, TitanGCInv, TLC

CONSTANTS k1, k2, j1, j2

Keys == {k1, k2}
Symmetry == Permutations(Key) \cup Permutations(Job)
=============================================================================
