---------------------------- MODULE MCGCScheduler ----------------------------
(* Small instances of GCScheduler for TLC.                                 *)
EXTENDS GCScheduler, TLC

CONSTANTS t1, t2, t3, c1, c2, d1, d2

Symmetry == Permutations(Thread) \cup Permutations(CF) \cup Permutations(Dropper)
=============================================================================
