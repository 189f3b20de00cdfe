--------------------------- MODULE MCLiveDataSize ---------------------------
(* LiveDataSize for TLC. *)
EXTENDS LiveDataSizeInv

Opt(merge, id) ==
    [level_merge |-> merge, range_merge |-> TRUE, max_sorted_runs |-> 1, id |-> id]

\* Level merge in the default column family and in another one, and none.
MCOptions == {Opt(TRUE, 0), Opt(TRUE, 1), Opt(FALSE, 0)}

\* Level merge in the default column family.
MCLevelMerge == {Opt(TRUE, 0)}
=============================================================================
