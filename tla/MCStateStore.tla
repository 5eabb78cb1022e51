---------------------------- MODULE MCStateStore ----------------------------
(***************************************************************************)
(* Instances of StateStore.  Processes and threads are interchangeable,    *)
(* and so are the releases of the current schema.                          *)
(***************************************************************************)
EXTENDS StateStore, TLC

Symmetry ==
    Permutations(Processes) \union Permutations(Threads) \union Permutations(Releases \ Legacy)
=============================================================================
