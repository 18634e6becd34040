----------------------------- MODULE MCLRUCache -----------------------------
(***************************************************************************)
(* Model-checking instances of LRUCache: two processes, values of sizes    *)
(* 1 to 4 in a cache of size 3 or without limit.                           *)
(***************************************************************************)
EXTENDS LRUCache, TLC

CONSTANTS k1, k2, k3, k4

MCKeys == {k1, k2, k3, k4}
MCSize == [k \in MCKeys |-> CASE k = k1 -> 1 [] k = k2 -> 2 [] k = k3 -> 3 [] k = k4 -> 4]

MCMaxSizes == {3, -1}

Symmetry == Permutations(Procs)
=============================================================================
