----------------------- MODULE MCSharedMemoryClocks ------------------------
(***************************************************************************)
(* Model-checking instance of SharedMemoryClocks.  DMA ids and semaphore   *)
(* ids are interchangeable.                                                *)
(***************************************************************************)
EXTENDS SharedMemoryClocks, TLC

Symmetry == Permutations(Dmas) \cup Permutations(Sems)
=============================================================================
