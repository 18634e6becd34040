----------------------------- MODULE GpuBarrier -----------------------------
(***************************************************************************)
(* The Barrier of the GPU interpreter                                      *)
(* (pallas/mosaic_gpu/interpret/shared_memory.py), as operators on a       *)
(* record.  Each operator is one section under the barrier's cv; arrive    *)
(* notifies all waiting threads in its section, so that a wait is a guard. *)
(* Where the code raises ValueError there is a predicate of its own.       *)
(*                                                                         *)
(* A vector clock is represented by the set of accesses that it counts,    *)
(* and merging of clocks by union.                                         *)
(***************************************************************************)
EXTENDS Integers

\* Barrier.__init__
NewBarrier(threads, ref_count, num_arrivals) ==
    [ref_count |-> ref_count, num_arrivals |-> num_arrivals, arrivals_count |-> 0,
     phase |-> 0, next_awaited_phase |-> [t \in threads |-> 1],
     phase_change_observed |-> TRUE, clock |-> {}]

Completes(b) == b.arrivals_count + 1 = b.num_arrivals

ArriveRaises(b) == Completes(b) /\ ~b.phase_change_observed

\* arrive, if it does not raise.  The clock is never cleared.
arrive(b, clock) ==
    [b EXCEPT !.arrivals_count = IF Completes(b) THEN 0 ELSE @ + 1,
              !.phase = IF Completes(b) THEN @ + 1 ELSE @,
              !.phase_change_observed = @ /\ ~Completes(b),
              !.clock = @ \cup clock]

\* The loop of wait ends, or raises as the phase has gone by.
WaitPasses(b, t) == b.next_awaited_phase[t] = b.phase
WaitRaises(b, t) == b.next_awaited_phase[t] < b.phase

\* Mutant: the thread waits for the same phase again.
ObservedMutant(b, t) == [b EXCEPT !.phase_change_observed = TRUE]

\* wait, up to the end of its section.
Observed(b, t) ==
    [b EXCEPT !.phase_change_observed = TRUE, !.next_awaited_phase[t] = @ + 1]

deallocate(b) == [b EXCEPT !.ref_count = @ - 1]

\* The last deallocate finds a thread that has seen some phases but not all.
DeallocateRaises(b) ==
    /\ b.ref_count = 1
    /\ \E t \in DOMAIN b.next_awaited_phase : b.next_awaited_phase[t] - 1 \in 1 .. (b.phase - 1)
=============================================================================
