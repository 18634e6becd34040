---------------------------- MODULE GpuPipeline -----------------------------
(***************************************************************************)
(* The two pipelines of pallas/mosaic_gpu/pipeline.py on the Barrier of    *)
(* the GPU interpreter:                                                    *)
(*                                                                         *)
(*  - emit_pipeline: one thread fetches, computes and stores;              *)
(*  - emit_pipeline_warp_specialized: a memory thread fetches for several  *)
(*    compute threads, for one pipeline or for a sequence of them that     *)
(*    share their allocations (pipeline_state START, STEADY, ..., STOP).   *)
(*                                                                         *)
(* A thread is at a line of its function, in a step of a loop of one of    *)
(* the pipelines; there is one action for each primitive it calls.  Copies *)
(* are asynchronous and complete in any order, as on the GPU: the          *)
(* interpreter, which executes a copy at once, is one of the behaviours.   *)
(*                                                                         *)
(* A block of an input is named by the step it is fetched for, and steps   *)
(* are numbered through the pipelines of a sequence.                       *)
(***************************************************************************)
EXTENDS GpuBarrier, Sequences, FiniteSets

CONSTANTS
    Inputs,
    MaxWgs,  \* bound on num_compute_wgs
    Kernels  \* [num_compute_wgs (0 for emit_pipeline), num_steps, static_grid,
             \*  max_steps, delay_release (by input), num_pipelines]

Smaller(m, n) == IF m <= n THEN m ELSE n

\* The checks of the two functions; emit_pipeline compares max_concurrent_steps
\* with the smallest delay only.
Accepted(k) ==
    /\ \E i \in Inputs : k.max_steps > k.delay_release[i]
    /\ k.num_compute_wgs > 0 => \A i, j \in Inputs : k.delay_release[i] = k.delay_release[j]
    /\ k.num_pipelines > 1 =>
          /\ k.num_compute_wgs > 0 /\ k.static_grid
          /\ \A i \in Inputs : k.delay_release[i] = 0
          /\ k.num_steps % Smaller(k.max_steps, k.num_steps) = 0

\* "max_concurrent_steps must be greater than all delay_release values": other
\* calls of emit_pipeline wait for a block that is fetched later.
EnoughBuffers(k) == \A i \in Inputs : k.max_steps > k.delay_release[i]

ASSUME GpuPipelineAssumption ==
    /\ IsFiniteSet(Inputs) /\ Inputs # {} /\ MaxWgs \in Nat
    /\ \A k \in Kernels :
          /\ k.num_steps \in Nat \ {0} /\ k.num_pipelines \in Nat \ {0}
          /\ k.max_steps \in Nat \ {0} /\ k.num_compute_wgs \in 0 .. MaxWgs
          /\ k.static_grid \in BOOLEAN /\ k.delay_release \in [Inputs -> Nat]
          /\ Accepted(k) /\ EnoughBuffers(k)

VARIABLES
    kernel, max_concurrent_steps,   \* fixed when the kernel starts
    line, pipeline, iteration,           \* by thread: where it is
    level,             \* the delay_release that loop_body fetches for
    merging,           \* by thread: it has passed the wait, and merges the clock next
    barrier,           \* "in": the copies to a slot have arrived;
                       \* "consumed": the compute threads are done with it
    clock,             \* by thread: the accesses its vector clock counts
    in_smem,           \* by input and slot: the step whose block is there
    copies,            \* GMEM to SMEM, in flight
    groups             \* SMEM to GMEM: the slots read by the groups in flight

fixed == <<kernel, max_concurrent_steps>>
place == <<line, pipeline, iteration>>
gpuVars == <<fixed, place, level, merging, barrier, clock, in_smem, copies, groups>>

NoStep == -1
NoSlot == -1

-----------------------------------------------------------------------------

\* Shrunk if the total number of steps is known and lower.
Shrunk(k) == IF k.static_grid THEN Smaller(k.max_steps, k.num_steps) ELSE k.max_steps

Slots == 0 .. (max_concurrent_steps - 1)
Slot(s) == s % max_concurrent_steps

WarpSpecialized == kernel.num_compute_wgs > 0
memory_thread_idx == kernel.num_compute_wgs
Threads == 0 .. kernel.num_compute_wgs
ComputeThreads == IF WarpSpecialized THEN Threads \ {memory_thread_idx} ELSE Threads

\* "SMEM outputs are not supported with multiple compute warpgroups"
copies_out_in_loop == kernel.num_compute_wgs <= 1

\* The same delay for all inputs of the warp-specialized pipeline.
delay_release == kernel.delay_release[CHOOSE i \in Inputs : TRUE]

\* Mutant: one group more may be in flight.
pending_groups_mutant == max_concurrent_steps

\* How many copies to GMEM may be in flight when a body starts.
pending_groups == max_concurrent_steps - 1

init_prologue_steps == Smaller(max_concurrent_steps, kernel.num_steps)

\* Only the first of a sequence of pipelines has a prologue.
prologue_steps(p) == IF p = 0 THEN init_prologue_steps ELSE 0

\* The step that is fetched in iteration s of the memory loop.
FetchedInLoop(p, s) == p * kernel.num_steps + prologue_steps(p) + s

\* Mutant: the last arrivals are not awaited.
QuiesceMutant == {}

\* Mutant: as if every step were consumed.
QuiesceAllMutant == (kernel.num_steps - init_prologue_steps) .. (kernel.num_steps - 1)

\* The steps of _quiesce.
Quiesce ==
    (kernel.num_steps - init_prologue_steps) .. (kernel.num_steps - delay_release - 1)

\* The number of the step in which a thread is.
StepNumber(t) == pipeline[t] * kernel.num_steps + iteration[t]

-----------------------------------------------------------------------------

\* The barriers of _get_scoped_allocs; emit_pipeline does not use the second
\* kind.  run_scoped counts a reference for each thread.
num_arrivals(which) == IF which = "in" THEN Cardinality(Inputs) ELSE kernel.num_compute_wgs

GpuInit ==
    /\ kernel \in Kernels
    /\ max_concurrent_steps = Shrunk(kernel)
    /\ line = [t \in Threads |->
                  IF WarpSpecialized /\ t # memory_thread_idx THEN "wait_in" ELSE "prologue"]
    /\ pipeline = [t \in Threads |-> 0]
    /\ iteration = [t \in Threads |-> 0]
    /\ level = 0
    /\ merging = [t \in Threads |-> FALSE]
    /\ barrier = [which \in {"in", "consumed"} |-> [s \in Slots |->
                     NewBarrier(Threads, Cardinality(Threads), num_arrivals(which))]]
    /\ clock = [t \in Threads |-> {}]
    /\ in_smem = [i \in Inputs |-> [s \in Slots |-> NoStep]]
    /\ copies = {}
    /\ groups = << >>

Ended(t) == line[t] = "ended"

\* Where a thread goes on.
GoTo(t, l, p, s) ==
    /\ line' = [line EXCEPT ![t] = l]
    /\ pipeline' = [pipeline EXCEPT ![t] = p]
    /\ iteration' = [iteration EXCEPT ![t] = s]

Proceed(t, l) == GoTo(t, l, pipeline[t], iteration[t])

\* The loop of a pipeline is over.  Deallocation follows the last one.
NextPipeline(t) ==
    IF pipeline[t] + 1 < kernel.num_pipelines THEN GoTo(t, "wait_in", pipeline[t] + 1, 0)
    ELSE GoTo(t, "deallocate", kernel.num_pipelines, 0)

\* The loop over loop_body, or over compute_loop_body.
NextStep(t) ==
    IF iteration[t] + 1 < kernel.num_steps THEN GoTo(t, "wait_in", pipeline[t], iteration[t] + 1)
    ELSE IF copies_out_in_loop THEN GoTo(t, "finalize", pipeline[t], kernel.num_steps)
    ELSE NextPipeline(t)

StoreOutput(t) == IF copies_out_in_loop THEN Proceed(t, "copy_out") ELSE NextStep(t)

\* The loop of _quiesce, from step s.
QuiesceFrom(t, s) ==
    IF s \in Quiesce THEN GoTo(t, "quiesce", kernel.num_pipelines - 1, s)
    ELSE GoTo(t, "deallocate", kernel.num_pipelines, 0)

\* The loop over memory_loop_body in pipeline p from iteration s, and after it
\* the loop of the next pipeline, or _quiesce.
MemoryLoopFrom(t, p, s) ==
    IF s < kernel.num_steps - prologue_steps(p) THEN GoTo(t, "wait_consumed", p, s)
    ELSE IF p + 1 < kernel.num_pipelines THEN GoTo(t, "wait_consumed", p + 1, 0)
    ELSE QuiesceFrom(t, kernel.num_steps - init_prologue_steps)

-----------------------------------------------------------------------------

\* A copy for each input, with the clock of the thread that starts it.
copy_gmem_to_smem(t, inputs, slot, s) ==
    copies' = copies \cup
        {[input |-> i, slot |-> slot, step |-> s, clock |-> clock[t]] : i \in inputs}

\* prologue of emit_pipeline, _init_step of the memory thread.
prologue(t) ==
    /\ line[t] = "prologue"
    /\ copy_gmem_to_smem(t, Inputs, iteration[t], iteration[t])
    /\ IF iteration[t] + 1 < init_prologue_steps THEN GoTo(t, "prologue", 0, iteration[t] + 1)
       ELSE IF WarpSpecialized THEN MemoryLoopFrom(t, 0, 0)
       ELSE GoTo(t, "wait_in", 0, 0)
    /\ UNCHANGED <<fixed, level, merging, barrier, clock, in_smem, groups>>

\* memory_loop_body, after the wait.
FetchNext(t) ==
    /\ line[t] = "copy_in" /\ WarpSpecialized
    /\ copy_gmem_to_smem(t, Inputs, Slot(iteration[t]), FetchedInLoop(pipeline[t], iteration[t]))
    /\ MemoryLoopFrom(t, pipeline[t], iteration[t] + 1)
    /\ UNCHANGED <<fixed, level, merging, barrier, clock, in_smem, groups>>

\* do_fetch of loop_body, by increasing delay_release.
do_fetch(t) ==
    LET fetch_step == iteration[t] + (max_concurrent_steps - level)
        due == {i \in Inputs : /\ kernel.delay_release[i] = level
                               /\ iteration[t] >= level /\ fetch_step < kernel.num_steps} IN
    /\ line[t] = "copy_in" /\ ~WarpSpecialized
    /\ copy_gmem_to_smem(t, due, Slot(fetch_step), fetch_step)
    /\ IF level + 1 < kernel.max_steps
       THEN level' = level + 1 /\ Proceed(t, "copy_in")
       ELSE level' = 0 /\ NextStep(t)
    /\ UNCHANGED <<fixed, merging, barrier, clock, in_smem, groups>>

Arrive(which, slot, events) ==
    barrier' = [barrier EXCEPT ![which][slot] = arrive(@, events)]

\* DeviceLocalMemoryTransfer.execute: the copy writes, and arrives with a clock
\* that counts its write.
CopyDone(c) ==
    /\ copies' = copies \ {c}
    /\ in_smem' = [in_smem EXCEPT ![c.input][c.slot] = c.step]
    /\ Arrive("in", c.slot, c.clock \cup {<<"copy", c.input, c.step>>})
    /\ UNCHANGED <<fixed, place, level, merging, clock, groups>>

\* The barrier for which a thread waits, always one of the slot of its step.
Waits(t) == line[t] \in {"wait_in", "wait_consumed", "quiesce"}
Awaited(t) == IF line[t] = "wait_in" THEN "in" ELSE "consumed"

\* barrier_wait, until cv is released.
barrier_wait(t) ==
    /\ Waits(t) /\ ~merging[t]
    /\ WaitPasses(barrier[Awaited(t)][Slot(iteration[t])], t)
    /\ barrier' = [barrier EXCEPT ![Awaited(t)][Slot(iteration[t])] = Observed(@, t)]
    /\ merging' = [merging EXCEPT ![t] = TRUE]
    /\ UNCHANGED <<fixed, place, level, clock, in_smem, copies, groups>>

\* Then the clock, a reference to the one that arrivals update, is merged into
\* the clock of the thread.
MergeClock(t) ==
    /\ merging[t]
    /\ clock' = [clock EXCEPT ![t] = @ \cup barrier[Awaited(t)][Slot(iteration[t])].clock]
    /\ merging' = [merging EXCEPT ![t] = FALSE]
    /\ \/ line[t] = "wait_in" /\ Proceed(t, IF copies_out_in_loop THEN "wait_out" ELSE "body")
       \/ line[t] = "wait_consumed" /\ Proceed(t, "copy_in")
       \/ line[t] = "quiesce" /\ QuiesceFrom(t, iteration[t] + 1)
    /\ UNCHANGED <<fixed, level, barrier, in_smem, copies, groups>>

\* Before the body, and "Finalize the pipeline."
wait_smem_to_gmem(t) ==
    /\ \/ line[t] = "wait_out" /\ Len(groups) <= pending_groups /\ Proceed(t, "body")
       \/ line[t] = "finalize" /\ Len(groups) <= 0 /\ NextPipeline(t)
    /\ UNCHANGED <<fixed, level, merging, barrier, clock, in_smem, copies, groups>>

\* The end of the body, which the thread counts in its clock.  Compute threads
\* release a slot delay_release steps late.
EndBody(t) ==
    /\ line[t] = "body"
    /\ clock' = [clock EXCEPT ![t] = @ \cup {<<"body", t, StepNumber(t)>>}]
    /\ IF WarpSpecialized /\ iteration[t] >= delay_release THEN Proceed(t, "arrive")
       ELSE StoreOutput(t)
    /\ UNCHANGED <<fixed, level, merging, barrier, in_smem, copies, groups>>

\* barrier_arrive at consumed_slot.
barrier_arrive(t) ==
    /\ line[t] = "arrive"
    /\ Arrive("consumed", Slot(iteration[t] - delay_release), clock[t])
    /\ StoreOutput(t)
    /\ UNCHANGED <<fixed, level, merging, clock, in_smem, copies, groups>>

\* copy_out and commit_smem_to_gmem_group: whether the slices have changed since
\* the step before depends on the index map.
copy_smem_to_gmem(t) ==
    LET must == iteration[t] = 0 \/ (~WarpSpecialized /\ iteration[t] = kernel.num_steps - 1) IN
    /\ line[t] = "copy_out"
    /\ \E slices_changed \in BOOLEAN :
          groups' = Append(groups, IF slices_changed \/ must THEN Slot(iteration[t]) ELSE NoSlot)
    /\ IF WarpSpecialized THEN NextStep(t) ELSE Proceed(t, "copy_in")
    /\ UNCHANGED <<fixed, level, merging, barrier, clock, in_smem, copies>>

\* A group has read its slot.
GroupDone ==
    /\ groups # << >>
    /\ groups' = Tail(groups)
    /\ UNCHANGED <<fixed, place, level, merging, barrier, clock, in_smem, copies>>

\* The end of run_scoped.
deallocate_barrier(t) ==
    /\ line[t] = "deallocate"
    /\ barrier' = [w \in DOMAIN barrier |-> [s \in Slots |-> deallocate(barrier[w][s])]]
    /\ Proceed(t, "ended")
    /\ UNCHANGED <<fixed, level, merging, clock, in_smem, copies, groups>>

ThreadStep(t) ==
    \/ prologue(t) \/ FetchNext(t) \/ do_fetch(t) \/ barrier_wait(t) \/ MergeClock(t)
    \/ wait_smem_to_gmem(t) \/ EndBody(t) \/ barrier_arrive(t) \/ copy_smem_to_gmem(t)
    \/ deallocate_barrier(t)

GpuNext ==
    \/ \E t \in Threads : ThreadStep(t)
    \/ \E c \in copies : CopyDone(c)
    \/ GroupDone

GpuSpec == GpuInit /\ [][GpuNext]_gpuVars

FairGpuSpec ==
    /\ GpuSpec
    /\ \A t \in 0 .. MaxWgs : WF_gpuVars(t \in Threads /\ ThreadStep(t))
    /\ WF_gpuVars(\E c \in copies : CopyDone(c)) /\ WF_gpuVars(GroupDone)

-----------------------------------------------------------------------------

\* Types; a phase ends when the last of num_arrivals arrives, so the count is
\* below it, and no thread waits for a phase beyond the next one.
GpuTypeOK ==
    /\ iteration \in [Threads -> 0 .. kernel.num_steps]
    /\ pipeline \in [Threads -> 0 .. kernel.num_pipelines] /\ merging \in [Threads -> BOOLEAN]
    /\ in_smem \in [Inputs -> [Slots -> Nat \cup {NoStep}]]
    /\ \A c \in copies : c.slot \in Slots /\ c.input \in Inputs
    /\ \A w \in DOMAIN barrier, s \in Slots :
          LET b == barrier[w][s] IN
          /\ b.ref_count \in 0 .. Cardinality(Threads) /\ b.phase \in Nat
          /\ b.arrivals_count \in 0 .. (b.num_arrivals - 1) \/ b.num_arrivals = 0
          /\ \A t \in Threads : b.next_awaited_phase[t] \in 1 .. (b.phase + 1)

\* The barriers of a pipeline are used as the interpreter demands: no arrival
\* completes a phase that nobody has seen, no thread misses a phase it waits
\* for, and at the end every thread that waits at a barrier has seen all of its
\* phases.
BarriersNeverRaise ==
    /\ \A c \in copies : ~ArriveRaises(barrier["in"][c.slot])
    /\ \A t \in Threads :
          /\ line[t] = "arrive" =>
                ~ArriveRaises(barrier["consumed"][Slot(iteration[t] - delay_release)])
          /\ Waits(t) /\ ~merging[t] => ~WaitRaises(barrier[Awaited(t)][Slot(iteration[t])], t)
          /\ line[t] = "deallocate" =>
                \A w \in DOMAIN barrier, s \in Slots : ~DeallocateRaises(barrier[w][s])

\* The steps whose block of input i the body of step s may read: a buffer is
\* released delay_release steps after its own.
InUse(i, s) ==
    LET first == kernel.num_steps * (s \div kernel.num_steps)
    IN {r \in first .. s : r >= s - kernel.delay_release[i]}

\* While a thread is in its body, the blocks it may read are in their slots,
\* however late the copies are and however far the memory thread is ahead.
BodySeesItsBlocks ==
    \A t \in ComputeThreads : line[t] = "body" =>
        \A i \in Inputs : \A s \in InUse(i, StepNumber(t)) :
            in_smem[i][Slot(s % kernel.num_steps)] = s

\* The race detector has nothing to report: a body's clock counts the copies
\* of the blocks it reads, and the clock of a copy into a slot counts the copy
\* and the bodies that used the slot before.
ClocksOrderAccesses ==
    /\ \A t \in ComputeThreads : line[t] = "body" =>
          \A i \in Inputs : \A s \in InUse(i, StepNumber(t)) : <<"copy", i, s>> \in clock[t]
    /\ \A c \in copies : LET before == c.step - max_concurrent_steps IN
          before >= 0 =>
            /\ <<"copy", c.input, before>> \in c.clock
            /\ \A t \in ComputeThreads, s \in 0 .. (c.step - 1) :
                  before \in InUse(c.input, s) => <<"body", t, s>> \in c.clock

\* Between the end of a wait and the merge of the clock nobody arrives at the
\* barrier: the thread gets the clock of the phase it has waited for, although
\* it reads it without the lock.
MergesItsOwnPhase ==
    \A t \in Threads : merging[t] =>
        LET b == barrier[Awaited(t)][Slot(iteration[t])]
        IN b.arrivals_count = 0 /\ b.next_awaited_phase[t] = b.phase + 1

\* A body writes to an output slot only when no copy to GMEM still reads it.
OutputSlotIsFree ==
    \A t \in ComputeThreads : copies_out_in_loop /\ line[t] = "body" =>
        Slot(iteration[t]) \notin {groups[g] : g \in DOMAIN groups}

\* When its memory is freed, nothing reads or writes it any more.
NothingInFlightAtEnd == (\A t \in Threads : Ended(t)) => copies = {} /\ groups = << >>

\* Nobody waits for ever: all threads come to their end.
PipelinesEnd == <>(\A t \in Threads : Ended(t))

\* Bodies and copies share SMEM without harm: a body finds its input blocks, its
\* output slot is free, and nothing is in flight when the memory is freed.
SmemIsSafe == GpuTypeOK /\ BodySeesItsBlocks /\ OutputSlotIsFree /\ NothingInFlightAtEnd

\* The vector clocks that barriers hand on prove to the race detector what the
\* barriers guarantee, although a waiting thread merges the clock without a lock.
ClocksTellTheTruth == ClocksOrderAccesses /\ MergesItsOwnPhase
=============================================================================
