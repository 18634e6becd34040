---------------------------- MODULE EmitPipeline ----------------------------
(***************************************************************************)
(* The pipeline that pallas/mosaic/pipeline.py emits for a TPU core:       *)
(* emit_pipeline, the Scheduler and BufferedRef.                           *)
(*                                                                         *)
(* The kernel has one buffered input and one buffered output, each with    *)
(* its own index map.  Copies are asynchronous: a DMA that was started     *)
(* completes in a step of its own, in any order, and then signals the      *)
(* semaphore of its slot.  The core's program is sequential and stops in   *)
(* wait_in and wait_out until the semaphore has been signalled.            *)
(*                                                                         *)
(* Grid indices are numbered by the steps of the loop: _next_index and     *)
(* _prev_index wrap around at the ends of the grid.  The cumulative slot   *)
(* counters are uint32 in the code; they stay below the number of steps.   *)
(***************************************************************************)
EXTENDS PartitionGrid

CONSTANTS
    InBlocks,     \* the blocks of the input
    OutBlocks,    \* the blocks of the output
    NoBlock,      \* what a slot holds before the first copy
    Calls,        \* the calls of emit_pipeline: [grid, num_cores]
    InputModes,   \* pairs <<buffer_count, use_lookahead>>
    OutputCounts  \* buffer counts of the output

ASSUME PipelineAssumption ==
    /\ NoBlock \notin InBlocks
    /\ \A c \in Calls : /\ c.grid \in Seq(Dims) /\ c.num_cores \in Nat \ {0}
                        /\ CanPartition(c.grid, c.num_cores)
    /\ InputModes \subseteq (Nat \ {0}) \X BOOLEAN
    /\ OutputCounts \subseteq {1, 2} \* BufferedRef.__post_init__

VARIABLES
    call, core_id, num_steps,        \* this core's pipeline
    in_count, use_lookahead, in_block,
    out_count, out_block,            \* buffer counts and index maps, by step
    pc, step,
    copy_in_slot, wait_in_slot, next_fetch,
    copy_out_slot, wait_out_slot,    \* cumulative counts
    window_in, window_out,           \* the slots: a block; a set of steps
    sem_recvs, sem_sends,            \* per slot
    dmas,                            \* in flight
    hbm_out,                         \* per block: the steps whose result it holds
    seen                             \* history: what the body of a step read

config == <<call, core_id, num_steps, in_count, use_lookahead, in_block, out_count, out_block>>
inputs == <<copy_in_slot, wait_in_slot, next_fetch, window_in, sem_recvs>>
outputs == <<copy_out_slot, wait_out_slot, window_out, sem_sends, hbm_out>>
vars == <<config, pc, step, inputs, outputs, dmas, seen>>

-----------------------------------------------------------------------------
(* The Scheduler's predicates.                                             *)

Ahead(k) == (step + k) % num_steps   \* fetch_indices[k]
Prev == (step + num_steps - 1) % num_steps

first_step == step = 0
last_step == step = num_steps - 1

has_changed(block) == block[step] # block[Prev]
will_change_current(block) == block[step] # block[Ahead(1)]

will_change_fetch ==
    IF in_count < 2 THEN has_changed(in_block)
    ELSE in_block[Ahead(in_count - 2)] # in_block[Ahead(in_count - 1)]

\* Mutant: the last block is not fetched.
out_of_fetch_mutant == step >= num_steps - in_count

out_of_fetch == step >= num_steps - in_count + 1

\* The condition of the copy_in without lookahead.
MustCopyIn ==
    \/ will_change_fetch /\ ~out_of_fetch
    \/ in_count < 2 /\ first_step

-----------------------------------------------------------------------------
(* Copies.  A DMA is named by its direction and its number.                *)

InCopy(n, block) == [dir |-> "in", n |-> n, slot |-> n % in_count, block |-> block]

\* fetch_with_lookahead, up to `limit` copies in all.  copied(i) is the number
\* of copies when the loop comes to index i.
fetch_with_lookahead(limit) ==
    LET changed(i) == in_block[i - 1] # in_block[i]
        copied(i) == copy_in_slot + Cardinality({j \in (next_fetch + 1) .. (i - 1) : changed(j)})
        stop == CHOOSE i \in (next_fetch + 1) .. num_steps :
                  /\ i = num_steps \/ copied(i) >= limit
                  /\ \A j \in (next_fetch + 1) .. (i - 1) : copied(j) < limit
    IN
    /\ dmas' = dmas \cup {InCopy(copied(i), in_block[i]) :
                             i \in {j \in (next_fetch + 1) .. (stop - 1) : changed(j)}}
    /\ copy_in_slot' = copied(stop)
    /\ next_fetch' = stop - 1

Init ==
    /\ call \in Calls
    /\ core_id \in 0 .. (call.num_cores - 1)
    /\ num_steps = _grid_size(call.grid, call.num_cores, core_id)
    /\ \E m \in InputModes : in_count = m[1] /\ use_lookahead = m[2]
    /\ out_count \in OutputCounts
    /\ in_block \in [0 .. (num_steps - 1) -> InBlocks]
    /\ out_block \in [0 .. (num_steps - 1) -> OutBlocks]
    /\ pc = IF num_steps > 0 THEN "initialize" ELSE "done"
    /\ step = 0
    /\ copy_in_slot = 0 /\ wait_in_slot = 0 /\ next_fetch = 0
    /\ copy_out_slot = 0 /\ wait_out_slot = 0
    /\ window_in = [s \in 0 .. (in_count - 1) |-> NoBlock]
    /\ window_out = [s \in 0 .. (out_count - 1) |-> {}]
    /\ sem_recvs = [s \in 0 .. (in_count - 1) |-> 0]
    /\ sem_sends = [s \in 0 .. (out_count - 1) |-> 0]
    /\ dmas = {}
    /\ hbm_out = [b \in OutBlocks |-> {}]
    /\ seen = << >>

\* A DMA writes its destination and signals.
DmaDone(d) ==
    /\ dmas' = dmas \ {d}
    /\ \/ /\ d.dir = "in"
          /\ window_in' = [window_in EXCEPT ![d.slot] = d.block]
          /\ sem_recvs' = [sem_recvs EXCEPT ![d.slot] = @ + 1]
          /\ UNCHANGED <<hbm_out, sem_sends>>
       \/ /\ d.dir = "out"
          /\ hbm_out' = [hbm_out EXCEPT ![d.block] = window_out[d.slot]]
          /\ sem_sends' = [sem_sends EXCEPT ![d.slot] = @ + 1]
          /\ UNCHANGED <<window_in, sem_recvs>>
    /\ UNCHANGED <<config, pc, step, copy_in_slot, wait_in_slot, next_fetch,
                   copy_out_slot, wait_out_slot, window_out, seen>>

-----------------------------------------------------------------------------
(* The prologue.                                                           *)

\* The prefetches of initialize_step without lookahead: block i of the first
\* in_count - 1 steps, if it is not the one before it.
Prefetched(i) == i = 0 \/ in_block[Ahead(i)] # in_block[Ahead(i - 1)]

\* With lookahead: the first block, and then in InitializeLookahead one more
\* changed block for each further step of the prologue.
initialize_step ==
    LET early == {i \in 0 .. (in_count - 2) : Prefetched(i)}
        number(i) == Cardinality({j \in early : j < i})
    IN
    /\ pc = "initialize"
    /\ \/ /\ ~use_lookahead \/ in_count = 1
          /\ dmas' = {InCopy(number(i), in_block[Ahead(i)]) : i \in early}
          /\ copy_in_slot' = Cardinality(early)
          /\ pc' = "copy_in"
          /\ UNCHANGED next_fetch
       \/ /\ use_lookahead /\ in_count > 1
          /\ dmas' = {InCopy(0, in_block[0])}
          /\ copy_in_slot' = 1
          /\ pc' = "lookahead"
          /\ UNCHANGED next_fetch
    /\ UNCHANGED <<config, step, wait_in_slot, window_in, sem_recvs, outputs, seen>>

InitializeLookahead ==
    /\ pc = "lookahead"
    /\ fetch_with_lookahead(in_count - 1)
    /\ pc' = "copy_in"
    /\ UNCHANGED <<config, step, wait_in_slot, window_in, sem_recvs, outputs, seen>>

-----------------------------------------------------------------------------
(* loop_body.                                                              *)

\* Mutant: as many blocks as there are buffers besides the current one.
fetch_limit_mutant == wait_in_slot + in_count + 1

fetch_limit == wait_in_slot + in_count

\* The step whose block copy_in fetches.
FetchStep == Ahead(in_count - 1)

copy_in ==
    /\ pc = "copy_in"
    /\ \/ use_lookahead /\ fetch_with_lookahead(fetch_limit)
       \/ /\ ~use_lookahead /\ MustCopyIn
          /\ dmas' = dmas \cup {InCopy(copy_in_slot, in_block[FetchStep])}
          /\ copy_in_slot' = copy_in_slot + 1
          /\ UNCHANGED next_fetch
       \/ ~use_lookahead /\ ~MustCopyIn /\ UNCHANGED <<dmas, copy_in_slot, next_fetch>>
    /\ pc' = "wait_in"
    /\ UNCHANGED <<config, step, wait_in_slot, window_in, sem_recvs, outputs, seen>>

wait_in ==
    LET slot == wait_in_slot % in_count IN
    /\ pc = "wait_in"
    /\ \/ /\ has_changed(in_block) \/ first_step
          /\ sem_recvs[slot] > 0
          /\ sem_recvs' = [sem_recvs EXCEPT ![slot] = @ - 1]
       \/ ~(has_changed(in_block) \/ first_step) /\ UNCHANGED sem_recvs
    /\ pc' = "body"
    /\ UNCHANGED <<config, step, copy_in_slot, wait_in_slot, next_fetch, window_in,
                   outputs, dmas, seen>>

\* The kernel reads its input block and adds its step to the output block,
\* which it clears when the block is a new one.
Body ==
    LET slot == copy_out_slot % out_count IN
    /\ pc = "body"
    /\ seen' = Append(seen, window_in[wait_in_slot % in_count])
    /\ window_out' = [window_out EXCEPT ![slot] =
                         IF first_step \/ has_changed(out_block) THEN {step} ELSE @ \cup {step}]
    /\ pc' = "copy_out"
    /\ UNCHANGED <<config, step, inputs, copy_out_slot, wait_out_slot, sem_sends, hbm_out, dmas>>

MustCopyOut == will_change_current(out_block) \/ last_step

copy_out ==
    /\ pc = "copy_out"
    /\ \/ /\ MustCopyOut
          /\ dmas' = dmas \cup {[dir |-> "out", n |-> copy_out_slot, block |-> out_block[step],
                                 slot |-> copy_out_slot % out_count]}
          /\ copy_out_slot' = copy_out_slot + 1
       \/ ~MustCopyOut /\ UNCHANGED <<dmas, copy_out_slot>>
    /\ pc' = "wait_out"
    /\ UNCHANGED <<config, step, inputs, wait_out_slot, window_out, sem_sends, hbm_out, seen>>

\* Mutant: the copy is not waited for.
AwaitOutMutant == UNCHANGED sem_sends

\* A wait on the semaphore of the current wait_out slot.
AwaitOut ==
    LET slot == wait_out_slot % out_count IN
    sem_sends[slot] > 0 /\ sem_sends' = [sem_sends EXCEPT ![slot] = @ - 1]

\* wait_out, then advance_slots and the next iteration.
wait_out ==
    /\ pc = "wait_out"
    /\ \/ /\ has_changed(out_block) /\ ~first_step
          /\ AwaitOut
          /\ wait_out_slot' = wait_out_slot + 1
       \/ /\ ~has_changed(out_block) \/ first_step
          /\ UNCHANGED <<sem_sends, wait_out_slot>>
    /\ wait_in_slot' = wait_in_slot + (IF will_change_current(in_block) \/ last_step THEN 1 ELSE 0)
    /\ IF last_step THEN pc' = "finalize" /\ UNCHANGED step
       ELSE pc' = "copy_in" /\ step' = step + 1
    /\ UNCHANGED <<config, copy_in_slot, next_fetch, window_in, sem_recvs,
                   copy_out_slot, window_out, hbm_out, dmas, seen>>

finalize ==
    /\ pc = "finalize"
    /\ AwaitOut
    /\ pc' = "done"
    /\ UNCHANGED <<config, step, inputs, copy_out_slot, wait_out_slot, window_out, hbm_out,
                   dmas, seen>>

CoreStep ==
    \/ initialize_step \/ InitializeLookahead \/ copy_in \/ wait_in \/ Body \/ copy_out
    \/ wait_out \/ finalize

Next == CoreStep \/ (\E d \in dmas : DmaDone(d))

Spec == Init /\ [][Next]_vars

FairSpec == Spec /\ WF_vars(CoreStep) /\ WF_vars(\E d \in dmas : DmaDone(d))

-----------------------------------------------------------------------------

\* Types; a copy goes to or from a slot that exists, a semaphore of a slot
\* (sem_recvs) is never below zero, and the cumulative slots stay counts.
TypeOK ==
    /\ step \in 0 .. num_steps
    /\ window_in \in [0 .. (in_count - 1) -> InBlocks \cup {NoBlock}]
    /\ \A d \in dmas : d.slot \in (IF d.dir = "in" THEN DOMAIN window_in ELSE DOMAIN window_out)
    /\ \A s \in DOMAIN sem_recvs : sem_recvs[s] \in 0 .. num_steps + 1
    /\ copy_in_slot \in Nat /\ wait_in_slot \in Nat /\ copy_out_slot \in Nat

\* The parts that emit_pipeline gives to the cores make up the grid, and no
\* grid point is given to two cores.
PartitionIsExact ==
    pc = "initialize" =>
      /\ UNION {PointsOf(call.grid, call.num_cores, c) : c \in 0 .. (call.num_cores - 1)}
           = GridPoints(call.grid)
      /\ \A c, d \in 0 .. (call.num_cores - 1) :
            c # d => PointsOf(call.grid, call.num_cores, c) \cap PointsOf(call.grid, call.num_cores, d) = {}

\* Every body reads the input block its index map asks for, however late or
\* out of order the copies complete, and however many steps ahead they were
\* started.
BodySeesItsBlock == \A i \in 1 .. Len(seen) : seen[i] = in_block[i - 1]

\* While the kernel works on its slots no copy writes to the input slot or
\* reads the output slot, and no two copies in flight share a slot, so that a
\* wait on the slot's semaphore is a wait for the right copy.
SlotsAreExclusive ==
    /\ pc = "body" =>
          \A d \in dmas : d.slot # (IF d.dir = "in" THEN wait_in_slot % in_count
                                    ELSE copy_out_slot % out_count)
    /\ \A d, e \in dmas : d.dir = e.dir /\ d.slot = e.slot => d = e

\* The steps of the last visit to a block.
LastVisit(b) ==
    LET steps == {i \in 0 .. (num_steps - 1) : out_block[i] = b}
        last == CHOOSE i \in steps : \A j \in steps : j <= i
    IN IF steps = {} THEN {}
       ELSE {i \in steps : \A j \in i .. last : out_block[j] = b}

\* When the pipeline ends, every output block in HBM holds the results of all
\* the steps of its last visit.
OutputIsComplete == pc = "done" => \A b \in OutBlocks : hbm_out[b] = LastVisit(b)

\* When the pipeline ends, no copy is in flight in a buffer that is about to be
\* freed and all its semaphores are back at zero; the prologue fetches at most
\* as many steps ahead as the grid has.
DrainedAtEnd ==
    pc = "done" /\ (use_lookahead \/ in_count <= num_steps + 1) =>
        /\ dmas = {}
        /\ \A s \in DOMAIN sem_recvs : sem_recvs[s] = 0
        /\ \A s \in DOMAIN sem_sends : sem_sends[s] = 0

\* No wait is for a copy that is never started: the pipeline comes to its end.
PipelineEnds == <>(pc = "done")

\* However late copies complete and however far they run ahead, each step of the
\* pipeline has its slots to itself, with the right block in them.
StepsHaveTheirSlots == TypeOK /\ BodySeesItsBlock /\ SlotsAreExclusive

\* What the pipeline leaves behind: the output in HBM, and nothing else.
EndsCompleteAndDrained == OutputIsComplete /\ DrainedAtEnd
=============================================================================
