# TLA+ models of JAX: Pallas interpreters and pipelines, compilation cache, checkpointing

JAX is for the most part a tracer and a compiler: sequential program
transformation, with little state that several actors share. Four parts are
different, and are the subject of this development:

* the **TPU interpreter** of Pallas (`jax/_src/pallas/mosaic/interpret/`), which
  runs a kernel for many devices and cores in host threads, with shared memory,
  semaphores, asynchronous copies (DMAs), barriers, and a race detector based on
  vector clocks;
* the **software pipelines** of Pallas (`mosaic/pipeline.py` for TPUs,
  `mosaic_gpu/pipeline.py` for GPUs), which overlap a kernel's steps with
  asynchronous copies, and the `Barrier` of the GPU interpreter they run on;
* the **persistent compilation cache** (`jax/_src/lru_cache.py`,
  `jax/_src/compilation_cache.py`, `jax/_src/compiler.py`): a directory shared by
  processes, module state shared by threads, and executables that one process
  compiles for all;
* **asynchronous checkpointing** (`experimental/array_serialization/`): commit
  threads, barriers and keys of several processes, and a limit on the bytes a
  restore holds.

`PROJECT.json` maps every definition to the lines it models and lists the runs,
the mutants that show each property can fail, the hazards, the findings and the
theorems.

## Inventory

### TPU interpreter

| part | state | operations | what makes it correct |
|---|---|---|---|
| race detector (`race_detection_state.py`, `vector_clock.py`) | logs of reads and writes per buffer, `races_found` | `check_read`, `check_write` | the verdict is the truth about the logged accesses |
| clocks (`shared_memory.py`, `interpret_pallas_call.py`) | a vector clock per core, semaphore and DMA | `get`/`store`/`swap`, `semaphore_signal`, `semaphore_wait`, `dma_start`, `DMA.execute_*`, device barriers | clocks are ordered exactly when the accesses are |
| DMAs (`interpret_pallas_call.py`) | `DmaState`, carried data, `DMA.lock`, task queues per semaphore | `dma_start`, `dma_wait`, tasks run by waiting threads | each half happens once; a finished wait means the data is there; waits return |
| grid loop (`interpret_pallas_call.py`, `utils.py`) | loop index, previous start indices, kernel buffers, visited output ranges | copy in, body, copy out, revisiting check | every grid point once, in order, with its blocks; nothing of the output lost |
| buffer allocation | `mem`, reference counts, `next_buffer_id` per core | `_allocate_buffer`, `_deallocate_buffer` | a buffer lives as long as a core has it in scope, and no longer |
| buffer contents | numpy array per buffer | `get`, `store`, `swap` with and without mask | exactly the range is read and written; results have the shape asked for |
| lifecycle | globals `_shared_memory`, `races`, `dma_id_counter`; two `threading.Barrier`s | `_initialize_shared_memory`, `_barrier`, `_clean_up_shared_memory`, `reset_tpu_interpret_mode_state` | every callback finds the shared memory of its own kernel, complete |

The parts meet as follows. One thread per device runs the callbacks of
`interpret_pallas_call`; `thread_map` starts a thread per core, each of which
runs the grid loop and the kernel body. The body's memory accesses become
`get`, `store` and `swap` callbacks: each takes `SharedMemory.lock`, ticks and
copies the core's clock with the access, and then passes the copy to the race
detector, which has a lock of its own. Semaphores have a third lock (`cv`);
`DMA`s a fourth. The hard behaviours are all of one kind: state read under one
lock and used under the next.

### Pipelines

| part | state | operations | what makes it correct |
|---|---|---|---|
| TPU (`mosaic/pipeline.py`) | cumulative slot counters, VMEM slots and their DMA semaphores, next index to fetch | `initialize_step`, `copy_in`, `wait_in`, body, `copy_out`, `wait_out`, `advance_slots`, `finalize`; `_partition_grid` | each body has its block, no copy touches a slot in use, outputs are complete, nothing is left in flight, no wait is in vain |
| GPU (`mosaic_gpu/pipeline.py`) | SMEM slots, a barrier per slot for arrived copies and one for consumed buffers | prologue, compute loop, memory loop, quiesce, finalize | the same, with compute threads at their own pace and pipelines in sequence |
| GPU barrier (`mosaic_gpu/interpret/shared_memory.py`) | phase, arrivals, awaited phase per thread, clock | `arrive`, `wait`, `deallocate` | no phase is missed; a wait merges the clock of its phase |

The core that runs a TPU pipeline is sequential and its DMAs are the other
actors. On the GPU a memory thread and one or more compute threads hand slots to
each other through barriers.

### Compilation cache

| part | state | operations | what makes it correct |
|---|---|---|---|
| `LRUCache` | two files per entry, a lock file | `get`, `put`, `_evict_if_needed` | size limit, eviction order, whole values, robust to crashes |
| module state | `_cache`, `_cache_initialized`, `_cache_checked`, `_cache_used`, a mutex | `is_cache_used`, `_get_cache`, `_initialize_cache`, `reset_cache` | one report and one cache per reset; callers learn the truth |
| compile and share (`compiler.py`) | `modules_cache`, keys in the store of the distributed runtime | `compile_or_get_cached`, `_cache_read`, `_cache_write`, `_compile_and_share_module` | calls end; all processes run the executable that one compiled |

### Checkpointing

| part | state | operations | what makes it correct |
|---|---|---|---|
| `AsyncManager` | `_thread`, `_exception`, `_count`, a module-wide counter | `serialize`, `wait_until_finished`, `check_for_errors`, `_thread_func` | what a wait confirms is durable on all processes; errors are reported; nobody hangs |
| `_LimitInFlightBytes` | limit, available bytes, waiting coroutines | `wait_for_bytes`, `release_bytes` | the limit holds and nobody waits for ever |

### Other parts

The distributed runtime (`_src/distributed.py`), live devices
(`experimental/multihost_utils.py`), semaphore allocation and `VerificationCache`
have state machines worth modelling and are in the plan. Tracing,
differentiation, batching, lowering, numerical libraries, the Mosaic and Triton
compilers, export and the profiler are not modelled: they are sequential, or
their state is in C++ libraries outside the repository. They are most of the
repository's lines. `PROJECT.json` lists each with its reason.

## Modules

| module | models | used by |
|---|---|---|
| `VectorClock` | `vector_clock.py`: `lt`, `ordered`, `update`, `inc` | clocks, race detector |
| `Slices` | `_slices_overlap`, `_ranges_overlap` | race detector |
| `RaceDetectionState` | `check_read`, `check_write` | `RaceProofs` |
| `SharedMemoryClocks` | all clocks of the interpreter, with history variables for what happened before what | `RaceProofs` |
| `AsyncCopy` | abstract: what an asynchronous copy promises | `DmaTasks` |
| `DmaTasks` | threads, locks and task queues that execute DMAs | `DmaTasksProofs` |
| `GridLoop` | `interpret_pallas_call`'s loop on each core | `InterpretPallasCallProofs` |
| `BufferAllocation` | allocation and reference counts | `Buffers` |
| `BufferContent` | reads, writes and swaps of an array | `Buffers` |
| `Buffers` | composition: cores allocate, access and free | `BuffersProofs` |
| `PartitionGrid` | `_partition_grid` as operators | `EmitPipeline` |
| `EmitPipeline` | the TPU pipeline and its DMAs | `PipelineProofs` |
| `GpuBarrier` | `Barrier` of the GPU interpreter, as operators on a record | `GpuPipeline` |
| `GpuPipeline` | both GPU pipelines, their threads and copies | `PipelineProofs` |
| `EmitPipelineInv`, `GpuPipelineInv` | their inductive invariants | `PipelineProofs` |
| `KernelLifecycle` | the global state over several kernels | `InterpretPallasCallProofs` |
| `LRUCache` | the file cache | `LRUCacheProofs` |
| `CompilationCache` | module state of the cache | `CompileAndShare` |
| `CompileAndShare` | composition: `compile_or_get_cached` on the module state, with other processes | `CompileAndShareProofs` |
| `InFlightBytes` | `_LimitInFlightBytes`, as operators on a record | `Checkpointing` |
| `Checkpointing` | restore, saves and waits of several processes | `CheckpointingProofs` |

`MC*` modules hold constants and symmetry sets for TLC. Parameters of a kernel
that the code fixes at its start (`dma_execution_mode`, `out_of_bounds_reads`,
`collective`, `max_size`, the grid, index maps, buffer counts, the number of
processes) are variables that `Init` chooses and no step changes, so that one run
covers all their values.

### How state and actions correspond to the code

*A step is a section under one lock*, or one file system call where there is no
lock. Every value that the code copies under one lock to use under the next is a
variable of its own (`msg` in `SharedMemoryClocks`, `num_writes` and `num_reads`
in `RaceDetectionState`, `task` in `DmaTasks`, `h` in `LRUCache`).

`RaceDetectionState`. A call appends its access and captures the length of the
logs (`check_read`, `check_write`), then compares one logged access per step
(`ScanWrite`, `ScanRead`), stops at the first race of each loop and sets the flag
in a step of its own (`FlagWriteRace`, `FlagReadRace`).

`SharedMemoryClocks`. `get_store_swap` is an access by a core.
`semaphore_signal`/`DoSignal` and `semaphore_wait`/`WaitDone`/`MergeClock` are
the two and three lock sections of signalling and waiting. `DmaAccess` and
`DmaSignal` are the two parts of each half of a DMA, which ticks its virtual
entry twice; `get` and `store` tick the clock of the buffer's core as well,
although it is not the core that acts. When a DMA is executed, and by whom, is
left open: any order that the code can produce is allowed. `DeviceBarrier` joins
the clocks before and after the cores run. `make_vector_clock` stands for the
missing clock of an unsignalled semaphore and `signalled` tells the two apart.

`DmaTasks` has no clocks but the threads: `dma_start` appends one or two tasks or
runs the DMA itself (`eager`), `CheckCount` and `PopTask` are the loop of
`Semaphore.wait`, `StartRead`..`FinishWrite` are `execute_read` and
`execute_write` under `DMA.lock`. A kernel may reuse its source buffer after it
has waited for the send semaphore (`ReuseSource`), which is what makes late
execution of a copy dangerous. `AsyncCopy` is the same without threads, locks and
queues; the refinement mapping reads "reading"/"writing" off the lock.

`GridLoop` takes the grid, its parallel dimensions, the random permutation and
the index map from `Init`. Blocks are opaque; the kernel adds its grid point to
the output block, so that lost or stale blocks show.

`BufferAllocation` covers both ways to allocate: once for all cores before the
kernel, and per core in `run_scoped`, where cores find their shared HBM buffer by
counting allocations.

`BufferContent` keeps two facts about numpy: a slice is cut off at the end of the
array, and `array[rnge]` is a view. Values stored are uniform arrays. `Buffers`
puts the two together for an HBM buffer that the cores share: an access, and each
step of an allocation, holds `SharedMemory.lock`, which the code does not release
before the access is complete.

`EmitPipeline`. One action per call of the `Scheduler` in `loop_body`, in its
order; `DmaDone` completes any started copy. Grid indices are numbered by steps,
so that `_next_index` and `_prev_index` are the successor and predecessor modulo
the number of steps, and an index map is any function from steps to blocks. The
kernel adds its step to the output block, so that a copy made too early, or of the
wrong slot, shows in HBM. The prologue's calls of `fetch_with_lookahead`, one
fetch each, are one step (`InitializeLookahead`). `PartitionGrid` says which grid
points a core gets; the number of them is the number of its steps.

`GpuPipeline`. A thread is at a place: a primitive of its function (`line`), in a
pipeline of the sequence and in an iteration of the loop around the primitive. There
is one action per primitive, which also says where the thread goes on; `NextStep`,
`NextPipeline`, `MemoryLoopFrom` and `QuiesceFrom` are the ends of the loops. Steps
are numbered through the pipelines of a sequence, and a block of an input has the
number of the step it is fetched for. A wait at a barrier is two steps: the section
under `cv` (`barrier_wait`), and the merge of the clock, of which the thread holds a
reference (`MergeClock`). A vector clock is the set of accesses it counts. Whether
an output slice has changed depends on the index map and is left open.
`GpuBarrier` states where the interpreter raises as predicates, and
`BarriersNeverRaise` that they never hold.

`KernelLifecycle` has one thread per device. `BarrierWait` is
`threading.Barrier.wait` with its action; `Leave` lets a released device linger
in the barrier of the old kernel while others begin the next.

`LRUCache`: contents are "absent", "partial" or "whole"; `write_bytes` creates
the file in one step and fills it in the next; the two `unlink`s are two steps.
A crash releases the lock, as the operating system does. `dir_size` counts the
bytes of the entries, each byte a member of `stored`, so that sizes add up as
cardinalities do.

`CompilationCache`: only `_initialize_cache` holds the mutex across steps, since
`reset_cache` and `_get_cache` touch `_cache` without it.

`CompileAndShare` extends it: `Begin` asks `is_cache_used`, `BeginRead` and
`Compile` enter `_get_cache`, and the steps in between are those of
`CompilationCache`, interleaved with other threads, `reset_cache`, other processes
(`PeerRead`, `PeerGet`, `PeerTimesOut`) and faults: an evicted file, a read, write
or compilation that raises. An executable is a number, new for each compilation.
A file of an earlier job is there only if there is a directory (`ShareInit`).

`Checkpointing` runs the loop that the docstring of the manager gives. A process
is a main thread (`Call`, `Join`, `GetKey`, `Serialize`) and a commit thread
(`CommitFinished`, `EnterBarrier`, `LeaveBarrier`, `Callback`, `Publish`). The
barrier and the key-value store are the distributed runtime's and modelled from
how they are used; both waits may time out at any moment. `InFlightBytes` is the
restore before it: asyncio runs a coroutine until it waits, so each section
between waits is one step; `HeldBytes` counts the bytes of the shards being read.

## Runs

| run | shows | bounds |
|---|---|---|
| `race_detector` | `QuiescentVerdict`: when no call runs, `races_found` holds iff the logs have a race | 2 threads, logs of 2; clocks that are ordered or not, ranges that overlap or not: every pair of the comparison's outcomes |
| `clocks` | `HappensBeforeIsOrdered` (no false positives), `OrderedHappensBefore` (no false negatives for cores), `WaitHasClock` | 2 cores, 1 semaphore, 1 DMA, 3 ticks per core: enough for access - signal - wait - access and for a DMA between. Several devices and DMAs that share an entry are covered by the theorems |
| `dma_tasks` | `CopiesAreExact` (= `EachHalfSignalsOnce`, `WaitedForDataHasArrived`, `ExecuteWriteAsserts`), `WaitReturns`, `ImplementsAsyncCopy` | 2 cores, 2 semaphores, 2 DMAs, 2 waits per core, both execution modes: both tasks of one DMA at once, and two DMAs on one semaphore |
| `grid_loop` | `OnePassOverGrid` (= `EveryPointOnce`, `ArbitraryDimensionsInOrder`), `BodySeesItsInput`, `OutputIsComplete` | 2 cores, 4 grids with no, some and only parallel dimensions, some not divisible; all maps to 3 blocks, all permutations |
| `buffers` | `BuffersLastAsLongAsNeeded` (= `InScopeIsAllocated`, `FreedAfterLastCore`, `ResultHasShapeOfRange`), `AccessesAreExact` (= `WritesItsRange`, `HandsOutWhatItReplaces`) while cores come and go | 2 cores, 4 allocations of both kinds, before the kernel and in `run_scoped`; 2 x 2 buffer, ranges inside, across each edge and at the end, all masks |
| `kernel_lifecycle` | `KernelMeetsItsOwnState` (= `MemoryOfThisKernel`, `RemoteBuffersExist`), `AllKernelsEnd` | 3 devices, 3 kernels with or without a collective_id in any mixture, up to 3 exceptions |
| `lru_cache` | `EvictionMakesRoom` (= `SizeBounded`, `QueueSuffices`) with a crash anywhere; `EvictsLeastRecentlyUsed`, `GetReturnsWholeValue`, `PutFailsOnlyAfterCrash` until then | 2 processes, sizes 1..4 in a cache of 3 (one value that never fits, one that fills it) or without limit, 1 crash, 4 time stamps |
| `compilation_cache` | `ReportedOncePerReset`, `CreatedOncePerReset`; `CacheIsThereForAll` (= `EnabledCacheIsReturned`, `NeverInitializedTwice`) until a reset; `CallsEnd`, `PeersAreServed`, `AllRunTheSameExecutable` | 2 threads, 3 calls, 1 key, 1 waiting process, 1 reset, 1 failure, 1 fault: two calls at once and one after them; with and without sharing, with and without a file from an earlier job. More threads are covered by the theorems |
| `tpu_pipeline` | `PartitionIsExact`, `StepsHaveTheirSlots` (= `BodySeesItsBlock`, `SlotsAreExclusive`), `EndsCompleteAndDrained` (= `OutputIsComplete`, `DrainedAtEnd`), `PipelineEnds` | 5 grids of up to 5 steps on 1, 2 and 4 cores, some not divisible, some of dynamic size, cores without a step; 1 to 4 input buffers and lookahead with 2 and 3, so fewer and more buffers than steps; all maps to 3 input and 2 output blocks |
| `gpu_pipeline` | `BarriersNeverRaise`, `SmemIsSafe` (= `BodySeesItsBlocks`, `OutputSlotIsFree`, `NothingInFlightAtEnd`), `ClocksTellTheTruth` (= `ClocksOrderAccesses`, `MergesItsOwnPhase`), `PipelinesEnd` | 2 inputs, 1, 2, 4 and 5 steps, 1 to 3 buffers, delays 0 to 2, static and dynamic grids, `emit_pipeline` and 1 or 2 compute threads, sequences of 3 pipelines: slots are reused twice, and START, STEADY and STOP occur |
| `checkpointing` | `RestoreIsBounded` (= `RestoreWithinLimit`), `CallbackAfterAllWrote`, `ReturnMeansDurable` (= `WaitMeansDurable`, `NoSaveOnTopOfALostOne`), `ErrorsAreReported`, `AllProcessesEnd`, `AllSavedIfNoFailure` | 1 and 2 processes, 2 saves, 1 call repeated per process, 2 failures, shards of 1, 2 and 3 bytes under a limit of 2, so that one raises it |

In parentheses are the parts of a property that is a conjunction; each part is
a definition of its own. Each module's `TypeOK` (`LifecycleTypeOK` in
`KernelLifecycle`) is an invariant of its run, by itself in the first two runs and as a conjunct of the first conjunction in the
others (for `BufferContent` under the name `ResultHasShapeOfRange`). Where a type says more than the kind of a value - a count is never negative, an
index stays in the grid, a file that is read exists - its comment says so.
Deadlock is not checked: these systems end, when their bounds are used up or their
kernels, pipelines or training loops are over; that they end only there is what
the liveness properties say. Symmetry is used for interchangeable model values,
never in a run with a liveness property.

### Findings

One run is expected to fail; it shows that the code does not do what the docstring
next to it says.

* `swap_prior_contents`: `swap_buffer_content` without a mask assigns first and
  copies the view afterwards, so it returns the new contents instead of those
  "prior to the swap".

The conditions in the properties that hold mark places where the code does not do
what one might expect. These steps are in the models:

* `WaitHasClock` needs waits for positive values. With `detect_races`, a wait for
  0 before any signal to the core fails
  `assert self.clocks[global_core_id] is not None`.
* `PutFailsOnlyAfterCrash`: a process that dies between the two files of an entry
  leaves a directory in which `put` of a new key raises `FileNotFoundError`.
* `GetReturnsWholeValue` is about operations under the lock. With `max_size=-1`
  there is none, and `get` may return part of a value another process is writing.
* `NeverInitializedTwice` holds until a reset. `reset_cache` clears `_cache`
  before it takes the mutex to clear the flags; a cache made in between stays, and
  a thread that has seen `_cache` empty fails "The cache has already been
  initialized!".
* Of two threads that ask `is_cache_used` first at the same time, one is told
  `False` although the cache is used. It compiles without cache and without
  sharing, and `AllRunTheSameExecutable` leaves it out.
* `AllRunTheSameExecutable` needs a key that was compiled once. Two threads of the
  sharing process that miss at the same time both compile; the second
  `key_value_set_bytes` raises, and file and key may hold different executables.
* `PeersAreServed` needs that no file is lost: if the sharing process still finds
  a file that the other one does not, nobody sets the key the other waits for.
* The in-bounds mask of a masked swap is clipped in dimension 0 for every
  dimension, so a swap inside the buffer is refused if its range has more rows than
  columns, and one past the last column may not be.
* `DrainedAtEnd`: with more than `num_steps + 1` buffers the prologue of the TPU
  pipeline may start a copy that nobody waits for.
* After a failed save, every later `serialize` of the same manager waits for the
  key of the lost save and times out (`NoSaveOnTopOfALostOne`).

And these are excluded by an assumption or a bound, since the code then does not
work at all:

* TPU pipeline, output with one buffer: `wait_out` comes after the body, which
  writes to the slot whose copy is in flight. `BufferedRef` accepts it; the run has
  `OutputCounts = {2}`.
* TPU pipeline, lookahead with one buffer: the first block is never fetched.
* GPU `emit_pipeline`: the check on `delay_release` compares with the smallest
  value, while its message says "all". With delays 0 and 2, two buffers and three
  steps, a block is waited for that is fetched later (`EnoughBuffers`).
* GPU warp-specialized pipeline: an output block is stored when its indices change
  and not at the last step, so that what later steps add to a block stays in SMEM.
  A TODO in the code concedes a difference to the TPU's semantics.
* Checkpointing: a user who goes on to the next save after a copy raised, instead
  of repeating the call, makes the counters of the processes differ; barriers of
  different saves then meet.

### Fairness

`DmaTasks` (`FairSpec`) assumes weak fairness of each thread's own steps, and none of the
kernel's decisions to start or wait. A Python thread that is runnable is
scheduled again: the wait loop takes no lock for longer than a step, and `DMA.lock`
is released by a holder that never blocks while it has it. Weak fairness of the
whole thread suffices because a thread is always at one place.
`KernelLifecycle` adds that a device begins its next kernel, since that is its
program; the property is conditional on no exception.

`EmitPipeline` and `GpuPipeline` assume weak fairness of each core or thread and
of the completion of copies: hardware completes a DMA that was started, and the
interpreter executes it at once. `Checkpointing` assumes it of both threads of a
process, not of failures, and not of timeouts, except in `AllProcessesEnd`, whose
premise `WaitsTimeOut` says that a wait that stays blocked times out, which is what
the distributed runtime is asked for. `CompileAndShare` assumes it of the threads
inside a call; nobody is obliged to begin a call, and other processes need not move.

## Proofs

TLAPS proves, for every value of the constants that satisfies the named
assumptions:

* **`RaceProofs`**, the detector: `TypeCorrect`, `VerdictExact`. `QuiescentVerdict`
  says nothing while calls run, so it is strengthened to `DetectorInv`: the access of a
  running call is in the log behind the prefixes captured for it (`CallInLog`); a
  verdict given or about to be given has its race in the log (`AlarmInLog`); and a
  race in the log is reported, about to be, or *still ahead of the scan of one of
  its two threads* (`RaceSeen`). The argument rests on logs that only grow
  (`LogStep`) and on the symmetry of overlap and order (`ConflictsSymmetric`). The
  clocks and ranges are arbitrary, so the theorem does not depend on what the
  interpreter passes.
* **`RaceProofs`**, the clocks: `ClockTypes`, `NoFalsePositives`, `NoFalseNegatives`,
  `WaitFindsClock`. Every place that holds a clock - a core, a semaphore, a copy
  in flight, a DMA - is paired with the set of accesses known there, and `IInv`
  says that the two are faithful to each other (`ClocksFaithful`): the clock is
  above those accesses, a core's access that the clock counts is among them, and
  no clock is ahead of a core on the core's own entry. Merging, ticking and
  copying preserve this (`MergeFaithful`, `TickFaithful`, `StepFaithful`,
  `SignalFaithful`, `JoinClock`), and the rest is one lemma per action. Number of
  devices, cores, semaphores, DMAs and the size of the clocks are arbitrary;
  the assumption is that clocks have more entries than there are cores, which
  `get_vector_clock_size` ensures. `WaitFindsClock` needs `0 \notin Increments`,
  which TLC confirms: with 0 among them `WaitHasClock` fails.
* **`DmaTasksProofs`**: `ExactCopies`, and `RefinesAsyncCopy`, the refinement of
  the abstract copy. `IInv` says where a thread may be with which task
  (`ThreadsOK`), that the lock of a DMA is held by the one thread that is between
  the two steps of a half (`LocksOK`), that queued tasks belong to started DMAs
  (`QueuesOK`), what data a DMA carries in each state (`DataOK`), and
  `EachHalfSignalsOnce`: what was signalled is the number of halves executed,
  times the size of a DMA. A wait that has taken everything has therefore taken
  one signal per half (`ArrivedData`), and a source is reused only after its copy
  was read. The refinement has one lemma per action; only the four steps under
  `DMA.lock`, the start and the reuse are visible.
* **`InterpretPallasCallProofs`**, on one device (`GridLoop`): `OnePass`,
  `InputsAreThere`, `OutputsAreWhole`, for every grid, index map, permutation and
  number of cores. A point of the grid is a number whose digits are its indices and
  whose bases are the sizes (`Values`, `Number`). `get_indices` gives the point
  with a given number (`GetIndices`), `get_next_indices` goes from one number to
  the next (`GetNextIndices`), the number determines the point and orders the
  points lexicographically (`NumberUnique`, `NumberOrders`), and `_get_grid_point`
  permutes them (`GridPoint`, `GridPointOnto`). Parallel dimensions come first, so
  the points of one parallel index are consecutive (`Chunks`) and never fall on two
  sides of the border between two cores (`NoBorder`); the ranges of the cores cover
  all iterations (`SomeCore`). `LoopInv` then says that a core has run the body for
  the iterations from its first one to the one it has come to. `GridInv` adds what
  is in the buffers: `prev_in` is the block that was copied (`InputOK`), the kernel
  output buffer has all points of its block (`KernelOutOK`), and HBM has all points
  of a block the core has moved on from (`HbmOK`). The recursive functions are
  unfolded by induction over sets (`SetInduction`, `Upward`, `Downward`), which
  itself follows from the pigeonhole principle of `FiniteSetTheorems`.
* **`InterpretPallasCallProofs`**, on all devices (`KernelLifecycle`): `OwnState`. The
  devices are in the kernel that the shared memory was made for, or have ended the
  one before it (`InStep`); they wait in barriers of the shared memory there is
  (`WaitsHere`); a device past its allocations has its buffers (`Filled`); and the
  barrier semaphore of a kernel with a collective_id counts no device twice, and
  none that has not allocated (`Signalled`), so that a full count means that all
  have.
* **`BuffersProofs`**: `BuffersLast`, by `AllocationInv`: a buffer is created
  once, when the first core passes its id (`CreatedOnce`); its reference count is
  the number of its users, those to come included, that have not left it
  (`Counted`); and a core is in the scope of buffers it has passed and not left
  (`Scoped`). `ExactAccesses`, an action property, from
  lemmas on slices that are cut off at the end of the array (`RangeFacts`,
  `InBoundsPlace`, `GetIsExact`, `FillIsExact`, `MaskedSwapIsExact`): it holds with
  the misplaced clipping of the in-bounds mask as well.
* **`PipelineProofs`**, on TPUs: `PartitionIsAlwaysExact`, for every grid and number of
  cores that `_partition_grid` accepts: the offsets of the parts are adjacent
  (`Parts`), so that an index is in the part of one core (`PartsAreExact`), and the
  dimension that is divided exists (`PartitionDimension`).
  `StepsAlwaysHaveTheirSlots` and `PipelineEndsCompleteAndDrained`, for every number
  of steps and input buffers, with and without lookahead, all index maps and every
  order of completion. Blocks are numbered by the copies that bring them: the
  number of changes up to a step (`Count`), counted beyond the end of the grid as
  well, where the prologue may go. The invariant `PipelineInv` says that the
  cumulative slots are such counts (`InCounts`, `OutCounts`): everything up to a
  *frontier* has been looked at for fetching, and no more copies were started than
  there are slots beyond those waited for. The copies that are due - started and
  not waited for - then have different slots (`DueSlots`, from `SlotsApart`); each
  is in flight or has signalled (`UnderWay`, `InLanded`), and what was waited for is
  in the slot of the current step (`InCurrent`). On the way out a slot holds the
  steps of one visit to a block (`OutFlight`, `OutCurrent`), and HBM the last visit
  that has arrived: two visits in a row are of different blocks (`NextCopy`), so
  that the two copies that may overtake each other never write the same block
  (`HbmInv`, `CopyOutDone`). The hypothesis `TwoBuffers` excludes the two calls that
  do not work (see Findings): one buffer for the output, or for an input with
  lookahead.
* **`PipelineProofs`**, on GPUs: `GpuBarriersNeverRaise`, `GpuSmemIsSafe`,
  `GpuClocksTellTheTruth`, for every kernel that the two functions accept (and whose
  buffers exceed all delays, `EnoughBuffers`): any number of compute threads, inputs,
  steps, buffers and pipelines in sequence, static grids and dynamic ones. Step `g`
  uses slot `Slot(g)` for the `Lap(g)`-th time, and that lap is the phase its barrier
  is in before the last arrival. The invariant `GpuInv` says where threads can be
  (`ControlInv`) and turns their places into numbers of steps: waited for (`Waited`),
  computed (`Bodies`), released (`Released`), seen to be released by the memory thread
  (`Passed`), fetched for each input (`FetchedBy`, `Arrived`). The phase, the arrivals
  and the awaited phases of every barrier are functions of these numbers (`InInv` for
  the copies, `ReleaseInv` for the releases, `BarrierCounts`), and a slot holds the
  latest block that arrived (`SmemInv`). Nobody is a lap ahead of those he waits for:
  a block is fetched into a slot only when all compute threads have released the one
  before (`ReleaseSeen`, `OneLapAhead`), and it is not released before it has been waited
  for; so at most one phase of a barrier is unseen. A barrier as such is the subject of
  `PhaseInv`, used for both kinds. `GroupsInv` counts the copies to GMEM that may read
  a slot. The clocks of threads, barriers and copies in flight hold at least what these
  numbers say (`ComputeClocks`, `InClocks`, `CopyClocks`, `ReleaseClocks`), although a
  thread merges the clock of a barrier in a step of its own: nobody can complete the
  next phase in between.
* **`LRUCacheProofs`**: `RoomIsMade`, `GetsAreWhole`, `PutsSucceed`,
  `LeastRecentlyUsedGoes`. Operations under the lock exclude each other
  (`Exclusive`); the queue of the evicting process holds the entries that are still
  there, and a value that is being written fits into what is left (`Room`); and
  until a crash every entry that nobody is working on is whole and has the time
  stamp of its last use (`Uncrashed`).
* **`CompileAndShareProofs`**: for the module state alone, `ReportsBounded`,
  `CreationsBounded` and `CacheForAll`: the count of reports plus the one still
  possible while `_cache_checked` is false is bounded by the resets done, likewise
  for creations; and before the first reset `_cache` is empty only while nobody has
  initialized it or the creation failed (`Unreset`), so that nobody is answered
  otherwise (`Answers`). `SharingUsesCache` says that every step of
  `compile_or_get_cached`, of other processes and of faults is a step of
  `CompilationCache` or leaves its state alone; `SharingReportsOnce`,
  `SharingCreatesOnce` and `SharingFindsCache` follow, for any number of threads,
  keys and processes. `SameExecutable` adds that all places that may hand out an
  executable for a key - file, key-value store, a thread that has compiled - hold
  the same one (`OneCandidate`), as long as it was compiled once and no file was
  lost (`Smooth`). The proof needed that there are no files without a cache
  directory.
* **`CheckpointingProofs`**: `CallbacksComeLast`, `ReturnsMeanDurable`, by
  `SaveInv`: `_count` and the counter of the module follow the number of saves, so
  that a count names the same save on all processes (`CountsFollowSaves`), a
  process that arrived at the barrier of a count has written its save, a barrier
  that was passed has all processes, and a key stands for a durable save
  (`ServiceOK`). `RestoresAreBounded`: the available bytes are the limit minus
  those of the shards being read, and the limit is the given one or the size of a
  shard (`LimiterOK`).

`NoFalsePositives`, `NoFalseNegatives` and `VerdictExact` together give the
meaning of the race detector: two accesses by cores are reported exactly if they
overlap, one writes, and neither happened before the other. For two DMAs that
drew the same virtual entry, `lt` may hold without happens-before: the detector
may miss a race of DMAs, which the comment on `get_random_virtual_device_id`
concedes, and neither theorem claims otherwise.

### Only model-checked

* Liveness under fairness: `WaitReturns`, `AllKernelsEnd`, `CallsEnd`,
  `PeersAreServed`, `PipelineEnds`, `PipelinesEnd`, `ErrorsAreReported`,
  `AllProcessesEnd`, `AllSavedIfNoFailure`. The prover has no support for it, nor for
  `ENABLED`.

The provers cannot use the induction theorems of the library, which take an operator
as a parameter. Where a proof needs induction, it is over a set: `SetInduction` in
`InterpretPallasCallProofs` and `PipelineProofs`.

No module uses `RECURSIVE` operators, with which the prover cannot work; they use
recursive functions and folds.

### Limits of the models

* A kernel is any sequence of operations, except where its text says otherwise
  (`GridLoop`, `DmaTasks`). In `DmaTasks` a core waits in units of one DMA.
* `GetReturnsWholeValue` is checked without crashes: after a crash inside
  `write_bytes` the partial file stays, and `put` never replaces it.
* `LRUCache` uses the lock of a local file system; `SoftFileLock` outlives its
  holder.
* With an exception on one device the others stay in the barrier, as the code's
  TODO says; `AllKernelsEnd` is stated without exceptions.
* `VerificationCache`, whose check and mark of a key are separate steps, is not
  modelled.
* int16 ids, semaphore allocation (semaphores of `run_scoped` are never freed), strided and transformed ranges, aliasing of
  inputs and outputs are not modelled.
* `EmitPipeline` has one buffered input and one buffered output: operands do not
  share slots or semaphores. Trivial windowing, `no_pipelining` and refs that are
  input and output are left out. The cumulative counters are `uint32` in the code
  and count at most one per step.
* `GpuPipeline` leaves out `manual_consumed_barriers`, outputs that do not depend
  on the grid, and collective copies.
* `CompileAndShare`: the process that shares is process 0, auto-PGLE is off and
  there are no host callbacks. Compression and serialization are taken to be
  faithful.
* `Checkpointing`: what TensorStore writes is one step per process and save.

## Plan

Done: the modules above, in the order detector, clocks, DMAs, caches, grid loop,
allocation, lifecycle, contents; then pipelines, GPU barrier, compile and share,
checkpointing, and the composition of allocation and contents; the theorems above.

Next, in this order:

1. *The composed detector*, in which the verdict of `RaceDetectionState` is stated on
   the happens-before of `SharedMemoryClocks` itself.
2. *Models*: `distributed.State`, `_LiveDevices`, `VerificationCache`, semaphore
   allocation.
