-------------------------- MODULE KernelLifecycle ---------------------------
(***************************************************************************)
(* The life of the global state of the TPU interpreter while the threads   *)
(* of several devices interpret one kernel after another                   *)
(* (interpret_pallas_call and its callbacks in                             *)
(* interpret/interpret_pallas_call.py).                                    *)
(*                                                                         *)
(* The state is not passed along: every callback looks up the global       *)
(* _shared_memory again.  The first device that starts a kernel makes it,  *)
(* and the last one that ends the kernel deletes it, as the action of a    *)
(* barrier.  A device whose callback raises does not come to the barriers. *)
(*                                                                         *)
(* A kernel with a collective_id synchronises the devices itself, with a   *)
(* barrier semaphore, before it touches the buffers of other devices.      *)
(***************************************************************************)
EXTENDS Integers, FiniteSets

CONSTANTS
    Devices,
    NumBuffers,  \* buffers that a kernel allocates on each device
    MaxKernels,  \* bound on the kernels a device runs
    MaxFailures  \* bound on the callbacks that raise

ASSUME LifecycleAssumption ==
    /\ IsFiniteSet(Devices) /\ Devices # {} /\ NumBuffers \in Nat
    /\ MaxKernels \in Nat /\ MaxFailures \in Nat

VARIABLES
    collective,     \* per kernel: mosaic_params.collective_id is not None
    _shared_memory, \* 0 for None, else the number of the SharedMemory object
    buffers,        \* in that object: per device, the buffers allocated
    count,          \* in that object: the barrier semaphore (fixed_id_sem)
    device_pc,
    memory,         \* the object whose barrier a device waits in
    kernel,         \* per device, the number of the kernel it runs or ran last
    made,           \* history: number of SharedMemory objects made
    madeFor,        \* history: the kernel the last of them was made for
    failures        \* history

lifecycleVars ==
    <<collective, _shared_memory, buffers, count, device_pc, memory, kernel, made, madeFor, failures>>

LifecycleInit ==
    /\ collective \in [1 .. MaxKernels -> BOOLEAN]
    /\ _shared_memory = 0
    /\ buffers = [d \in Devices |-> 0]
    /\ count = [d \in Devices |-> 0]
    /\ device_pc = [d \in Devices |-> "idle"]
    /\ memory = [d \in Devices |-> 0]
    /\ kernel = [d \in Devices |-> 0]
    /\ made = 0 /\ madeFor = 0 /\ failures = 0

Goto(d, where) == device_pc' = [device_pc EXCEPT ![d] = where]

-----------------------------------------------------------------------------

\* `if _shared_memory is None`
MustMake == _shared_memory = 0

\* _initialize_shared_memory, under _shared_memory_init_lock.
_initialize_shared_memory(d) ==
    /\ device_pc[d] = "idle" /\ kernel[d] < MaxKernels
    /\ kernel' = [kernel EXCEPT ![d] = @ + 1]
    /\ \/ /\ MustMake
          /\ _shared_memory' = made + 1
          /\ made' = made + 1 /\ madeFor' = kernel[d] + 1
          /\ buffers' = [e \in Devices |-> 0] /\ count' = [e \in Devices |-> 0]
       \/ /\ ~MustMake
          /\ UNCHANGED <<_shared_memory, made, madeFor, buffers, count>>
    /\ Goto(d, "allocate")
    /\ UNCHANGED <<memory, failures>>

MoreBuffers(d) == buffers[d] < NumBuffers

\* One of the calls of _allocate_buffer and _allocate_semaphores.
AllocateOnDevice(d) ==
    /\ device_pc[d] = "allocate" /\ MoreBuffers(d)
    /\ buffers' = [buffers EXCEPT ![d] = @ + 1]
    /\ UNCHANGED <<_shared_memory, count, device_pc, memory, kernel, made, madeFor, failures>>

\* Mutant: there is no barrier before the kernel.
NeedsBarrierMutant(d) == FALSE

\* `if mosaic_params.collective_id is None`, and `num_devices > 1` in _barrier
NeedsBarrier(d) == ~collective[kernel[d]] /\ Cardinality(Devices) > 1

EndAllocation(d) ==
    /\ device_pc[d] = "allocate" /\ ~MoreBuffers(d)
    /\ Goto(d, IF NeedsBarrier(d) THEN "barrier"
               ELSE IF collective[kernel[d]] THEN "signal" ELSE "kernel")
    /\ UNCHANGED <<_shared_memory, buffers, count, memory, kernel, made, madeFor, failures>>

\* Mutant: a barrier for one device more.
num_devices_more == Cardinality(Devices) + 1

\* The parties of both barriers.
num_devices == Cardinality(Devices)

\* threading.Barrier.wait: the last device to come runs the action A and lets
\* the others go on.
BarrierWait(d, where, waiting, then, A, noAction) ==
    LET inside == {e \in Devices : device_pc[e] = waiting /\ memory[e] = _shared_memory} IN
    /\ device_pc[d] = where
    /\ memory' = [memory EXCEPT ![d] = _shared_memory]
    /\ \/ /\ Cardinality(inside) + 1 = num_devices
          /\ device_pc' = [e \in Devices |-> IF e = d \/ e \in inside THEN then ELSE device_pc[e]]
          /\ A
       \/ /\ Cardinality(inside) + 1 # num_devices
          /\ Goto(d, waiting)
          /\ noAction

\* The action synchronises the clocks (module SharedMemoryClocks): all of
\* them are zero.
_barrier(d) ==
    /\ BarrierWait(d, "barrier", "barrier_wait", "kernel", TRUE, TRUE)
    /\ UNCHANGED <<_shared_memory, buffers, count, kernel, made, madeFor, failures>>

\* The barrier of a kernel with a collective_id: get_barrier_semaphore, signal
\* the other devices ...
KernelSignals(d) ==
    /\ device_pc[d] = "signal"
    /\ count' = [e \in Devices |-> IF e = d THEN count[e] ELSE count[e] + 1]
    /\ Goto(d, "wait")
    /\ UNCHANGED <<_shared_memory, buffers, memory, kernel, made, madeFor, failures>>

others == Cardinality(Devices) - 1

\* The condition Semaphore.wait waits for.
Enough(d) == count[d] >= others

\* ... and wait for their signals.
KernelWaits(d) ==
    /\ device_pc[d] = "wait"
    /\ Enough(d)
    /\ count' = [count EXCEPT ![d] = @ - others]
    /\ Goto(d, "kernel")
    /\ UNCHANGED <<_shared_memory, buffers, memory, kernel, made, madeFor, failures>>

\* The kernel has run on all cores, the outputs are read, _validate.
EndKernel(d) ==
    /\ device_pc[d] = "kernel"
    /\ Goto(d, "clean_up")
    /\ UNCHANGED <<_shared_memory, buffers, count, memory, kernel, made, madeFor, failures>>

\* _clean_up_shared_memory; the action of its barrier is _clear_shared_memory.
_clean_up_shared_memory(d) ==
    /\ BarrierWait(d, "clean_up", "clean_up_wait", "released",
                   _shared_memory' = 0, UNCHANGED _shared_memory)
    /\ UNCHANGED <<buffers, count, kernel, made, madeFor, failures>>

\* A device comes out of clean_up_barrier.wait, at its own pace.
Leave(d) ==
    /\ device_pc[d] = "released"
    /\ Goto(d, "idle")
    /\ UNCHANGED <<_shared_memory, buffers, count, memory, kernel, made, madeFor, failures>>

\* A callback of the kernel raises; nothing is cleaned up.
Raise(d) ==
    /\ device_pc[d] \in {"allocate", "signal", "kernel"} /\ failures < MaxFailures
    /\ failures' = failures + 1
    /\ Goto(d, "failed")
    /\ UNCHANGED <<_shared_memory, buffers, count, memory, kernel, made, madeFor>>

\* The program has control again when no device is inside the kernel.
reset_tpu_interpret_mode_state ==
    /\ \A d \in Devices : device_pc[d] = "failed"
    /\ _shared_memory' = 0
    /\ device_pc' = [d \in Devices |-> "idle"]
    /\ UNCHANGED <<buffers, count, memory, kernel, made, madeFor, failures>>

DeviceStep(d) ==
    /\ \/ _initialize_shared_memory(d)
       \/ AllocateOnDevice(d) \/ EndAllocation(d) \/ _barrier(d)
       \/ KernelSignals(d) \/ KernelWaits(d) \/ EndKernel(d)
       \/ _clean_up_shared_memory(d) \/ Leave(d)
    /\ UNCHANGED collective

Failure ==
    /\ (\E d \in Devices : Raise(d)) \/ reset_tpu_interpret_mode_state
    /\ UNCHANGED collective

LifecycleNext == (\E d \in Devices : DeviceStep(d)) \/ Failure

LifecycleSpec == LifecycleInit /\ [][LifecycleNext]_lifecycleVars

\* Every device runs its program: it takes the steps of its kernels and starts
\* the next kernel.
FairSpec == LifecycleSpec /\ \A d \in Devices : WF_lifecycleVars(DeviceStep(d))

-----------------------------------------------------------------------------

\* The types of the global state and of the devices; no device allocates more
\* buffers than its kernel has.
LifecycleTypeOK ==
    /\ collective \in [1 .. MaxKernels -> BOOLEAN]
    /\ _shared_memory \in 0 .. made /\ memory \in [Devices -> 0 .. made]
    /\ buffers \in [Devices -> 0 .. NumBuffers] /\ count \in [Devices -> Nat]
    /\ device_pc \in [Devices -> {"idle", "allocate", "barrier", "barrier_wait", "signal", "wait",
                                  "kernel", "clean_up", "clean_up_wait", "released", "failed"}]
    /\ kernel \in [Devices -> 0 .. MaxKernels]
    /\ made \in Nat /\ madeFor \in Nat /\ failures \in Nat

\* A device that has begun a kernel finds the shared memory, made for this very
\* kernel, until it has passed the last barrier or the state is reset: the
\* assertion of _get_shared_memory holds, no device meets buffers or semaphores
\* of an earlier kernel, and what is there after an exception can be examined.
MemoryOfThisKernel ==
    \A d \in Devices :
        device_pc[d] \notin {"idle", "released"} => _shared_memory # 0 /\ madeFor = kernel[d]

\* While the kernel runs on a device, the buffers of every device are there, so
\* that a remote copy finds its destination.
RemoteBuffersExist ==
    \A d, e \in Devices : device_pc[d] = "kernel" => buffers[e] = NumBuffers

\* If nothing raises, every kernel that a device begins ends, and the device
\* gets through all its kernels.
AllKernelsEnd ==
    [](failures = 0) => <>(\A d \in Devices : kernel[d] = MaxKernels /\ device_pc[d] = "idle")

\* What a device meets in the interpreter's global state belongs to its kernel and
\* is complete, whichever of the other devices are ahead, behind or have failed.
KernelMeetsItsOwnState == LifecycleTypeOK /\ MemoryOfThisKernel /\ RemoteBuffersExist
=============================================================================
