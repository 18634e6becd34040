-------------------------- MODULE BufferAllocation --------------------------
(***************************************************************************)
(* Buffers of one device of the TPU interpreter: _allocate_buffer and      *)
(* _deallocate_buffer (interpret/interpret_pallas_call.py) on the shared   *)
(* memory (interpret/shared_memory.py).                                    *)
(*                                                                         *)
(* Before the kernel the device's thread allocates buffers for all cores.  *)
(* Then the threads of the cores run the same sequence of run_scoped, each *)
(* at its own pace and perhaps not to its end; an allocation is two steps  *)
(* under the lock of the shared memory.  Cores find the HBM buffer of a    *)
(* run_scoped, which they share, by counting their own allocations.        *)
(***************************************************************************)
EXTENDS Integers, Sequences, FiniteSets

CONSTANTS
    num_cores_per_device,
    Spaces,   \* the memory spaces of the allocations, in program order
    NumSetup  \* how many of them are made before the kernel runs

ASSUME AllocationAssumption ==
    /\ num_cores_per_device \in Nat \ {0}
    /\ Spaces \in Seq({"hbm", "vmem"}) /\ NumSetup \in 0 .. Len(Spaces)

Cores == 0 .. (num_cores_per_device - 1)
Ids == 1 .. Len(Spaces)

VARIABLES
    next_buffer_id, \* per core; counted from 1 here, from 100 in the code
    ref_count,      \* of the buffers in mem, by key
    running,        \* the kernel has started
    pc, buffer_id,  \* of the thread of a core: the id it allocates
    scope,          \* the keys of the buffers a core has in scope
    left,           \* history: key -> cores that left the scope
    created         \* history: key -> how often allocate_buffer made a buffer

vars == <<next_buffer_id, ref_count, running, pc, buffer_id, scope, left, created>>

Keys == [space : {"hbm", "vmem"}, id : Ids, core : Cores]
mem == DOMAIN ref_count

\* _local_core_id_or_zero_if_hbm, and the key of _allocate_buffer
KeyOf(c, id) ==
    [space |-> Spaces[id], id |-> id, core |-> IF Spaces[id] = "hbm" THEN 0 ELSE c]

\* Mutant: the buffer goes with the first core that leaves.
InitialRefCountMutant(id) == 1

InitialRefCount(id) == IF Spaces[id] = "hbm" THEN num_cores_per_device ELSE 1

Init ==
    /\ next_buffer_id = [c \in Cores |-> 1]
    /\ ref_count = [k \in {} |-> 0]
    /\ running = FALSE
    /\ pc = [c \in Cores |-> "run"]
    /\ buffer_id = [c \in Cores |-> 0]
    /\ scope = [c \in Cores |-> {}]
    /\ left = [k \in Keys |-> {}]
    /\ created = [k \in Keys |-> 0]

Put(m, k, n) == [x \in DOMAIN m \cup {k} |-> IF x = k THEN n ELSE m[x]]

\* `if key not in self.mem`
MustCreate(k) == k \notin mem

-----------------------------------------------------------------------------

\* _allocate_buffer with local_core_id None: one buffer in HBM, or one for
\* each core.  The ids of the cores are in step, as the code asserts.
AllocateForAllCores ==
    LET id == next_buffer_id[0]
        new == {KeyOf(c, id) : c \in Cores}
    IN
    /\ ~running /\ id <= NumSetup
    /\ \A c \in Cores : next_buffer_id[c] = id
    /\ next_buffer_id' = [c \in Cores |-> id + 1]
    /\ ref_count' = [k \in mem \cup new |-> IF k \in new THEN InitialRefCount(id)
                                            ELSE ref_count[k]]
    /\ created' = [k \in Keys |-> IF k \in new THEN created[k] + 1 ELSE created[k]]
    /\ UNCHANGED <<running, pc, buffer_id, scope, left>>

StartKernel ==
    /\ ~running /\ next_buffer_id[0] = NumSetup + 1
    /\ running' = TRUE
    /\ UNCHANGED <<next_buffer_id, ref_count, pc, buffer_id, scope, left, created>>

\* SharedMemory.get_next_buffer_id
get_next_buffer_id(c) ==
    /\ running /\ pc[c] = "run" /\ next_buffer_id[c] <= Len(Spaces)
    /\ buffer_id' = [buffer_id EXCEPT ![c] = next_buffer_id[c]]
    /\ next_buffer_id' = [next_buffer_id EXCEPT ![c] = @ + 1]
    /\ pc' = [pc EXCEPT ![c] = "allocate"]
    /\ UNCHANGED <<ref_count, running, scope, left, created>>

\* SharedMemory.allocate_buffer
allocate_buffer(c) ==
    LET k == KeyOf(c, buffer_id[c]) IN
    /\ pc[c] = "allocate"
    /\ \/ /\ MustCreate(k)
          /\ ref_count' = Put(ref_count, k, InitialRefCount(buffer_id[c]))
          /\ created' = [created EXCEPT ![k] = @ + 1]
       \/ ~MustCreate(k) /\ UNCHANGED <<ref_count, created>>
    /\ scope' = [scope EXCEPT ![c] = @ \cup {k}]
    /\ pc' = [pc EXCEPT ![c] = "run"]
    /\ UNCHANGED <<next_buffer_id, running, buffer_id, left>>

\* has_zero_ref_count after decrease_ref_count
LastReference(k) == ref_count[k] = 1

\* SharedMemory.deallocate_buffer, when the core leaves a run_scoped: scopes
\* are left in any order here.
deallocate_buffer(c, k) ==
    /\ pc[c] = "run" /\ k \in scope[c]
    /\ k \in mem
    /\ ref_count' = IF LastReference(k)
                    THEN [x \in mem \ {k} |-> ref_count[x]]
                    ELSE [ref_count EXCEPT ![k] = @ - 1]
    /\ scope' = [scope EXCEPT ![c] = @ \ {k}]
    /\ left' = [left EXCEPT ![k] = @ \cup {c}]
    /\ UNCHANGED <<next_buffer_id, running, pc, buffer_id, created>>

Next ==
    \/ AllocateForAllCores
    \/ StartKernel
    \/ \E c \in Cores :
          \/ get_next_buffer_id(c)
          \/ allocate_buffer(c)
          \/ \E k \in scope[c] : deallocate_buffer(c, k)

Spec == Init /\ [][Next]_vars

-----------------------------------------------------------------------------

\* The reference counts of buffers in memory are positive (the assertion in
\* Buffer.decrease_ref_count).
TypeOK ==
    /\ next_buffer_id \in [Cores -> 1 .. (Len(Spaces) + 1)]
    /\ mem \subseteq Keys /\ \A k \in mem : ref_count[k] \in 1 .. num_cores_per_device
    /\ running \in BOOLEAN
    /\ pc \in [Cores -> {"run", "allocate"}]
    /\ buffer_id \in [Cores -> 0 .. Len(Spaces)]
    /\ scope \in [Cores -> SUBSET Keys] /\ left \in [Keys -> SUBSET Cores]
    /\ created \in [Keys -> Nat]

\* A core that is inside a run_scoped finds its buffer in memory, even if all
\* the others have left, so that no access or deallocation raises a KeyError;
\* and it is the buffer every other core has used: a core that comes late
\* does not replace what the others have stored in HBM.
InScopeIsAllocated ==
    \A c \in Cores : \A k \in scope[c] : k \in mem /\ created[k] = 1

\* Every buffer of a run_scoped that all its cores have left is freed.
FreedAfterLastCore ==
    \A id \in Ids : (\A c \in Cores : c \in left[KeyOf(c, id)]) =>
        \A c \in Cores : KeyOf(c, id) \notin mem
=============================================================================
