------------------------- MODULE SharedMemoryClocks -------------------------
(***************************************************************************)
(* The vector clocks of the Pallas TPU interpreter with detect_races=True: *)
(* the clocks of the cores (interpret/shared_memory.py), of the semaphores *)
(* and of the DMAs (interpret/interpret_pallas_call.py).                   *)
(*                                                                         *)
(* One thread interprets each core.  Every operation of a core ticks the   *)
(* core's clock under the lock of the shared memory; semaphores have a     *)
(* lock of their own (cv), so signalling and waiting take two steps.  A    *)
(* DMA ticks an entry of its own, chosen at random and possibly shared     *)
(* with other DMAs; the thread that executes it is left open here (module  *)
(* DmaTasks says which).                                                   *)
(*                                                                         *)
(* events, happensBefore and the known variables are history: what really  *)
(* happened before each memory access, to compare the clocks with.         *)
(***************************************************************************)
EXTENDS VectorClock, Integers

CONSTANTS
    NumDevices,
    NumCoresPerDevice,
    Sems,       \* semaphore ids
    NoSem,      \* src_sem_id is None (a local copy)
    Dmas,       \* ids from dma_id_counter
    Increments, \* inc and value of signals and waits
    DataSize,   \* data_size of a DMA
    MaxTicks    \* bound on a core's own clock entry

Devices == 0 .. (NumDevices - 1)
num_cores == NumDevices * NumCoresPerDevice
Cores == 0 .. (num_cores - 1)

\* get_vector_clock_size: the clocks have entries besides those of the cores.
ASSUME SizesAssumption ==
    /\ NumDevices \in Nat \ {0} /\ NumCoresPerDevice \in Nat \ {0}
    /\ num_cores < ClockSize

ASSUME ConstantsAssumption ==
    /\ NoSem \notin Sems
    /\ Increments \subseteq Nat /\ DataSize \in Nat
    /\ MaxTicks \in Nat

VARIABLES
    clocks,        \* SharedMemory.clocks, per core
    count,         \* Semaphore.count_by_core
    semClock,      \* Semaphore.clocks; make_vector_clock stands for None
    signalled,     \* Semaphore.clocks[core] is not None
    pc,            \* what the thread of a core is doing
    call,          \* the arguments of that operation
    msg,           \* the clock it copied under one lock to use under the next
    dmaState,
    dma,           \* the DMA's cores, virtual_device_id and semaphores
    dmaClock,
    phase,         \* per device: before, in and after the kernel
    events,        \* history: the memory accesses
    happensBefore, \* history: pairs of accesses
    known,         \* history: the accesses that happened before ...
    semKnown, msgKnown, dmaKnown

codeVars == <<clocks, count, semClock, signalled, pc, call, msg,
              dmaState, dma, dmaClock, phase>>
history == <<events, happensBefore, known, semKnown, msgKnown, dmaKnown>>
vars == <<codeVars, history>>

\* Mutants: an id that is the last core's, and one past the last entry.
VirtualIdsFromLastCore == (num_cores - 1) .. (ClockSize - 1)
VirtualIdsPastEnd == num_cores .. ClockSize

\* get_random_virtual_device_id: an entry that belongs to no core.
VirtualIds == num_cores .. (ClockSize - 1)

device_of(c) == c \div NumCoresPerDevice
get_global_core_ids(d) == (d * NumCoresPerDevice) .. ((d + 1) * NumCoresPerDevice - 1)

Calls == [op : {"signal"}, sem : Sems, target : Cores, inc : Increments]
           \cup [op : {"wait"}, sem : Sems, value : Increments]
           \cup {[op |-> "none"]}

DmaRecords == [src : Cores, dst : Cores, vid : VirtualIds,
               src_sem : Sems \cup {NoSem}, dst_sem : Sems]
NoDma == [src |-> -1]

Init ==
    /\ clocks = [c \in Cores |-> make_vector_clock]
    /\ count = [s \in Sems |-> [c \in Cores |-> 0]]
    /\ semClock = [s \in Sems |-> [c \in Cores |-> make_vector_clock]]
    /\ signalled = [s \in Sems |-> [c \in Cores |-> FALSE]]
    /\ pc = [c \in Cores |-> "run"]
    /\ call = [c \in Cores |-> [op |-> "none"]]
    /\ msg = [c \in Cores |-> make_vector_clock]
    /\ dmaState = [d \in Dmas |-> "unused"]
    /\ dma = [d \in Dmas |-> NoDma]
    /\ dmaClock = [d \in Dmas |-> make_vector_clock]
    /\ phase = [d \in Devices |-> "start"]
    /\ events = {}
    /\ happensBefore = {}
    /\ known = [c \in Cores |-> {}]
    /\ semKnown = [s \in Sems |-> [c \in Cores |-> {}]]
    /\ msgKnown = [c \in Cores |-> {}]
    /\ dmaKnown = [d \in Dmas |-> {}]

-----------------------------------------------------------------------------

\* A core that runs kernel code and may start an operation.
Running(c) ==
    /\ phase[device_of(c)] = "kernel"
    /\ pc[c] = "run"
    /\ clocks[c][c] < MaxTicks

Tick(c) == clocks' = [clocks EXCEPT ![c] = inc_vector_clock(@, c)]

\* A memory access with clock v, made by something that ticks entry e and
\* knows the accesses K.
Access(e, v) == [by |-> e, clock |-> v]

RecordAccess(a, K) ==
    /\ events' = events \cup {a}
    /\ happensBefore' = happensBefore \cup (K \X {a})

\* get, store and swap by a core: the clock is ticked and copied with the
\* access to the buffer, under the lock.  After the kernel, core 0 of the
\* device reads the outputs.
get_store_swap(c) ==
    /\ \/ Running(c)
       \/ /\ phase[device_of(c)] = "output"
          /\ c % NumCoresPerDevice = 0
          /\ clocks[c][c] < MaxTicks
    /\ Tick(c)
    /\ LET a == Access(c, inc_vector_clock(clocks[c], c)) IN
          /\ RecordAccess(a, known[c])
          /\ known' = [known EXCEPT ![c] = @ \cup {a}]
    /\ UNCHANGED <<count, semClock, signalled, pc, call, msg, dmaState, dma, dmaClock,
                   phase, semKnown, msgKnown, dmaKnown>>

\* semaphore_signal: get_semaphores_and_increment_clock ...
semaphore_signal(c, s, target, inc) ==
    /\ Running(c)
    /\ Tick(c)
    /\ msg' = [msg EXCEPT ![c] = inc_vector_clock(clocks[c], c)]
    /\ msgKnown' = [msgKnown EXCEPT ![c] = known[c]]
    /\ call' = [call EXCEPT ![c] = [op |-> "signal", sem |-> s,
                                    target |-> target, inc |-> inc]]
    /\ pc' = [pc EXCEPT ![c] = "signal"]
    /\ UNCHANGED <<count, semClock, signalled, dmaState, dma, dmaClock, phase,
                   events, happensBefore, known, semKnown, dmaKnown>>

\* Semaphore.signal: add to the count and the clock of the target core.
Signal(s, target, inc, v, K) ==
    /\ count' = [count EXCEPT ![s][target] = @ + inc]
    /\ semClock' = [semClock EXCEPT ![s][target] = update_vector_clock(@, v)]
    /\ signalled' = [signalled EXCEPT ![s][target] = TRUE]
    /\ semKnown' = [semKnown EXCEPT ![s][target] = @ \cup K]

\* ... and then Semaphore.signal with the copied clock.
DoSignal(c) ==
    /\ pc[c] = "signal"
    /\ Signal(call[c].sem, call[c].target, call[c].inc, msg[c], msgKnown[c])
    /\ pc' = [pc EXCEPT ![c] = "run"]
    /\ UNCHANGED <<clocks, call, msg, dmaState, dma, dmaClock, phase,
                   events, happensBefore, known, msgKnown, dmaKnown>>

\* semaphore_wait and dma_wait: get_semaphores_and_increment_clock.
semaphore_wait(c, s, value) ==
    /\ Running(c)
    /\ Tick(c)
    /\ call' = [call EXCEPT ![c] = [op |-> "wait", sem |-> s, value |-> value]]
    /\ pc' = [pc EXCEPT ![c] = "wait"]
    /\ UNCHANGED <<count, semClock, signalled, msg, dmaState, dma, dmaClock, phase,
                   events, happensBefore, known, semKnown, msgKnown, dmaKnown>>

\* Mutant: off by one.
EnoughMutant(s, c, value) == count[s][c] + 1 >= value

\* The condition Semaphore.wait waits for.
Enough(s, c, value) == count[s][c] >= value

\* Semaphore.wait under cv: the count suffices, take it and copy the clock.
\* (The assertion on the clock is the property WaitHasClock.)
WaitDone(c) ==
    LET s == call[c].sem IN
    /\ pc[c] = "wait"
    /\ Enough(s, c, call[c].value)
    /\ count' = [count EXCEPT ![s][c] = @ - call[c].value]
    /\ msg' = [msg EXCEPT ![c] = semClock[s][c]]
    /\ msgKnown' = [msgKnown EXCEPT ![c] = semKnown[s][c]]
    /\ pc' = [pc EXCEPT ![c] = "merge"]
    /\ UNCHANGED <<clocks, semClock, signalled, call, dmaState, dma, dmaClock, phase,
                   events, happensBefore, known, semKnown, dmaKnown>>

\* Semaphore.wait under the lock of the shared memory: merge the copy.
MergeClock(c) ==
    /\ pc[c] = "merge"
    /\ clocks' = [clocks EXCEPT ![c] = update_vector_clock(@, msg[c])]
    /\ known' = [known EXCEPT ![c] = @ \cup msgKnown[c]]
    /\ pc' = [pc EXCEPT ![c] = "run"]
    /\ UNCHANGED <<count, semClock, signalled, call, msg, dmaState, dma, dmaClock,
                   phase, events, happensBefore, semKnown, msgKnown, dmaKnown>>

-----------------------------------------------------------------------------

\* dma_start: tick the core's clock and start the DMA with a copy of it.
dma_start(c, d, dst, vid, src_sem, dst_sem) ==
    /\ Running(c)
    /\ dmaState[d] = "unused"
    /\ Tick(c)
    /\ dma' = [dma EXCEPT ![d] = [src |-> c, dst |-> dst, vid |-> vid,
                                  src_sem |-> src_sem, dst_sem |-> dst_sem]]
    /\ dmaClock' = [dmaClock EXCEPT ![d] = inc_vector_clock(clocks[c], c)]
    /\ dmaState' = [dmaState EXCEPT ![d] = "STARTED"]
    /\ dmaKnown' = [dmaKnown EXCEPT ![d] = known[c]]
    /\ UNCHANGED <<count, semClock, signalled, pc, call, msg, phase,
                   events, happensBefore, known, semKnown, msgKnown>>

\* The access of one half of a DMA: tick the virtual entry, then get or store
\* with that clock.  get and store tick the clock of the buffer's core as
\* well, although the access is not one of that core.
DmaAccess(d, from, to, core) ==
    LET v == inc_vector_clock(dmaClock[d], dma[d].vid)
        a == Access(dma[d].vid, v)
    IN
    /\ dmaState[d] = from
    /\ dmaState' = [dmaState EXCEPT ![d] = to]
    /\ dmaClock' = [dmaClock EXCEPT ![d] = v]
    /\ Tick(core)
    /\ RecordAccess(a, dmaKnown[d])
    /\ dmaKnown' = [dmaKnown EXCEPT ![d] = @ \cup {a}]
    /\ UNCHANGED <<count, semClock, signalled, pc, call, msg, dma, phase,
                   known, semKnown, msgKnown>>

\* The end of one half: tick the virtual entry again and signal.
DmaSignal(d, from, to, sem, core) ==
    LET v == inc_vector_clock(dmaClock[d], dma[d].vid) IN
    /\ dmaState[d] = from
    /\ dmaState' = [dmaState EXCEPT ![d] = to]
    /\ dmaClock' = [dmaClock EXCEPT ![d] = v]
    /\ IF sem = NoSem
       THEN UNCHANGED <<count, semClock, signalled, semKnown>>
       ELSE Signal(sem, core, DataSize, v, dmaKnown[d])
    /\ UNCHANGED <<clocks, pc, call, msg, dma, phase,
                   events, happensBefore, known, msgKnown, dmaKnown>>

execute_read(d) ==
    \/ DmaAccess(d, "STARTED", "reading", dma[d].src)
    \/ DmaSignal(d, "reading", "READ", dma[d].src_sem, dma[d].src)

execute_write(d) ==
    \/ DmaAccess(d, "READ", "writing", dma[d].dst)
    \/ DmaSignal(d, "writing", "COMPLETED", dma[d].dst_sem, dma[d].dst)

-----------------------------------------------------------------------------

\* update_clocks: the first clock collects the others, which then take it
\* over; each entry becomes the largest one of the cores G.
Join(G) ==
    [e \in Entries |->
        clocks[CHOOSE c \in G : \A b \in G : clocks[b][e] <= clocks[c][e]][e]]

update_clocks_for_device_barrier(d) ==
    LET G == get_global_core_ids(d) IN
    /\ clocks' = [c \in Cores |-> IF c \in G THEN Join(G) ELSE clocks[c]]
    /\ known' = [c \in Cores |-> IF c \in G THEN UNION {known[b] : b \in G}
                                 ELSE known[c]]

\* The barriers before and after thread_map runs the kernel on the cores.
DeviceBarrier(d) ==
    /\ phase[d] \in {"start", "kernel"}
    /\ \A c \in get_global_core_ids(d) : pc[c] = "run"
    /\ update_clocks_for_device_barrier(d)
    /\ phase' = [phase EXCEPT ![d] = IF @ = "start" THEN "kernel" ELSE "output"]
    /\ UNCHANGED <<count, semClock, signalled, pc, call, msg, dmaState, dma, dmaClock,
                   events, happensBefore, semKnown, msgKnown, dmaKnown>>

\* The same core on another device, or on this one.
DmaTargets(c) == {b \in Cores : b % NumCoresPerDevice = c % NumCoresPerDevice}

Next ==
    \/ \E c \in Cores :
          \/ get_store_swap(c)
          \/ \E s \in Sems, target \in Cores, inc \in Increments :
                semaphore_signal(c, s, target, inc)
          \/ DoSignal(c)
          \/ \E s \in Sems, value \in Increments : semaphore_wait(c, s, value)
          \/ WaitDone(c)
          \/ MergeClock(c)
          \/ \E d \in Dmas, dst \in DmaTargets(c), vid \in VirtualIds,
                src_sem \in Sems \cup {NoSem}, dst_sem \in Sems :
                dma_start(c, d, dst, vid, src_sem, dst_sem)
    \/ \E d \in Dmas : execute_read(d) \/ execute_write(d)
    \/ \E d \in Devices : DeviceBarrier(d)

Spec == Init /\ [][Next]_vars

-----------------------------------------------------------------------------

Accesses == [by : Entries, clock : VectorClocks]

\* The types of the clocks and counts; a clock never gets an entry beyond
\* vector_clock_size and a count is never negative.
TypeOK ==
    /\ clocks \in [Cores -> VectorClocks]
    /\ count \in [Sems -> [Cores -> Nat]]
    /\ semClock \in [Sems -> [Cores -> VectorClocks]]
    /\ signalled \in [Sems -> [Cores -> BOOLEAN]]
    /\ pc \in [Cores -> {"run", "signal", "wait", "merge"}]
    /\ call \in [Cores -> Calls]
    /\ msg \in [Cores -> VectorClocks]
    /\ dmaState \in [Dmas -> {"unused", "STARTED", "reading", "READ", "writing",
                              "COMPLETED"}]
    /\ dma \in [Dmas -> DmaRecords \cup {NoDma}]
    /\ dmaClock \in [Dmas -> VectorClocks]
    /\ phase \in [Devices -> {"start", "kernel", "output"}]
    /\ events \subseteq Accesses
    /\ known \in [Cores -> SUBSET Accesses] /\ msgKnown \in [Cores -> SUBSET Accesses]
    /\ semKnown \in [Sems -> [Cores -> SUBSET Accesses]]
    /\ dmaKnown \in [Dmas -> SUBSET Accesses]

\* No false positives: two accesses of which one happened before the other
\* have ordered clocks, so the race detector never reports them, although
\* DMAs share entries of the clocks and tick the clocks of cores.
HappensBeforeIsOrdered ==
    \A p \in happensBefore : lt(p[1].clock, p[2].clock)

\* Nothing is missed for a core: if the clock of a core's access is below the
\* clock of another access, it did happen before that access.
OrderedHappensBefore ==
    \A e, f \in events :
        e.by \in Cores /\ lt(e.clock, f.clock) => <<e, f>> \in happensBefore

\* `assert self.clocks[global_core_id] is not None` in Semaphore.wait.
WaitHasClock ==
    \A c \in Cores : pc[c] = "merge" => signalled[call[c].sem][c]

-----------------------------------------------------------------------------
(* The inductive invariant behind the properties.  Every place that holds  *)
(* a clock V also stands for the set K of accesses that happened before.   *)

\* V is above the clocks of K; a core's access that V counts is in K; and no
\* clock is ahead of a core on the core's own entry (own is clocks).
Faithful(V, K, E, own) ==
    /\ K \subseteq E
    /\ \A e \in K : LeqAll(e.clock, V)
    /\ \A e \in E : e.by \in Cores /\ e.clock[e.by] <= V[e.by] => e \in K
    /\ \A c \in Cores : V[c] <= own[c][c]

ClocksFaithful ==
    /\ \A c \in Cores : /\ Faithful(clocks[c], known[c], events, clocks)
                        /\ Faithful(msg[c], msgKnown[c], events, clocks)
    /\ \A s \in Sems, c \in Cores :
          Faithful(semClock[s][c], semKnown[s][c], events, clocks)
    /\ \A d \in Dmas : Faithful(dmaClock[d], dmaKnown[d], events, clocks)

\* No access is ahead of a core either, and a core's access has ticked.
EventsCounted(E, own) ==
    \A e \in E : /\ \A c \in Cores : e.clock[c] <= own[c][c]
                 /\ e.by \in Cores => e.clock[e.by] >= 1

\* A running operation has its arguments, a started DMA its record.
CallsOK ==
    /\ \A c \in Cores : /\ pc[c] = "signal" => call[c].op = "signal"
                        /\ pc[c] \in {"wait", "merge"} => call[c].op = "wait"
    /\ \A d \in Dmas : dmaState[d] # "unused" => dma[d] \in DmaRecords

IInv ==
    /\ TypeOK /\ CallsOK
    /\ ClocksFaithful /\ EventsCounted(events, clocks)
    /\ HappensBeforeIsOrdered /\ OrderedHappensBefore
    /\ happensBefore \subseteq (events \X events)

\* A count that can satisfy a wait comes with a clock.
CountHasClock ==
    \A s \in Sems, c \in Cores : count[s][c] > 0 => signalled[s][c]
=============================================================================
