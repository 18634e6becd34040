---------------------------- MODULE GpuPipelineInv --------------------------
(***************************************************************************)
(* The inductive invariant of GpuPipeline.                                 *)
(*                                                                         *)
(* GpuInv says where the threads can be, how far each is of the others,    *)
(* and in which phase that leaves every barrier.  The clocks then follow   *)
(* what is known of the phases.                                            *)
(***************************************************************************)
EXTENDS GpuPipeline

-----------------------------------------------------------------------------
(* The state that the invariant talks about: how far the threads are.      *)

\* Step g uses slot Slot(g) for the Lap(g)-th time.
SlotOf(m, g) == g % m
LapOf(m, g) == g \div m
Lap(g) == LapOf(max_concurrent_steps, g)

\* The natural number m - n, or 0.
Monus(m, n) == IF m <= n THEN 0 ELSE m - n

Product(m, n) == m * n
TotalSteps == Product(kernel.num_pipelines, kernel.num_steps)

One(cond) == IF cond THEN 1 ELSE 0

AfterStore == {"copy_in"}
AfterRelease == {"copy_out"} \cup AfterStore
AfterBody == {"arrive"} \cup AfterRelease
AfterWait == {"wait_out", "body"} \cup AfterBody

Lines ==
    {"prologue", "wait_in", "finalize", "deallocate", "ended", "wait_consumed", "quiesce"}
      \cup AfterWait

\* The steps that a compute thread has left behind.
Done(t) == IF line[t] = "prologue" THEN 0 ELSE Product(pipeline[t], kernel.num_steps) + iteration[t]

\* The steps for whose blocks a compute thread has waited, whose clock it has
\* merged, whose body has ended, whose output is on its way, and that it has
\* released.
Merged(t) == Done(t) + One(line[t] \in AfterWait)
Waited(t) == Merged(t) + One(merging[t])
Bodies(t) == Done(t) + One(line[t] \in AfterBody)
Stored(t) == Done(t) + One(line[t] \in AfterStore)
Released(t) == Monus(Done(t) + One(line[t] \in AfterRelease), delay_release)

\* The steps that the memory thread has seen released.
MemoryDone ==
    LET m == memory_thread_idx IN
    IF line[m] = "prologue" THEN 0
    ELSE IF line[m] \in {"wait_consumed", "copy_in"}
         THEN (Product(pipeline[m], kernel.num_steps) + prologue_steps(pipeline[m]) + iteration[m])
                - init_prologue_steps
    ELSE IF line[m] = "quiesce" THEN Product(pipeline[m], kernel.num_steps) + iteration[m]
    ELSE Monus(TotalSteps, delay_release)
Seen == MemoryDone + One(line[memory_thread_idx] = "copy_in")
Passed == Seen + One(merging[memory_thread_idx])

\* The steps whose block of input i has been fetched.
FetchedBy(i) ==
    LET m == memory_thread_idx
        d == kernel.delay_release[i]
        s == Done(0) + One(line[0] = "copy_in" /\ level > d) IN
    IF line[m] = "prologue" THEN iteration[m]
    ELSE IF ~WarpSpecialized
         THEN Smaller(kernel.num_steps, max_concurrent_steps + Monus(s, d))
    ELSE IF line[m] \in {"wait_consumed", "copy_in"}
         THEN Product(pipeline[m], kernel.num_steps) + prologue_steps(pipeline[m]) + iteration[m]
    ELSE TotalSteps

InFlight(i, g) == \E c \in copies : c.input = i /\ c.step = g
Arrived(i, g) == g < FetchedBy(i) /\ ~InFlight(i, g)

In(s) == barrier["in"][s]
Consumed(s) == barrier["consumed"][s]

-----------------------------------------------------------------------------
(* The invariant.                                                          *)

ComputeAt(t) ==
    LET l == line[t] IN
    /\ l \in {"prologue", "wait_in", "finalize", "deallocate", "ended"} \cup AfterWait
    /\ l = "prologue" => ~WarpSpecialized /\ pipeline[t] = 0 /\ iteration[t] < init_prologue_steps
    /\ l \in {"wait_in"} \cup AfterWait =>
          pipeline[t] < kernel.num_pipelines /\ iteration[t] < kernel.num_steps
    /\ l = "finalize" => pipeline[t] < kernel.num_pipelines /\ iteration[t] = kernel.num_steps
    /\ l \in {"deallocate", "ended"} => pipeline[t] = kernel.num_pipelines /\ iteration[t] = 0
    /\ l \in {"wait_out", "copy_out", "finalize"} => copies_out_in_loop
    /\ l = "arrive" => WarpSpecialized /\ iteration[t] >= delay_release
    /\ l = "copy_in" => ~WarpSpecialized
    /\ merging[t] => l = "wait_in"

MemoryAt(t) ==
    LET l == line[t] IN
    /\ l \in {"prologue", "wait_consumed", "copy_in", "quiesce", "deallocate", "ended"}
    /\ l = "prologue" => pipeline[t] = 0 /\ iteration[t] < init_prologue_steps
    /\ l \in {"wait_consumed", "copy_in"} =>
          pipeline[t] < kernel.num_pipelines /\ iteration[t] < kernel.num_steps - prologue_steps(pipeline[t])
    /\ l = "quiesce" => pipeline[t] + 1 = kernel.num_pipelines /\ iteration[t] \in Quiesce
    /\ l \in {"deallocate", "ended"} => pipeline[t] = kernel.num_pipelines /\ iteration[t] = 0
    /\ merging[t] => l \in {"wait_consumed", "quiesce"}

\* Where the threads are.
ControlInv ==
    /\ kernel \in Kernels /\ max_concurrent_steps = Shrunk(kernel)
    /\ line \in [Threads -> Lines] /\ pipeline \in [Threads -> Nat]
    /\ iteration \in [Threads -> Nat] /\ merging \in [Threads -> BOOLEAN]
    /\ level \in Nat /\ level < kernel.max_steps
    /\ WarpSpecialized \/ line[0] # "copy_in" => level = 0
    /\ \A t \in ComputeThreads : ComputeAt(t)
    /\ WarpSpecialized => MemoryAt(memory_thread_idx)

Accesses == ({"copy"} \X Inputs \X Nat) \cup ({"body"} \X Nat \X Nat)

BarrierStates ==
    [ref_count : Int, num_arrivals : Nat, arrivals_count : Nat, phase : Nat,
     next_awaited_phase : [Threads -> Nat], phase_change_observed : BOOLEAN,
     clock : SUBSET Accesses]

DataTypes ==
    /\ barrier \in [{"in", "consumed"} -> [Slots -> BarrierStates]]
    /\ clock \in [Threads -> SUBSET Accesses]
    /\ in_smem \in [Inputs -> [Slots -> Nat \cup {NoStep}]]
    /\ copies \in SUBSET [input : Inputs, slot : Slots, step : Nat, clock : SUBSET Accesses]
    /\ groups \in Seq(Int)

Running == {t \in Threads : ~Ended(t)}

\* References, arrivals and awaited phases of the barriers.
BarrierCounts ==
    \A w \in {"in", "consumed"}, s \in Slots : LET b == barrier[w][s] IN
        /\ b.num_arrivals = num_arrivals(w)
        /\ b.arrivals_count < b.num_arrivals \/ b.num_arrivals = 0
        /\ b.ref_count = Cardinality(Running)
        /\ \A t \in Threads : b.next_awaited_phase[t] \in 1 .. (b.phase + 1)

\* A block is in flight at most once, and only if it was fetched.
CopiesInv ==
    /\ \A c \in copies : c.slot = Slot(c.step) /\ c.step < FetchedBy(c.input)
    /\ \A c, e \in copies : c.input = e.input /\ c.step = e.step => c = e

\* The barriers of the copies.
InInv ==
    /\ \A g \in Nat : Lap(g) < In(Slot(g)).phase <=> \A i \in Inputs : Arrived(i, g)
    /\ \A g \in Nat : Lap(g) = In(Slot(g)).phase =>
          In(Slot(g)).arrivals_count = Cardinality({i \in Inputs : Arrived(i, g)})
    /\ \A t \in ComputeThreads, g \in Nat : g < Waited(t) => \A i \in Inputs : Arrived(i, g)
    /\ \A t \in ComputeThreads, g \in Nat :
          g < Waited(t) <=> Lap(g) + 1 < In(Slot(g)).next_awaited_phase[t]
    /\ WarpSpecialized => \A s \in Slots : In(s).next_awaited_phase[memory_thread_idx] = 1
    /\ \A s \in Slots : In(s).phase_change_observed \/
          /\ In(s).phase > 0
          /\ \A t \in ComputeThreads, g \in Nat :
                Slot(g) = s /\ Lap(g) + 1 = In(s).phase => Waited(t) <= g

\* A slot holds the latest block that has arrived in it.
SmemInv ==
    \A i \in Inputs, g \in Nat :
        Arrived(i, g) /\ ~Arrived(i, g + max_concurrent_steps) => in_smem[i][Slot(g)] = g

\* The barriers of the releases.
ConsumedInv ==
    /\ \A g \in Nat : Lap(g) < Consumed(Slot(g)).phase <=> \A t \in ComputeThreads : g < Released(t)
    /\ \A g \in Nat : Lap(g) = Consumed(Slot(g)).phase =>
          Consumed(Slot(g)).arrivals_count = Cardinality({t \in ComputeThreads : g < Released(t)})
    /\ \A t \in ComputeThreads, g \in Nat : g < Passed => g < Released(t)
    /\ \A g \in Nat :
          g < Passed <=> Lap(g) + 1 < Consumed(Slot(g)).next_awaited_phase[memory_thread_idx]
    /\ \A t \in ComputeThreads, s \in Slots : Consumed(s).next_awaited_phase[t] = 1
    /\ \A s \in Slots : Consumed(s).phase_change_observed \/
          /\ Consumed(s).phase > 0
          /\ \A g \in Nat : Slot(g) = s /\ Lap(g) + 1 = Consumed(s).phase => Passed <= g

\* emit_pipeline has no barriers of the second kind.
UnusedInv == \A s \in Slots : Consumed(s).phase = 0

ReleaseInv == IF WarpSpecialized THEN ConsumedInv ELSE UnusedInv

\* The groups in flight are the last that were committed, at most as many as a body
\* tolerates when it starts.
GroupsInv ==
    /\ Len(groups) <= Stored(0) \/ ~copies_out_in_loop
    /\ ~copies_out_in_loop => groups = << >>
    /\ \A k \in 1 .. Len(groups) : groups[k] \in {NoSlot, Slot(Stored(0) - Len(groups) + k - 1)}
    /\ line[0] = "body" /\ copies_out_in_loop => Len(groups) <= pending_groups
    /\ line[0] \in {"deallocate", "ended"} => Len(groups) = 0

\* A compute thread knows of the copies it has waited for and of its bodies.
ComputeClocks ==
    /\ \A t \in ComputeThreads, i \in Inputs, g \in Nat : g < Merged(t) => <<"copy", i, g>> \in clock[t]
    /\ \A t \in ComputeThreads, g \in Nat : g < Bodies(t) => <<"body", t, g>> \in clock[t]

\* The barrier of a slot knows of the copies that have arrived.
InClocks == \A i \in Inputs, g \in Nat : Arrived(i, g) => <<"copy", i, g>> \in In(Slot(g)).clock

\* A clock that counts what was done to the block of step g of an input that is
\* released d steps late.
CountsStep(events, i, t, g, d) ==
    /\ <<"copy", i, g>> \in events
    /\ \A s \in Nat : s <= g + d => <<"body", t, s>> \in events

\* The barrier of a release, and the memory thread, know what the block was used for.
ConsumedClocks ==
    /\ \A t \in ComputeThreads, i \in Inputs, g \in Nat :
          g < Released(t) => CountsStep(Consumed(Slot(g)).clock, i, t, g, delay_release)
    /\ \A t \in ComputeThreads, i \in Inputs, g \in Nat :
          g < Seen => CountsStep(clock[memory_thread_idx], i, t, g, delay_release)

ReleaseClocks == WarpSpecialized => ConsumedClocks

\* A copy knows what was done to the block that it overwrites.
CopyClocks ==
    \A c \in copies, t \in ComputeThreads, g \in Nat :
        g + max_concurrent_steps = c.step =>
            CountsStep(c.clock, c.input, t, g, kernel.delay_release[c.input])

GpuInv ==
    /\ ControlInv /\ DataTypes /\ BarrierCounts /\ CopiesInv /\ InInv /\ SmemInv /\ GroupsInv
    /\ ComputeClocks /\ InClocks /\ CopyClocks /\ ReleaseInv /\ ReleaseClocks

-----------------------------------------------------------------------------
(* What follows for every state.                                           *)

\* What a kernel is after the checks.
KernelFacts ==
    LET n == kernel.num_steps
        m == max_concurrent_steps IN
    /\ n \in Nat \ {0} /\ kernel.num_pipelines \in Nat \ {0} /\ m \in Nat \ {0}
    /\ kernel.max_steps \in Nat \ {0} /\ kernel.num_compute_wgs \in Nat
    /\ init_prologue_steps \in Nat \ {0} /\ init_prologue_steps <= m /\ init_prologue_steps <= n
    /\ init_prologue_steps = m \/ init_prologue_steps = n
    /\ kernel.delay_release \in [Inputs -> Nat] /\ delay_release \in Nat
    /\ \A i \in Inputs : kernel.delay_release[i] < kernel.max_steps
    /\ \A i \in Inputs : kernel.delay_release[i] <= m \/ n <= m
    /\ delay_release <= m \/ n <= m
    /\ WarpSpecialized => \A i \in Inputs : kernel.delay_release[i] = delay_release
    /\ kernel.num_pipelines > 1 =>
          /\ WarpSpecialized /\ delay_release = 0 /\ init_prologue_steps = m /\ n % m = 0

\* The steps of a slot are one lap apart.
LapFacts ==
    /\ \A g \in Nat :
          /\ Slot(g) \in Slots /\ Lap(g) \in Nat
          /\ Slot(g + max_concurrent_steps) = Slot(g)
          /\ Lap(g + max_concurrent_steps) = Lap(g) + 1
          /\ g < max_concurrent_steps => Slot(g) = g /\ Lap(g) = 0
    /\ \A g, h \in Nat : Slot(g) = Slot(h) /\ g < h =>
          g + max_concurrent_steps <= h /\ Lap(g) < Lap(h)
    /\ \A s \in Slots, k \in Nat : \E g \in Nat : Slot(g) = s /\ Lap(g) = k

PlaceTypes ==
    /\ line \in [Threads -> Lines] /\ pipeline \in [Threads -> Nat]
    /\ iteration \in [Threads -> Nat]

\* How far a compute thread is, the memory thread, and the fetches of an input.
ComputeCounts(t) ==
    /\ Merged(t) \in Nat /\ Waited(t) \in Nat /\ Bodies(t) \in Nat /\ Stored(t) \in Nat
    /\ Released(t) \in Nat
    /\ Bodies(t) <= Merged(t) /\ Merged(t) <= Waited(t) /\ Waited(t) <= TotalSteps
    /\ Released(t) <= Monus(TotalSteps, delay_release)
    /\ \A g \in Nat : g < Released(t) => g + delay_release < Bodies(t)
    /\ line[t] \in {"deallocate", "ended"} => Waited(t) = TotalSteps
    /\ line[t] = "body" =>
          /\ Bodies(t) = StepNumber(t) /\ Merged(t) = Bodies(t) + 1
          /\ Stored(t) = Bodies(t) /\ Slot(iteration[t]) = Slot(Bodies(t))

MemoryCounts ==
    /\ Seen \in Nat /\ Passed \in Nat /\ Seen <= Passed
    /\ Passed = Seen + One(merging[memory_thread_idx])
    /\ line[memory_thread_idx] \in {"deallocate", "ended"} =>
          Passed = Monus(TotalSteps, delay_release)
    /\ \A i \in Inputs, g \in Nat : g + max_concurrent_steps < FetchedBy(i) => g < Seen
    /\ Waits(memory_thread_idx) =>
          Slot(iteration[memory_thread_idx]) = Slot(Seen)

FetchedCounts(i) ==
    /\ FetchedBy(i) \in Nat /\ FetchedBy(i) <= TotalSteps
    /\ ~WarpSpecialized => \A g \in Nat : g + max_concurrent_steps < FetchedBy(i) =>
          g + kernel.delay_release[i] < Bodies(0)

BarrierTypes == [{"in", "consumed"} -> [Slots -> BarrierStates]]

CopyTypes == [input : Inputs, slot : Slots, step : Nat, clock : SUBSET Accesses]

\* The phases of the barriers b of all slots, at which the threads or copies in X
\* arrive: A[x] are the steps for which x has arrived.
PhaseInv(b, X, A) ==
    /\ \A g \in Nat : Lap(g) < b[Slot(g)].phase <=> \A x \in X : g \in A[x]
    /\ \A g \in Nat : Lap(g) = b[Slot(g)].phase =>
          b[Slot(g)].arrivals_count = Cardinality({x \in X : g \in A[x]})

\* Thread t has waited for W steps.
AwaitInv(b, t, W) == \A g \in Nat : g < W <=> Lap(g) + 1 < b[Slot(g)].next_awaited_phase[t]

-----------------------------------------------------------------------------
(* What a step changes, and what it does not.                              *)

\* What no step changes.
SameKernel ==
    /\ kernel' = kernel /\ max_concurrent_steps' = max_concurrent_steps
    /\ Threads' = Threads /\ ComputeThreads' = ComputeThreads /\ Slots' = Slots
    /\ memory_thread_idx' = memory_thread_idx /\ (WarpSpecialized' <=> WarpSpecialized)
    /\ (copies_out_in_loop' <=> copies_out_in_loop) /\ delay_release' = delay_release
    /\ init_prologue_steps' = init_prologue_steps /\ pending_groups' = pending_groups
    /\ Quiesce' = Quiesce /\ TotalSteps' = TotalSteps
    /\ \A g : Slot(g)' = Slot(g) /\ Lap(g)' = Lap(g) /\ prologue_steps(g)' = prologue_steps(g)
    /\ \A w : num_arrivals(w)' = num_arrivals(w)

\* Only thread t moves.
OnlyMoves(t) ==
    /\ line' \in [Threads -> Lines] /\ pipeline' \in [Threads -> Nat]
    /\ iteration' \in [Threads -> Nat]
    /\ \A u \in Threads \ {t} : /\ line'[u] = line[u] /\ pipeline'[u] = pipeline[u]
                                /\ iteration'[u] = iteration[u]

\* The memory thread, on its way to the next fetch, after f fetches.
MemoryGoes(f) ==
    LET m == memory_thread_idx IN
    /\ OnlyMoves(m) /\ MemoryAt(m)'
    /\ line'[m] \in {"wait_consumed", "quiesce", "deallocate"}
    /\ MemoryDone' = f - init_prologue_steps
    /\ \A i \in Inputs : FetchedBy(i)' = f

\* The numbers of steps stay what they are.
SameCompute(t) ==
    /\ Merged(t)' = Merged(t) /\ Waited(t)' = Waited(t) /\ Bodies(t)' = Bodies(t)
    /\ (copies_out_in_loop => Stored(t)' = Stored(t))
    /\ (WarpSpecialized => Released(t)' = Released(t))

SameMemory == WarpSpecialized => Seen' = Seen /\ Passed' = Passed

SameFetched == \A i \in Inputs : FetchedBy(i)' = FetchedBy(i)

\* Thread t starts the copies of step g of the inputs in due; h is the step whose
\* slots they overwrite.
Fetches(t, due, g) ==
    /\ ControlInv' /\ SameKernel /\ SameMemory /\ \A u \in ComputeThreads : SameCompute(u)
    /\ t = memory_thread_idx /\ due \subseteq Inputs /\ (due # {} => g \in Nat)
    /\ \A i \in Inputs : FetchedBy(i)' = FetchedBy(i) + One(i \in due)
    /\ \A i \in due : FetchedBy(i) = g
    /\ copies' = copies \cup
          {[input |-> i, slot |-> Slot(g), step |-> g, clock |-> clock[t]] : i \in due}
    /\ \A i \in due, h \in Nat : h + max_concurrent_steps = g =>
          IF WarpSpecialized THEN h < Seen
          ELSE h < Merged(0) /\ h + kernel.delay_release[i] < Bodies(0)
    /\ line'[0] \in {"body", "deallocate", "ended"} => line'[0] = line[0]

\* A thread ends only when it deallocates.
SameEnded == \A u \in Threads : Ended(u)' <=> Ended(u)

\* x may arrive for step G, and when it does, c are the barriers and A2 the
\* steps for which there were arrivals.
MayArrive(b, X, A, x, G) ==
    /\ IsFiniteSet(X) /\ PhaseInv(b, X, A) /\ G \notin A[x]
    /\ \A h \in Nat : h + max_concurrent_steps = G => \A y \in X : h \in A[y]
    /\ \A y \in X : (G + max_concurrent_steps) \notin A[y]
    /\ b[Slot(G)].num_arrivals = Cardinality(X)

Arrives(b, X, A, x, G, events, c, A2) ==
    /\ c[Slot(G)] = arrive(b[Slot(G)], events)
    /\ \A s \in Slots \ {Slot(G)} : c[s] = b[s]
    /\ \A y \in X, g \in Nat : g \in A2[y] <=> g \in A[y] \/ (y = x /\ g = G)

SameArrived == \A i \in Inputs, g \in Nat : Arrived(i, g)' <=> Arrived(i, g)

\* The barriers have the same phases, and the threads have seen the same.
SameRounds(w) ==
    \A s \in Slots :
        /\ barrier'[w][s].phase = barrier[w][s].phase
        /\ barrier'[w][s].arrivals_count = barrier[w][s].arrivals_count
        /\ barrier'[w][s].next_awaited_phase = barrier[w][s].next_awaited_phase
        /\ barrier'[w][s].phase_change_observed = barrier[w][s].phase_change_observed

\* Only the phases change for which t waits.
OnlyAwaitedBy(t) ==
    \A v \in {"in", "consumed"}, r \in Slots :
        /\ barrier[v][r] \in BarrierStates
        /\ barrier'[v][r].phase = barrier[v][r].phase
        /\ barrier'[v][r].arrivals_count = barrier[v][r].arrivals_count
        /\ barrier'[v][r].clock = barrier[v][r].clock
        /\ \A u \in Threads \ {t} :
              barrier'[v][r].next_awaited_phase[u] = barrier[v][r].next_awaited_phase[u]

\* No thread waits, and no clock forgets.
NobodyWaits ==
    \A v \in {"in", "consumed"}, r \in Slots :
        /\ barrier[v][r] \in BarrierStates
        /\ barrier[v][r].clock \subseteq barrier'[v][r].clock
        /\ barrier'[v][r].next_awaited_phase = barrier[v][r].next_awaited_phase
=============================================================================
