--------------------------- MODULE DmaTasksProofs ---------------------------
(***************************************************************************)
(* For any cores, semaphores and DMAs, the threads carry out every copy    *)
(* once and as it was started, and implement the asynchronous copy of      *)
(* module AsyncCopy.                                                       *)
(***************************************************************************)
EXTENDS DmaTasks, FiniteSetTheorems, SequenceTheorems, TLAPS

Started == {d \in Dmas : state[d] # "unused"}

\* Where a thread is tells what it works on and how far that is.
ThreadsOK ==
    \A c \in Cores :
        /\ pc[c] \in {"append", "read", "got", "write", "put"} =>
              task[c] \in Tasks /\ task[c].dma \in Started
        /\ pc[c] = "got" => state[task[c].dma] = "STARTED" /\ data[task[c].dma] = "old"
        /\ pc[c] = "write" => state[task[c].dma] \in {"READ", "COMPLETED"}
        /\ pc[c] = "put" => state[task[c].dma] = "READ" /\ dstbuf[task[c].dma] = "old"
        /\ \/ pc[c] \in {"wait", "pop"}
           \/ dma_execution_mode # "eager" /\ pc[c] \in {"read", "got", "write", "put"}
           => call[c] \in Sems

\* DMA.lock is held by the thread that is between the two steps of a half.
LocksOK ==
    \A d \in Dmas, c \in Cores :
        lock[d] = c <=> pc[c] \in {"got", "put"} /\ task[c].dma = d

\* The queues hold tasks of DMAs that were started.
QueuesOK ==
    \A s \in Sems, c \in Cores :
        \A i \in 1 .. Len(tasks_by_sem[s][c]) : tasks_by_sem[s][c][i].dma \in Started

\* The state of a DMA tells where its data is.
DataOK ==
    \A d \in Dmas :
        /\ state[d] # "unused" => dma[d] \in DmaRecords
        /\ state[d] \in {"unused", "STARTED"} => srcbuf[d] = "old"
        /\ state[d] = "READ" => data[d] = "old"
        /\ state[d] = "COMPLETED" => dstbuf[d] = "old"

IInv ==
    /\ TypeOK /\ ThreadsOK /\ LocksOK /\ QueuesOK /\ DataOK
    /\ IsFiniteSet(Started) /\ EachHalfSignalsOnce

-----------------------------------------------------------------------------
(* The halves that were done, and what they add up to.                     *)

Done(s, c) == {h \in Halves(s, c) : HalfDone(h)}

\* Multiplication by the size of a transfer, as the SMT solver needs it.
LEMMA Multiples ==
    /\ \A n \in Nat : DataSize * n \in Nat
    /\ \A n \in Nat : DataSize * (n + 1) = DataSize * n + DataSize
    /\ DataSize * 0 = 0
    /\ \A m, n \in Nat : DataSize * m <= DataSize * n => m <= n
<1>1. DataSize \in Nat \ {0}
  BY TasksAssumption
<1>2. \A m, n \in Nat : m > n => DataSize * m > DataSize * n
  BY <1>1
<1> QED
  BY <1>1, <1>2

\* A record of a started DMA has cores and semaphores, and a send semaphore
\* unless the copy stays on its core.
LEMMA RecordFields ==
    ASSUME NEW r \in DmaRecords
    PROVE  /\ r.src \in Cores /\ r.dst \in Cores /\ r.dst_sem \in Sems
           /\ r.src_sem \in Sems \cup {NoSem} /\ (r.src_sem = NoSem => r.dst = r.src)
  BY DEF DmaRecords

\* Membership of the halves, by DMA.
LEMMA HalvesMembers ==
    ASSUME NEW s, NEW c
    PROVE  /\ \A d \in Dmas : <<d, "src">> \in Halves(s, c) <=>
                 state[d] # "unused" /\ dma[d].src_sem = s /\ dma[d].src = c
           /\ \A d \in Dmas : <<d, "dst">> \in Halves(s, c) <=>
                 state[d] # "unused" /\ dma[d].dst_sem = s /\ dma[d].dst = c
           /\ Halves(s, c) \subseteq Started \X {"src", "dst"}
  BY DEF Halves, Started

\* Membership of the halves that were executed, by DMA.
LEMMA DoneMembers ==
    ASSUME NEW s, NEW c
    PROVE  /\ \A d \in Dmas : <<d, "src">> \in Done(s, c) <=>
                 state[d] \in {"READ", "COMPLETED"} /\ dma[d].src_sem = s /\ dma[d].src = c
           /\ \A d \in Dmas : <<d, "dst">> \in Done(s, c) <=>
                 state[d] = "COMPLETED" /\ dma[d].dst_sem = s /\ dma[d].dst = c
           /\ Done(s, c) \subseteq Started \X {"src", "dst"}
  BY HalvesMembers DEF Done, HalfDone

\* The same in the state after a step.
LEMMA DoneMembersNext ==
    ASSUME NEW s, NEW c
    PROVE  /\ \A d \in Dmas : <<d, "src">> \in Done(s, c)' <=>
                 state'[d] \in {"READ", "COMPLETED"} /\ dma'[d].src_sem = s /\ dma'[d].src = c
           /\ \A d \in Dmas : <<d, "dst">> \in Done(s, c)' <=>
                 state'[d] = "COMPLETED" /\ dma'[d].dst_sem = s /\ dma'[d].dst = c
           /\ Done(s, c)' \subseteq Started' \X {"src", "dst"}
  BY DEF Done, Halves, HalfDone, Started

\* Finitely many DMAs were started, so finitely many halves are owed.
LEMMA HalvesFinite ==
    ASSUME IsFiniteSet(Started), NEW s, NEW c
    PROVE  /\ IsFiniteSet(Halves(s, c)) /\ IsFiniteSet(Done(s, c))
           /\ Cardinality(Halves(s, c)) \in Nat /\ Cardinality(Done(s, c)) \in Nat
           /\ Cardinality(Done(s, c)) <= Cardinality(Halves(s, c))
           /\ Cardinality(Done(s, c)) = Cardinality(Halves(s, c)) => Done(s, c) = Halves(s, c)
<1>1. IsFiniteSet({"src", "dst"})
  <2>1. IsFiniteSet({"src"})
    BY FS_Singleton
  <2>2. IsFiniteSet({"src"} \cup {"dst"})
    BY <2>1, FS_AddElement
  <2>3. {"src"} \cup {"dst"} = {"src", "dst"}
    OBVIOUS
  <2> QED
    BY <2>2, <2>3
<1>2. IsFiniteSet(Started \X {"src", "dst"})
  BY <1>1, FS_Product
<1>3. IsFiniteSet(Halves(s, c))
  BY <1>2, HalvesMembers, FS_Subset
<1>4. Done(s, c) \in SUBSET Halves(s, c)
  BY DEF Done
<1>5. /\ IsFiniteSet(Done(s, c)) /\ Cardinality(Done(s, c)) <= Cardinality(Halves(s, c))
      /\ Cardinality(Halves(s, c)) = Cardinality(Done(s, c)) => Halves(s, c) = Done(s, c)
  BY <1>3, <1>4, FS_Subset
<1>6. Cardinality(Halves(s, c)) \in Nat /\ Cardinality(Done(s, c)) \in Nat
  BY <1>3, <1>5, FS_CardinalityType
<1> QED
  BY <1>3, <1>5, <1>6

\* A core that has waited for all that was to be signalled there was signalled
\* by every half.
LEMMA AcknowledgedIsDone ==
    ASSUME TypeOK, IsFiniteSet(Started), EachHalfSignalsOnce,
           NEW s \in Sems, NEW c \in Cores, Acknowledged(s, c)
    PROVE  \A h \in Halves(s, c) : HalfDone(h)
<1>1. count[s][c] \in Nat /\ taken[s][c] \in Nat
  BY DEF TypeOK
<1>2. count[s][c] + taken[s][c] = DataSize * Cardinality(Done(s, c))
  BY DEF EachHalfSignalsOnce, Done
<1>3. taken[s][c] = DataSize * Cardinality(Halves(s, c))
  BY DEF Acknowledged
<1>4. DataSize * Cardinality(Halves(s, c)) <= DataSize * Cardinality(Done(s, c))
  BY <1>1, <1>2, <1>3
<1>5. Cardinality(Halves(s, c)) <= Cardinality(Done(s, c))
  BY <1>4, HalvesFinite, Multiples
<1>6. Done(s, c) = Halves(s, c)
  BY <1>5, HalvesFinite
<1> QED
  BY <1>6 DEF Done

-----------------------------------------------------------------------------
(* What the steps of a thread preserve.                                    *)

\* The sum that a semaphore owes stays as it is when no half is done.
LEMMA NoSignal ==
    ASSUME EachHalfSignalsOnce,
           \A s \in Sems, c \in Cores :
               /\ Done(s, c)' = Done(s, c)
               /\ (count[s][c])' + (taken[s][c])' = count[s][c] + taken[s][c]
    PROVE  EachHalfSignalsOnce'
  BY DEF EachHalfSignalsOnce, Done

\* A half that is done adds its size to the count of its semaphore.
LEMMA OneSignal ==
    ASSUME TypeOK, IsFiniteSet(Started), EachHalfSignalsOnce, NEW h,
           NEW s \in Sems, NEW c \in Cores,
           h \notin Done(s, c), Done(s, c)' = Done(s, c) \cup {h}, count' = Add(s, c),
           \A s1 \in Sems, c1 \in Cores :
               s1 # s \/ c1 # c => Done(s1, c1)' = Done(s1, c1),
           UNCHANGED taken
    PROVE  EachHalfSignalsOnce'
<1>0. count \in [Sems -> [Cores -> Nat]] /\ taken \in [Sems -> [Cores -> Nat]]
  BY DEF TypeOK
<1>1. Cardinality(Done(s, c)') = Cardinality(Done(s, c)) + 1
  <2>1. IsFiniteSet(Done(s, c))
    BY HalvesFinite
  <2>2. Cardinality(Done(s, c) \cup {h}) = Cardinality(Done(s, c)) + 1
    BY <2>1, FS_AddElement
  <2> QED
    BY <2>2
<1>2. count[s][c] + taken[s][c] = DataSize * Cardinality(Done(s, c))
  BY DEF EachHalfSignalsOnce, Done
<1>3. (count[s][c])' = count[s][c] + DataSize
  BY <1>0 DEF Add
<1>4. DataSize * Cardinality(Done(s, c)') = DataSize * Cardinality(Done(s, c)) + DataSize
  BY <1>1, HalvesFinite, Multiples
<1>5. DataSize * Cardinality(Done(s, c)) \in Nat /\ DataSize \in Nat
  BY HalvesFinite, Multiples, TasksAssumption
<1>6. (count[s][c])' + (taken[s][c])' = DataSize * Cardinality(Done(s, c)')
  BY <1>0, <1>2, <1>3, <1>4, <1>5
<1>7. \A s1 \in Sems, c1 \in Cores : s1 # s \/ c1 # c =>
          (count[s1][c1])' + (taken[s1][c1])' = DataSize * Cardinality(Done(s1, c1)')
  BY <1>0 DEF EachHalfSignalsOnce, Done, Add
<1> QED
  BY <1>6, <1>7 DEF EachHalfSignalsOnce, Done

\* A queue without its newest task.
LEMMA DropLast ==
    ASSUME NEW S, NEW q \in Seq(S), q # << >>
    PROVE  /\ SubSeq(q, 1, Len(q) - 1) \in Seq(S)
           /\ Len(SubSeq(q, 1, Len(q) - 1)) = Len(q) - 1
           /\ \A i \in 1 .. Len(q) - 1 : SubSeq(q, 1, Len(q) - 1)[i] = q[i]
  OBVIOUS

\* Sets of halves that agree on every half are equal.
LEMMA SameHalves ==
    ASSUME NEW A \in SUBSET (Dmas \X {"src", "dst"}), NEW B \in SUBSET (Dmas \X {"src", "dst"}),
           \A d \in Dmas, k \in {"src", "dst"} : <<d, k>> \in A <=> <<d, k>> \in B
    PROVE  A = B
<1>1. \A h \in Dmas \X {"src", "dst"} :
          h[1] \in Dmas /\ h[2] \in {"src", "dst"} /\ h = <<h[1], h[2]>>
  OBVIOUS
<1>2. ASSUME NEW h \in Dmas \X {"src", "dst"} PROVE h \in A <=> h \in B
  <2>1. PICK d \in Dmas, k \in {"src", "dst"} : h = <<d, k>>
    BY <1>1
  <2> QED
    BY <2>1
<1> QED
  BY <1>2

\* A signalled count is a natural number.
LEMMA AddType ==
    ASSUME TypeOK, NEW s \in Sems, NEW c \in Cores
    PROVE  Add(s, c) \in [Sems -> [Cores -> Nat]]
  BY TasksAssumption DEF TypeOK, Add

\* A task that is appended belongs to a started DMA.
LEMMA PushTask ==
    ASSUME TypeOK, QueuesOK, NEW s \in Sems, NEW c \in Cores, NEW t \in Tasks,
           Started \subseteq Started', t.dma \in Started', append_semaphore_task(s, c, t)
    PROVE  /\ tasks_by_sem' \in [Sems -> [Cores -> Seq(Tasks)]] /\ QueuesOK'
<1>0. tasks_by_sem \in [Sems -> [Cores -> Seq(Tasks)]]
  BY DEF TypeOK
<1>1. tasks_by_sem[s][c] \in Seq(Tasks)
  BY <1>0
<1>2. DEFINE q == Append(tasks_by_sem[s][c], t)
<1>3. /\ q \in Seq(Tasks) /\ Len(q) = Len(tasks_by_sem[s][c]) + 1
      /\ \A i \in 1 .. Len(tasks_by_sem[s][c]) : q[i] = tasks_by_sem[s][c][i]
      /\ q[Len(tasks_by_sem[s][c]) + 1] = t
  BY <1>1, AppendProperties
<1>4. Len(tasks_by_sem[s][c]) \in Nat
  BY <1>1, LenProperties
<1>5. /\ tasks_by_sem' = [tasks_by_sem EXCEPT ![s][c] = q]
      /\ tasks_by_sem'[s][c] = q
      /\ \A s1 \in Sems, c1 \in Cores : s1 # s \/ c1 # c => tasks_by_sem'[s1][c1] = tasks_by_sem[s1][c1]
  BY <1>0 DEF append_semaphore_task
<1>6. tasks_by_sem' \in [Sems -> [Cores -> Seq(Tasks)]]
  BY <1>0, <1>3, <1>5
<1>7. \A i \in 1 .. Len(q) : q[i].dma \in Started'
  <2> TAKE i \in 1 .. Len(q)
  <2>1. CASE i = Len(tasks_by_sem[s][c]) + 1
    BY <1>3, <2>1
  <2>2. CASE i \in 1 .. Len(tasks_by_sem[s][c])
    BY <1>3, <2>2 DEF QueuesOK
  <2> QED
    BY <1>3, <1>4, <2>1, <2>2
<1>8. QueuesOK'
  <2> SUFFICES ASSUME NEW s1 \in Sems, NEW c1 \in Cores
               PROVE  \A i \in 1 .. Len(tasks_by_sem'[s1][c1]) : tasks_by_sem'[s1][c1][i].dma \in Started'
    BY DEF QueuesOK
  <2>1. CASE s1 = s /\ c1 = c
    BY <1>5, <1>7, <2>1
  <2>2. CASE s1 # s \/ c1 # c
    BY <1>5, <2>2 DEF QueuesOK
  <2> QED
    BY <2>1, <2>2
<1> QED
  BY <1>6, <1>8

\* A thread that holds no lock goes from one place to another, with a new task
\* or none, and nothing is done to the DMAs.
LEMMA ThreadMoves ==
    ASSUME IInv, NEW c \in Cores, pc[c] \notin {"got", "put"},
           \A e \in Cores : e # c => pc'[e] = pc[e] /\ task'[e] = task[e] /\ call'[e] = call[e],
           pc'[c] \in {"run", "append", "wait", "pop", "read", "write"},
           pc'[c] \in {"append", "read", "write"} => task'[c] \in Tasks /\ task'[c].dma \in Started,
           pc'[c] = "write" => state[task'[c].dma] \in {"READ", "COMPLETED"},
           \/ pc'[c] \in {"wait", "pop"}
           \/ dma_execution_mode # "eager" /\ pc'[c] \in {"read", "write"}
           => call'[c] \in Sems,
           UNCHANGED <<dma_execution_mode, dmaVars, dstbuf>>
    PROVE  ThreadsOK' /\ LocksOK'
<1>0. ThreadsOK /\ LocksOK
  BY DEF IInv
<1>2. Started' = Started /\ state' = state /\ data' = data /\ lock' = lock
  BY DEF Started, dmaVars
<1>3. ThreadsOK'
  BY <1>0, <1>2 DEF ThreadsOK
<1>4. LocksOK'
  BY <1>0, <1>2 DEF LocksOK
<1> QED
  BY <1>3, <1>4

\* The invariant holds before the first DMA.
LEMMA InitInv == Init => IInv
<1> SUFFICES ASSUME Init PROVE IInv
  OBVIOUS
<1>1. Started = {}
  BY DEF Init, Started
<1>2. TypeOK
  BY EmptySeq DEF Init, TypeOK, Contents
<1>3. ThreadsOK /\ LocksOK /\ DataOK
  BY TasksAssumption DEF Init, ThreadsOK, LocksOK, DataOK
<1>4. QueuesOK
  BY DEF Init, QueuesOK
<1>5. IsFiniteSet(Started)
  BY <1>1, FS_EmptySet
<1>6. EachHalfSignalsOnce
  <2>1. \A s, c : Done(s, c) = {}
    BY <1>1, DoneMembers
  <2>2. \A s \in Sems, c \in Cores : count[s][c] + taken[s][c] = 0
    BY DEF Init
  <2> QED
    BY <2>1, <2>2, FS_EmptySet, Multiples DEF EachHalfSignalsOnce, Done
<1> QED
  BY <1>2, <1>3, <1>4, <1>5, <1>6 DEF IInv

\* DMAs that are left alone leave their halves and their data where they are.
LEMMA DmasAlone ==
    ASSUME UNCHANGED dmaVars
    PROVE  /\ Started' = Started
           /\ \A s, c : Halves(s, c)' = Halves(s, c) /\ Done(s, c)' = Done(s, c)
  BY DEF dmaVars, Started, Halves, Done, HalfDone

\* The second task of a DMA goes to the receiver's queue.
LEMMA AppendSecondInv ==
    ASSUME IInv, NEW c \in Cores, AppendSecond(c), UNCHANGED dma_execution_mode
    PROVE  IInv'
<1>0. TypeOK /\ ThreadsOK /\ QueuesOK /\ DataOK /\ IsFiniteSet(Started) /\ EachHalfSignalsOnce
  BY DEF IInv
<1>1. /\ pc[c] = "append" /\ pc' = [pc EXCEPT ![c] = "run"]
      /\ task' = [task EXCEPT ![c] = NoTask]
      /\ append_semaphore_task(dma[task[c].dma].dst_sem, dma[task[c].dma].dst, task[c])
      /\ UNCHANGED <<dmaVars, srcbuf, dstbuf, count, call, taken, waits>>
  BY DEF AppendSecond
<1>2. task[c] \in Tasks /\ task[c].dma \in Started
  BY <1>0, <1>1 DEF ThreadsOK
<1>3. dma[task[c].dma].dst_sem \in Sems /\ dma[task[c].dma].dst \in Cores
  BY <1>0, <1>2, RecordFields DEF DataOK, Started
<1>4. Started' = Started /\ \A s1, c1 : Done(s1, c1)' = Done(s1, c1)
  BY <1>1, DmasAlone
<1>5. tasks_by_sem' \in [Sems -> [Cores -> Seq(Tasks)]] /\ QueuesOK'
  BY <1>0, <1>1, <1>2, <1>3, <1>4, PushTask
<1>10. /\ pc'[c] = "run"
       /\ \A e \in Cores : e # c => pc'[e] = pc[e] /\ task'[e] = task[e] /\ call'[e] = call[e]
  BY <1>0, <1>1 DEF TypeOK
<1>6. ThreadsOK' /\ LocksOK'
  BY <1>1, <1>10, ThreadMoves
<1>7. TypeOK'
  BY <1>0, <1>1, <1>5 DEF TypeOK, dmaVars
<1>8. DataOK'
  BY <1>0, <1>1 DEF DataOK, dmaVars
<1>9. EachHalfSignalsOnce'
  BY <1>0, <1>1, <1>4, NoSignal
<1> QED
  BY <1>0, <1>4, <1>5, <1>6, <1>7, <1>8, <1>9 DEF IInv

\* A source that is reused belongs to copies that were read.
LEMMA ReuseSourceInv ==
    ASSUME IInv, NEW c \in Cores, NEW d \in Dmas, ReuseSource(c, d), UNCHANGED dma_execution_mode
    PROVE  IInv'
<1>0. /\ TypeOK /\ ThreadsOK /\ LocksOK /\ QueuesOK /\ DataOK /\ IsFiniteSet(Started)
      /\ EachHalfSignalsOnce
  BY DEF IInv
<1>1. /\ state[d] # "unused" /\ dma[d].src = c
      /\ Acknowledged(IF dma[d].src_sem = NoSem THEN dma[d].dst_sem ELSE dma[d].src_sem, c)
      /\ srcbuf' = [srcbuf EXCEPT ![d] = "new"]
      /\ UNCHANGED <<dmaVars, dstbuf, count, tasks_by_sem, pc, call, task, taken, waits>>
  BY DEF ReuseSource
<1>2. Started' = Started /\ \A s1, c1 : Done(s1, c1)' = Done(s1, c1)
  BY <1>1, DmasAlone
<1>3. /\ dma[d].src_sem \in Sems \cup {NoSem} /\ dma[d].dst_sem \in Sems
      /\ dma[d].src_sem = NoSem => dma[d].dst = dma[d].src
  BY <1>0, <1>1, RecordFields DEF DataOK
<1>4. state[d] \notin {"unused", "STARTED"}
  <2>1. CASE dma[d].src_sem = NoSem
    <3>1. <<d, "dst">> \in Halves(dma[d].dst_sem, c)
      BY <1>1, <1>3, <2>1, HalvesMembers
    <3>2. HalfDone(<<d, "dst">>)
      BY <1>0, <1>1, <1>3, <2>1, <3>1, AcknowledgedIsDone
    <3> QED
      BY <3>2 DEF HalfDone
  <2>2. CASE dma[d].src_sem # NoSem
    <3>1. <<d, "src">> \in Halves(dma[d].src_sem, c)
      BY <1>1, <1>3, <2>2, HalvesMembers
    <3>2. HalfDone(<<d, "src">>)
      BY <1>0, <1>1, <1>3, <2>2, <3>1, AcknowledgedIsDone
    <3> QED
      BY <3>2 DEF HalfDone
  <2> QED
    BY <2>1, <2>2
<1>5. TypeOK'
  BY <1>0, <1>1 DEF TypeOK, dmaVars, Contents
<1>6. ThreadsOK' /\ LocksOK' /\ QueuesOK'
  BY <1>0, <1>1, <1>2 DEF ThreadsOK, LocksOK, QueuesOK, dmaVars
<1>7. DataOK'
  BY <1>0, <1>1, <1>4 DEF DataOK, TypeOK, dmaVars
<1>8. EachHalfSignalsOnce'
  BY <1>0, <1>1, <1>2, NoSignal
<1> QED
  BY <1>0, <1>2, <1>5, <1>6, <1>7, <1>8 DEF IInv

\* A wait that begins changes nothing but the thread's place.
LEMMA dma_waitInv ==
    ASSUME IInv, NEW c \in Cores, NEW s \in Sems, dma_wait(c, s), UNCHANGED dma_execution_mode
    PROVE  IInv'
<1>0. /\ TypeOK /\ ThreadsOK /\ LocksOK /\ QueuesOK /\ DataOK /\ IsFiniteSet(Started)
      /\ EachHalfSignalsOnce
  BY DEF IInv
<1>1. /\ pc[c] = "run" /\ pc' = [pc EXCEPT ![c] = "wait"] /\ call' = [call EXCEPT ![c] = s]
      /\ waits' = [waits EXCEPT ![c] = @ + 1]
      /\ UNCHANGED <<dmaVars, srcbuf, dstbuf, count, tasks_by_sem, task, taken>>
  BY DEF dma_wait
<1>2. Started' = Started /\ \A s1, c1 : Done(s1, c1)' = Done(s1, c1)
  BY <1>1, DmasAlone
<1>3. TypeOK'
  BY <1>0, <1>1 DEF TypeOK, dmaVars
<1>5. /\ pc'[c] = "wait" /\ call'[c] \in Sems
      /\ \A e \in Cores : e # c => pc'[e] = pc[e] /\ task'[e] = task[e] /\ call'[e] = call[e]
  BY <1>0, <1>1 DEF TypeOK
<1>6. ThreadsOK' /\ LocksOK'
  BY <1>1, <1>5, ThreadMoves
<1>7. DataOK' /\ QueuesOK'
  BY <1>0, <1>1, <1>2 DEF DataOK, QueuesOK, dmaVars
<1>8. EachHalfSignalsOnce'
  BY <1>0, <1>1, <1>2, NoSignal
<1> QED
  BY <1>0, <1>2, <1>3, <1>6, <1>7, <1>8 DEF IInv

\* A wait that is satisfied takes its value from the count.
LEMMA CheckCountInv ==
    ASSUME IInv, NEW c \in Cores, CheckCount(c), UNCHANGED dma_execution_mode
    PROVE  IInv'
<1>0. /\ TypeOK /\ ThreadsOK /\ LocksOK /\ QueuesOK /\ DataOK /\ IsFiniteSet(Started)
      /\ EachHalfSignalsOnce
  BY DEF IInv
<1>1. /\ pc[c] = "wait"
      /\ UNCHANGED <<dmaVars, srcbuf, dstbuf, tasks_by_sem, call, task, waits>>
  BY DEF CheckCount
<1>2. Started' = Started /\ \A s1, c1 : Done(s1, c1)' = Done(s1, c1)
  BY <1>1, DmasAlone
<1>3. call[c] \in Sems
  BY <1>0, <1>1 DEF ThreadsOK
<1>4. \A e \in Cores : task'[e] = task[e] /\ call'[e] = call[e]
  BY <1>1
<1>5. DataOK' /\ QueuesOK'
  BY <1>0, <1>1, <1>2 DEF DataOK, QueuesOK, dmaVars
<1>6. CASE /\ Enough(c) /\ pc' = [pc EXCEPT ![c] = "run"]
           /\ count' = [count EXCEPT ![call[c]][c] = @ - DataSize]
           /\ taken' = [taken EXCEPT ![call[c]][c] = @ + DataSize]
  <2>0. /\ count \in [Sems -> [Cores -> Nat]] /\ taken \in [Sems -> [Cores -> Nat]]
        /\ DataSize \in Nat /\ count[call[c]][c] >= DataSize
    BY <1>0, <1>6, TasksAssumption DEF TypeOK, Enough
  <2>1. count' \in [Sems -> [Cores -> Nat]] /\ taken' \in [Sems -> [Cores -> Nat]]
    BY <1>3, <1>6, <2>0
  <2>2. \A s1 \in Sems, c1 \in Cores :
            (count[s1][c1])' + (taken[s1][c1])' = count[s1][c1] + taken[s1][c1]
    BY <1>3, <1>6, <2>0
  <2>3. TypeOK'
    BY <1>0, <1>1, <1>6, <2>1 DEF TypeOK, dmaVars
  <2>6. pc'[c] = "run" /\ \A e \in Cores : e # c => pc'[e] = pc[e]
    BY <1>0, <1>6 DEF TypeOK
  <2>4. ThreadsOK' /\ LocksOK'
    BY <1>1, <1>4, <2>6, ThreadMoves
  <2>5. EachHalfSignalsOnce'
    BY <1>0, <1>2, <2>2, NoSignal
  <2> QED
    BY <1>0, <1>2, <1>5, <2>3, <2>4, <2>5 DEF IInv
<1>7. CASE pc' = [pc EXCEPT ![c] = "pop"] /\ UNCHANGED <<count, taken>>
  <2>3. TypeOK'
    BY <1>0, <1>1, <1>7 DEF TypeOK, dmaVars
  <2>6. pc'[c] = "pop" /\ \A e \in Cores : e # c => pc'[e] = pc[e]
    BY <1>0, <1>7 DEF TypeOK
  <2>4. ThreadsOK' /\ LocksOK'
    BY <1>1, <1>3, <1>4, <2>6, ThreadMoves
  <2>5. EachHalfSignalsOnce'
    BY <1>0, <1>2, <1>7, NoSignal
  <2> QED
    BY <1>0, <1>2, <1>5, <2>3, <2>4, <2>5 DEF IInv
<1> QED
  BY <1>6, <1>7 DEF CheckCount

\* A task that is popped leaves its queue and belongs to a started DMA.
LEMMA PopTaskInv ==
    ASSUME IInv, NEW c \in Cores, PopTask(c), UNCHANGED dma_execution_mode
    PROVE  IInv'
<1>0. /\ TypeOK /\ ThreadsOK /\ LocksOK /\ QueuesOK /\ DataOK /\ IsFiniteSet(Started)
      /\ EachHalfSignalsOnce
  BY DEF IInv
<1> DEFINE q == tasks_by_sem[call[c]][c]
<1>1. /\ pc[c] = "pop"
      /\ UNCHANGED <<dmaVars, srcbuf, dstbuf, count, call, taken, waits>>
  BY DEF PopTask
<1>2. Started' = Started /\ \A s1, c1 : Done(s1, c1)' = Done(s1, c1)
  BY <1>1, DmasAlone
<1>3. call[c] \in Sems
  BY <1>0, <1>1 DEF ThreadsOK
<1>4. DataOK'
  BY <1>0, <1>1, <1>2 DEF DataOK, dmaVars
<1>5. EachHalfSignalsOnce'
  BY <1>0, <1>1, <1>2, NoSignal
<1>6. CASE /\ q # << >> /\ task' = [task EXCEPT ![c] = q[Len(q)]]
           /\ tasks_by_sem' = [tasks_by_sem EXCEPT ![call[c]][c] = SubSeq(q, 1, Len(q) - 1)]
           /\ pc' = [pc EXCEPT ![c] = "read"]
  <2> DEFINE rest == SubSeq(q, 1, Len(q) - 1)
  <2>0. /\ tasks_by_sem \in [Sems -> [Cores -> Seq(Tasks)]] /\ q \in Seq(Tasks)
    BY <1>0, <1>3 DEF TypeOK
  <2>1. Len(q) \in Nat /\ Len(q) # 0 /\ \A i \in 1 .. Len(q) : q[i] \in Tasks
    BY <1>6, <2>0, EmptySeq, ElementOfSeq, LenProperties
  <2>2. \A i \in 1 .. Len(q) : q[i].dma \in Started
    BY <1>0, <1>3 DEF QueuesOK
  <2>3. /\ rest \in Seq(Tasks) /\ Len(rest) = Len(q) - 1
        /\ \A i \in 1 .. Len(q) - 1 : rest[i] = q[i]
    BY <1>6, <2>0, DropLast
  <2>4. /\ tasks_by_sem'[call[c]][c] = rest
        /\ tasks_by_sem' \in [Sems -> [Cores -> Seq(Tasks)]]
        /\ \A s1 \in Sems, c1 \in Cores :
               s1 # call[c] \/ c1 # c => tasks_by_sem'[s1][c1] = tasks_by_sem[s1][c1]
    <3>1. tasks_by_sem' = [tasks_by_sem EXCEPT ![call[c]][c] = rest] /\ rest \in Seq(Tasks)
      BY <1>6, <2>3
    <3> HIDE DEF rest
    <3> QED
      BY <1>3, <2>0, <3>1
  <2>5. QueuesOK'
    <3> SUFFICES ASSUME NEW s1 \in Sems, NEW c1 \in Cores
                 PROVE  \A i \in 1 .. Len(tasks_by_sem'[s1][c1]) :
                            tasks_by_sem'[s1][c1][i].dma \in Started
      BY <1>2 DEF QueuesOK
    <3>1. \A i \in 1 .. Len(rest) : rest[i].dma \in Started
      BY <2>1, <2>2, <2>3
    <3>2. CASE s1 = call[c] /\ c1 = c
      BY <2>4, <3>1, <3>2
    <3>3. CASE s1 # call[c] \/ c1 # c
      BY <1>0, <2>4, <3>3 DEF QueuesOK
    <3> QED
      BY <3>2, <3>3
  <2>6. q[Len(q)] \in Tasks /\ q[Len(q)].dma \in Started
    BY <2>1, <2>2
  <2>7. /\ pc'[c] = "read" /\ task'[c] = q[Len(q)]
        /\ \A e \in Cores : e # c => pc'[e] = pc[e] /\ task'[e] = task[e] /\ call'[e] = call[e]
    BY <1>0, <1>1, <1>6 DEF TypeOK
  <2>8. call'[c] \in Sems
    BY <1>1, <1>3
  <2>9. ThreadsOK' /\ LocksOK'
    BY <1>1, <2>6, <2>7, <2>8, ThreadMoves
  <2>10. TypeOK'
    BY <1>0, <1>1, <1>6, <2>4, <2>6 DEF TypeOK, dmaVars
  <2> QED
    BY <1>0, <1>2, <1>4, <1>5, <2>5, <2>9, <2>10 DEF IInv
<1>7. CASE pc' = [pc EXCEPT ![c] = "wait"] /\ UNCHANGED <<task, tasks_by_sem>>
  <2>1. TypeOK' /\ QueuesOK'
    BY <1>0, <1>1, <1>2, <1>7 DEF TypeOK, QueuesOK, dmaVars
  <2>2. /\ pc'[c] = "wait" /\ call'[c] \in Sems
        /\ \A e \in Cores : e # c => pc'[e] = pc[e] /\ task'[e] = task[e] /\ call'[e] = call[e]
    BY <1>0, <1>1, <1>3, <1>7 DEF TypeOK
  <2>3. ThreadsOK' /\ LocksOK'
    BY <1>1, <2>2, ThreadMoves
  <2> QED
    BY <1>0, <1>2, <1>4, <1>5, <2>1, <2>3 DEF IInv
<1> QED
  BY <1>6, <1>7 DEF PopTask

\* Where a thread goes when the read of its task is over.
LEMMA AfterReadMoves ==
    ASSUME TypeOK, ThreadsOK, NEW c \in Cores, pc[c] \in {"read", "got"}, AfterRead(c)
    PROVE  /\ pc' \in [Cores -> {"run", "append", "wait", "pop", "read", "got", "write", "put"}]
           /\ task' \in [Cores -> Tasks \cup {NoTask}]
           /\ \A e \in Cores : e # c => pc'[e] = pc[e] /\ task'[e] = task[e]
           /\ \/ pc'[c] = "write" /\ task'[c] = task[c]
              \/ pc'[c] = "run"
              \/ pc'[c] = "wait" /\ dma_execution_mode # "eager"
  BY DEF TypeOK, AfterRead, Return

\* A task that ends brings the thread back to its kernel or its wait.
LEMMA ReturnMoves ==
    ASSUME TypeOK, ThreadsOK, NEW c \in Cores, Return(c)
    PROVE  /\ pc' \in [Cores -> {"run", "append", "wait", "pop", "read", "got", "write", "put"}]
           /\ task' \in [Cores -> Tasks \cup {NoTask}]
           /\ \A e \in Cores : e # c => pc'[e] = pc[e] /\ task'[e] = task[e]
           /\ \/ pc'[c] = "run"
              \/ pc'[c] = "wait" /\ dma_execution_mode # "eager"
  BY DEF TypeOK, Return

\* execute_read takes the lock of a DMA, and reads if nobody did.
LEMMA StartReadInv ==
    ASSUME IInv, NEW c \in Cores, StartRead(c), UNCHANGED dma_execution_mode
    PROVE  IInv'
<1>0. /\ TypeOK /\ ThreadsOK /\ LocksOK /\ QueuesOK /\ DataOK /\ IsFiniteSet(Started)
      /\ EachHalfSignalsOnce
  BY DEF IInv
<1> DEFINE d == task[c].dma
<1>1. /\ pc[c] = "read" /\ lock[d] = Free
      /\ UNCHANGED <<state, dma, srcbuf, dstbuf, count, tasks_by_sem, call, taken, waits>>
  BY DEF StartRead
<1>2. /\ Started' = Started /\ \A s1, c1 : Done(s1, c1)' = Done(s1, c1)
  BY <1>1 DEF Started, Done, Halves, HalfDone
<1>3. /\ task[c] \in Tasks /\ d \in Started /\ d \in Dmas
      /\ dma_execution_mode # "eager" => call[c] \in Sems
  BY <1>0, <1>1 DEF ThreadsOK, Started
<1>4. EachHalfSignalsOnce' /\ QueuesOK'
  BY <1>0, <1>1, <1>2, NoSignal DEF QueuesOK
<1>5. CASE /\ MayRead(c, d) /\ lock' = [lock EXCEPT ![d] = c]
           /\ data' = [data EXCEPT ![d] = srcbuf[d]]
           /\ pc' = [pc EXCEPT ![c] = "got"] /\ UNCHANGED task
  <2>1. state[d] = "STARTED" /\ srcbuf[d] = "old"
    BY <1>0, <1>3, <1>5 DEF MayRead, DataOK
  <2> HIDE DEF d
  <2>2. /\ \A e \in Cores : e # c => pc'[e] = pc[e]
        /\ \A x \in Dmas : x # d => lock'[x] = lock[x] /\ data'[x] = data[x]
        /\ pc'[c] = "got" /\ lock'[d] = c /\ data'[d] = "old"
    BY <1>0, <1>3, <1>5, <2>1 DEF TypeOK
  <2>3. TypeOK'
    BY <1>0, <1>1, <1>3, <1>5 DEF TypeOK
  <2>4. LocksOK'
    <3>1. \A e \in Cores : e # c => ~(pc[e] \in {"got", "put"} /\ task[e].dma = d)
      BY <1>0, <1>1, <1>3, TasksAssumption DEF LocksOK
    <3>2. task[c].dma = d
      BY DEF d
    <3> QED
      BY <1>0, <1>1, <1>3, <1>5, <2>2, <3>1, <3>2 DEF LocksOK
  <2>5. ThreadsOK'
    <3>1. \A e \in Cores : pc[e] = "got" /\ e # c => data'[task[e].dma] = data[task[e].dma]
      <4> TAKE e \in Cores
      <4>1. pc[e] = "got" => task[e].dma \in Dmas /\ lock[task[e].dma] = e
        BY <1>0 DEF ThreadsOK, LocksOK, Started
      <4> QED
        BY <1>1, <2>2, <4>1, TasksAssumption
    <3>2. task[c].dma = d
      BY DEF d
    <3> QED
      BY <1>0, <1>1, <1>2, <1>3, <1>5, <2>1, <2>2, <3>1, <3>2 DEF ThreadsOK
  <2>6. DataOK'
    BY <1>0, <1>1, <2>1, <2>2 DEF DataOK
  <2> QED
    BY <1>0, <1>2, <1>4, <2>3, <2>4, <2>5, <2>6 DEF IInv
<1>6. CASE ~MayRead(c, d) /\ AfterRead(c) /\ UNCHANGED <<lock, data>>
  <2>1. /\ pc' \in [Cores -> {"run", "append", "wait", "pop", "read", "got", "write", "put"}]
        /\ task' \in [Cores -> Tasks \cup {NoTask}]
        /\ \A e \in Cores : e # c => pc'[e] = pc[e] /\ task'[e] = task[e] /\ call'[e] = call[e]
        /\ \/ pc'[c] = "write" /\ task'[c] = task[c]
           \/ pc'[c] = "run"
           \/ pc'[c] = "wait" /\ dma_execution_mode # "eager"
    BY <1>0, <1>1, <1>6, AfterReadMoves
  <2>2. state[d] \in {"READ", "COMPLETED"}
    BY <1>0, <1>3, <1>6 DEF MayRead, TypeOK, Started
  <2>3. UNCHANGED <<dma_execution_mode, dmaVars, dstbuf>>
    BY <1>1, <1>6 DEF dmaVars
  <2>4. ThreadsOK' /\ LocksOK'
    BY <1>1, <1>3, <2>1, <2>2, <2>3, ThreadMoves
  <2>5. TypeOK' /\ DataOK'
    BY <1>0, <1>1, <1>6, <2>1 DEF TypeOK, DataOK
  <2> QED
    BY <1>0, <1>2, <1>4, <2>4, <2>5 DEF IInv
<1> QED
  BY <1>5, <1>6 DEF StartRead

\* execute_read signals the send semaphore when the data is read.
LEMMA FinishReadInv ==
    ASSUME IInv, NEW c \in Cores, FinishRead(c), UNCHANGED dma_execution_mode
    PROVE  IInv'
<1>0. /\ TypeOK /\ ThreadsOK /\ LocksOK /\ QueuesOK /\ DataOK /\ IsFiniteSet(Started)
      /\ EachHalfSignalsOnce
  BY DEF IInv
<1> DEFINE d == task[c].dma
<1>1. /\ pc[c] = "got"
      /\ count' = IF dma[d].src_sem = NoSem THEN count ELSE Add(dma[d].src_sem, dma[d].src)
      /\ state' = [state EXCEPT ![d] = "READ"] /\ lock' = [lock EXCEPT ![d] = Free]
      /\ AfterRead(c)
      /\ UNCHANGED <<dma, data, srcbuf, dstbuf, tasks_by_sem, call, taken, waits>>
  BY DEF FinishRead
<1>2. /\ task[c] \in Tasks /\ task[c].dma = d /\ d \in Dmas /\ state[d] = "STARTED"
      /\ data[d] = "old" /\ lock[d] = c
      /\ dma_execution_mode # "eager" => call[c] \in Sems
  BY <1>0, <1>1 DEF ThreadsOK, LocksOK, Started
<1>3. /\ pc' \in [Cores -> {"run", "append", "wait", "pop", "read", "got", "write", "put"}]
      /\ task' \in [Cores -> Tasks \cup {NoTask}]
      /\ \A e \in Cores : e # c => pc'[e] = pc[e] /\ task'[e] = task[e]
      /\ \/ pc'[c] = "write" /\ task'[c] = task[c]
         \/ pc'[c] = "run"
         \/ pc'[c] = "wait" /\ dma_execution_mode # "eager"
  BY <1>0, <1>1, AfterReadMoves
<1> HIDE DEF d
<1>4. /\ \A x \in Dmas : x # d => state'[x] = state[x] /\ lock'[x] = lock[x]
      /\ state'[d] = "READ" /\ lock'[d] = Free
      /\ state' \in [Dmas -> {"unused", "STARTED", "READ", "COMPLETED"}]
      /\ lock' \in [Dmas -> Cores \cup {Free}]
  BY <1>0, <1>1, <1>2 DEF TypeOK
<1>5. dma[d] \in DmaRecords
  BY <1>0, <1>2 DEF DataOK
<1>6. Started' = Started
  BY <1>2, <1>4 DEF Started
<1>7. \A e \in Cores : e # c => ~(pc[e] \in {"got", "put"} /\ task[e].dma = d)
  BY <1>0, <1>2 DEF LocksOK
<1>8. count' \in [Sems -> [Cores -> Nat]]
  <2>1. dma[d].src_sem # NoSem => Add(dma[d].src_sem, dma[d].src) \in [Sems -> [Cores -> Nat]]
    BY <1>0, <1>5, RecordFields, AddType
  <2> QED
    BY <1>0, <1>1, <2>1 DEF TypeOK
<1>9. TypeOK'
  BY <1>0, <1>1, <1>3, <1>4, <1>8 DEF TypeOK
<1>10. LocksOK'
  BY <1>0, <1>2, <1>3, <1>4, <1>7, TasksAssumption DEF LocksOK
<1>11. ThreadsOK'
  <2>1. \A e \in Cores : pc[e] \in {"append", "read", "got", "write", "put"} => task[e].dma \in Dmas
    BY <1>0 DEF ThreadsOK, Started
  <2> QED
    BY <1>0, <1>1, <1>2, <1>3, <1>4, <1>6, <1>7, <2>1 DEF ThreadsOK, Started
<1>12. DataOK'
  BY <1>0, <1>1, <1>2, <1>4 DEF DataOK
<1>13. QueuesOK'
  BY <1>0, <1>1, <1>6 DEF QueuesOK
<1>14. EachHalfSignalsOnce'
  <2> DEFINE h == <<d, "src">>
  <2>1. \A s1, c1 : \A x \in Dmas, k \in {"src", "dst"} : <<x, k>> # h =>
            (<<x, k>> \in Done(s1, c1)' <=> <<x, k>> \in Done(s1, c1))
    BY <1>1, <1>2, <1>4, DoneMembers, DoneMembersNext
  <2>2. \A s1, c1 : /\ h \notin Done(s1, c1)
                    /\ h \in Done(s1, c1)' <=> dma[d].src_sem = s1 /\ dma[d].src = c1
    BY <1>1, <1>2, <1>4, DoneMembers, DoneMembersNext
  <2>3. \A s1, c1 : Done(s1, c1)' \in SUBSET (Dmas \X {"src", "dst"})
                      /\ Done(s1, c1) \in SUBSET (Dmas \X {"src", "dst"})
    BY <1>6, DoneMembers, DoneMembersNext DEF Started
  <2>4. ASSUME NEW s1, NEW c1, ~(dma[d].src_sem = s1 /\ dma[d].src = c1)
        PROVE  Done(s1, c1)' = Done(s1, c1)
    <3>1. \A x \in Dmas, k \in {"src", "dst"} : <<x, k>> \in Done(s1, c1)' <=> <<x, k>> \in Done(s1, c1)
      BY <2>1, <2>2, <2>4
    <3> QED
      BY <2>3, <3>1, SameHalves
  <2>5. CASE dma[d].src_sem = NoSem
    <3>1. \A s1 \in Sems, c1 \in Cores : Done(s1, c1)' = Done(s1, c1)
      BY <2>4, <2>5, TasksAssumption
    <3> QED
      BY <1>0, <1>1, <2>5, <3>1, NoSignal
  <2>6. CASE dma[d].src_sem # NoSem
    <3>1. PICK s0 \in Sems, c0 \in Cores : s0 = dma[d].src_sem /\ c0 = dma[d].src
      BY <1>5, <2>6, RecordFields
    <3>2. Done(s0, c0)' = Done(s0, c0) \cup {h}
      <4>1. \A x \in Dmas, k \in {"src", "dst"} :
                <<x, k>> \in Done(s0, c0)' <=> <<x, k>> \in Done(s0, c0) \cup {h}
        BY <2>1, <2>2, <3>1
      <4>2. Done(s0, c0) \cup {h} \in SUBSET (Dmas \X {"src", "dst"})
        BY <1>2, <2>3
      <4> QED
        BY <2>3, <4>1, <4>2, SameHalves
    <3>3. h \notin Done(s0, c0)
      BY <2>2
    <3>4. count' = Add(s0, c0)
      BY <1>1, <2>6, <3>1
    <3>5. \A s1 \in Sems, c1 \in Cores : s1 # s0 \/ c1 # c0 => Done(s1, c1)' = Done(s1, c1)
      BY <2>4, <3>1
    <3> HIDE DEF h
    <3> QED
      BY <1>0, <1>1, <3>2, <3>3, <3>4, <3>5, OneSignal
  <2> QED
    BY <2>5, <2>6
<1> QED
  BY <1>0, <1>6, <1>9, <1>10, <1>11, <1>12, <1>13, <1>14 DEF IInv

\* execute_write takes the lock of a DMA that was read.
LEMMA StartWriteInv ==
    ASSUME IInv, NEW c \in Cores, StartWrite(c), UNCHANGED dma_execution_mode
    PROVE  IInv'
<1>0. /\ TypeOK /\ ThreadsOK /\ LocksOK /\ QueuesOK /\ DataOK /\ IsFiniteSet(Started)
      /\ EachHalfSignalsOnce
  BY DEF IInv
<1> DEFINE d == task[c].dma
<1>1. /\ pc[c] = "write" /\ lock[d] = Free
      /\ UNCHANGED <<state, dma, data, srcbuf, count, tasks_by_sem, call, taken, waits>>
  BY DEF StartWrite
<1>2. /\ Started' = Started /\ \A s1, c1 : Done(s1, c1)' = Done(s1, c1)
  BY <1>1 DEF Started, Done, Halves, HalfDone
<1>3. /\ task[c] \in Tasks /\ task[c].dma = d /\ d \in Started /\ d \in Dmas
      /\ state[d] \in {"READ", "COMPLETED"}
      /\ dma_execution_mode # "eager" => call[c] \in Sems
  BY <1>0, <1>1 DEF ThreadsOK, Started
<1>4. EachHalfSignalsOnce' /\ QueuesOK'
  BY <1>0, <1>1, <1>2, NoSignal DEF QueuesOK
<1>5. CASE /\ state[d] # "COMPLETED" /\ lock' = [lock EXCEPT ![d] = c]
           /\ dstbuf' = [dstbuf EXCEPT ![d] = Carried(d)]
           /\ pc' = [pc EXCEPT ![c] = "put"] /\ UNCHANGED task
  <2> HIDE DEF d
  <2>1. state[d] = "READ" /\ Carried(d) = "old"
    BY <1>0, <1>3, <1>5 DEF Carried, DataOK
  <2>2. /\ \A e \in Cores : e # c => pc'[e] = pc[e]
        /\ \A x \in Dmas : x # d => lock'[x] = lock[x] /\ dstbuf'[x] = dstbuf[x]
        /\ pc'[c] = "put" /\ lock'[d] = c /\ dstbuf'[d] = "old"
    BY <1>0, <1>3, <1>5, <2>1 DEF TypeOK
  <2>3. TypeOK'
    BY <1>0, <1>1, <1>3, <1>5, <2>1 DEF TypeOK, Contents
  <2>4. \A e \in Cores : e # c => ~(pc[e] \in {"got", "put"} /\ task[e].dma = d)
    BY <1>0, <1>1, <1>3, TasksAssumption DEF LocksOK
  <2>5. LocksOK'
    BY <1>0, <1>1, <1>3, <1>5, <2>2, <2>4 DEF LocksOK
  <2>6. ThreadsOK'
    <3>1. \A e \in Cores : pc[e] \in {"got", "put"} => task[e].dma \in Dmas
      BY <1>0 DEF ThreadsOK, Started
    <3> QED
      BY <1>0, <1>1, <1>2, <1>3, <1>5, <2>1, <2>2, <2>4, <3>1 DEF ThreadsOK
  <2>7. DataOK'
    BY <1>0, <1>1, <2>1, <2>2 DEF DataOK
  <2> QED
    BY <1>0, <1>2, <1>4, <2>3, <2>5, <2>6, <2>7 DEF IInv
<1>6. CASE state[d] = "COMPLETED" /\ Return(c) /\ UNCHANGED <<lock, dstbuf>>
  <2>1. /\ pc' \in [Cores -> {"run", "append", "wait", "pop", "read", "got", "write", "put"}]
        /\ task' \in [Cores -> Tasks \cup {NoTask}]
        /\ \A e \in Cores : e # c => pc'[e] = pc[e] /\ task'[e] = task[e] /\ call'[e] = call[e]
        /\ \/ pc'[c] = "run"
           \/ pc'[c] = "wait" /\ dma_execution_mode # "eager"
    BY <1>0, <1>1, <1>6, ReturnMoves
  <2>2. UNCHANGED <<dma_execution_mode, dmaVars, dstbuf>>
    BY <1>1, <1>6 DEF dmaVars
  <2>3. ThreadsOK' /\ LocksOK'
    BY <1>1, <1>3, <2>1, <2>2, ThreadMoves
  <2>4. TypeOK' /\ DataOK'
    BY <1>0, <1>1, <1>6, <2>1 DEF TypeOK, DataOK
  <2> QED
    BY <1>0, <1>2, <1>4, <2>3, <2>4 DEF IInv
<1> QED
  BY <1>5, <1>6 DEF StartWrite

\* execute_write signals the receive semaphore when the data is written.
LEMMA FinishWriteInv ==
    ASSUME IInv, NEW c \in Cores, FinishWrite(c), UNCHANGED dma_execution_mode
    PROVE  IInv'
<1>0. /\ TypeOK /\ ThreadsOK /\ LocksOK /\ QueuesOK /\ DataOK /\ IsFiniteSet(Started)
      /\ EachHalfSignalsOnce
  BY DEF IInv
<1> DEFINE d == task[c].dma
<1>1. /\ pc[c] = "put" /\ count' = Add(dma[d].dst_sem, dma[d].dst)
      /\ data' = [data EXCEPT ![d] = "none"]
      /\ state' = [state EXCEPT ![d] = "COMPLETED"] /\ lock' = [lock EXCEPT ![d] = Free]
      /\ Return(c)
      /\ UNCHANGED <<dma, srcbuf, dstbuf, tasks_by_sem, call, taken, waits>>
  BY DEF FinishWrite
<1>2. /\ task[c] \in Tasks /\ task[c].dma = d /\ d \in Dmas /\ state[d] = "READ"
      /\ dstbuf[d] = "old" /\ lock[d] = c
      /\ dma_execution_mode # "eager" => call[c] \in Sems
  BY <1>0, <1>1 DEF ThreadsOK, LocksOK, Started
<1>3. /\ pc' \in [Cores -> {"run", "append", "wait", "pop", "read", "got", "write", "put"}]
      /\ task' \in [Cores -> Tasks \cup {NoTask}]
      /\ \A e \in Cores : e # c => pc'[e] = pc[e] /\ task'[e] = task[e]
      /\ \/ pc'[c] = "run"
         \/ pc'[c] = "wait" /\ dma_execution_mode # "eager"
  BY <1>0, <1>1, ReturnMoves
<1> HIDE DEF d
<1>4. /\ \A x \in Dmas : x # d => state'[x] = state[x] /\ lock'[x] = lock[x] /\ data'[x] = data[x]
      /\ state'[d] = "COMPLETED" /\ lock'[d] = Free
      /\ state' \in [Dmas -> {"unused", "STARTED", "READ", "COMPLETED"}]
      /\ lock' \in [Dmas -> Cores \cup {Free}] /\ data' \in [Dmas -> Contents]
  BY <1>0, <1>1, <1>2 DEF TypeOK, Contents
<1>5. PICK s0 \in Sems, c0 \in Cores : s0 = dma[d].dst_sem /\ c0 = dma[d].dst
  BY <1>0, <1>2, RecordFields DEF DataOK
<1>6. Started' = Started
  BY <1>2, <1>4 DEF Started
<1>7. \A e \in Cores : e # c => ~(pc[e] \in {"got", "put"} /\ task[e].dma = d)
  BY <1>0, <1>2 DEF LocksOK
<1>8. count' = Add(s0, c0) /\ count' \in [Sems -> [Cores -> Nat]]
  BY <1>0, <1>1, <1>5, AddType
<1>9. TypeOK'
  BY <1>0, <1>1, <1>3, <1>4, <1>8 DEF TypeOK
<1>10. LocksOK'
  BY <1>0, <1>2, <1>3, <1>4, <1>7, TasksAssumption DEF LocksOK
<1>11. ThreadsOK'
  <2>1. \A e \in Cores : pc[e] \in {"append", "read", "got", "write", "put"} => task[e].dma \in Dmas
    BY <1>0 DEF ThreadsOK, Started
  <2> QED
    BY <1>0, <1>1, <1>2, <1>3, <1>4, <1>6, <1>7, <2>1 DEF ThreadsOK, Started
<1>12. DataOK'
  BY <1>0, <1>1, <1>2, <1>4 DEF DataOK
<1>13. QueuesOK'
  BY <1>0, <1>1, <1>6 DEF QueuesOK
<1>14. EachHalfSignalsOnce'
  <2> DEFINE h == <<d, "dst">>
  <2>1. \A s1, c1 : \A x \in Dmas, k \in {"src", "dst"} : <<x, k>> # h =>
            (<<x, k>> \in Done(s1, c1)' <=> <<x, k>> \in Done(s1, c1))
    BY <1>1, <1>2, <1>4, DoneMembers, DoneMembersNext
  <2>2. \A s1, c1 : /\ h \notin Done(s1, c1)
                    /\ h \in Done(s1, c1)' <=> s0 = s1 /\ c0 = c1
    BY <1>1, <1>2, <1>4, <1>5, DoneMembers, DoneMembersNext
  <2>3. \A s1, c1 : Done(s1, c1)' \in SUBSET (Dmas \X {"src", "dst"})
                      /\ Done(s1, c1) \in SUBSET (Dmas \X {"src", "dst"})
    BY <1>6, DoneMembers, DoneMembersNext DEF Started
  <2>4. ASSUME NEW s1, NEW c1, ~(s0 = s1 /\ c0 = c1)
        PROVE  Done(s1, c1)' = Done(s1, c1)
    <3>1. \A x \in Dmas, k \in {"src", "dst"} : <<x, k>> \in Done(s1, c1)' <=> <<x, k>> \in Done(s1, c1)
      BY <2>1, <2>2, <2>4
    <3> QED
      BY <2>3, <3>1, SameHalves
  <2>5. Done(s0, c0)' = Done(s0, c0) \cup {h}
    <3>1. \A x \in Dmas, k \in {"src", "dst"} :
              <<x, k>> \in Done(s0, c0)' <=> <<x, k>> \in Done(s0, c0) \cup {h}
      BY <2>1, <2>2
    <3>2. Done(s0, c0) \cup {h} \in SUBSET (Dmas \X {"src", "dst"})
      BY <1>2, <2>3
    <3> QED
      BY <2>3, <3>1, <3>2, SameHalves
  <2>6. h \notin Done(s0, c0)
    BY <2>2
  <2>7. \A s1 \in Sems, c1 \in Cores : s1 # s0 \/ c1 # c0 => Done(s1, c1)' = Done(s1, c1)
    BY <2>4
  <2> HIDE DEF h
  <2> QED
    BY <1>0, <1>1, <1>8, <2>5, <2>6, <2>7, OneSignal
<1> QED
  BY <1>0, <1>6, <1>9, <1>10, <1>11, <1>12, <1>13, <1>14 DEF IInv

\* A DMA that starts has had no half executed.
LEMMA dma_startInv ==
    ASSUME IInv, NEW c \in Cores, NEW d \in Dmas, NEW r \in DmaRecords, dma_start(c, d, r),
           UNCHANGED dma_execution_mode
    PROVE  IInv'
<1>0. /\ TypeOK /\ ThreadsOK /\ LocksOK /\ QueuesOK /\ DataOK /\ IsFiniteSet(Started)
      /\ EachHalfSignalsOnce
  BY DEF IInv
<1> DEFINE rw == [dma |-> d, op |-> "execute_read_and_write"]
           ro == [dma |-> d, op |-> "execute_read"]
<1>1. /\ pc[c] = "run" /\ state[d] = "unused" /\ r.src = c
      /\ state' = [state EXCEPT ![d] = "STARTED"] /\ dma' = [dma EXCEPT ![d] = r]
      /\ UNCHANGED <<data, lock, srcbuf, dstbuf, count, call, taken, waits>>
  BY DEF dma_start
<1>2. \/ /\ dma_execution_mode = "eager"
         /\ task' = [task EXCEPT ![c] = rw] /\ pc' = [pc EXCEPT ![c] = "read"]
         /\ UNCHANGED tasks_by_sem
      \/ append_semaphore_task(r.dst_sem, r.dst, rw) /\ UNCHANGED <<pc, task>>
      \/ /\ r.src_sem # NoSem /\ append_semaphore_task(r.src_sem, c, ro)
         /\ task' = [task EXCEPT ![c] = rw] /\ pc' = [pc EXCEPT ![c] = "append"]
  BY DEF dma_start
<1>3. rw \in Tasks /\ ro \in Tasks /\ rw.dma = d /\ ro.dma = d
  BY DEF Tasks
<1>4. /\ \A x \in Dmas : x # d => state'[x] = state[x] /\ dma'[x] = dma[x]
      /\ state'[d] = "STARTED" /\ dma'[d] = r
      /\ state' \in [Dmas -> {"unused", "STARTED", "READ", "COMPLETED"}]
      /\ dma' \in [Dmas -> DmaRecords \cup {NoDma}]
  BY <1>0, <1>1 DEF TypeOK
<1>5. Started' = Started \cup {d} /\ d \notin Started
  BY <1>1, <1>4 DEF Started
<1>6. IsFiniteSet(Started')
  BY <1>0, <1>5, FS_AddElement
<1> HIDE DEF rw, ro
<1>7. /\ tasks_by_sem' \in [Sems -> [Cores -> Seq(Tasks)]] /\ QueuesOK'
  <2>1. CASE UNCHANGED tasks_by_sem
    BY <1>0, <1>5, <2>1 DEF TypeOK, QueuesOK
  <2>2. CASE append_semaphore_task(r.dst_sem, r.dst, rw)
    <3>1. r.dst_sem \in Sems /\ r.dst \in Cores /\ rw.dma \in Started'
      BY <1>3, <1>5, RecordFields
    <3> QED
      BY <1>0, <1>3, <1>5, <2>2, <3>1, PushTask
  <2>3. CASE r.src_sem # NoSem /\ append_semaphore_task(r.src_sem, c, ro)
    <3>1. r.src_sem \in Sems /\ ro.dma \in Started'
      BY <1>3, <1>5, <2>3, RecordFields
    <3> QED
      BY <1>0, <1>3, <1>5, <2>3, <3>1, PushTask
  <2> QED
    BY <1>2, <2>1, <2>2, <2>3
<1>8. /\ pc' \in [Cores -> {"run", "append", "wait", "pop", "read", "got", "write", "put"}]
      /\ task' \in [Cores -> Tasks \cup {NoTask}]
      /\ \A e \in Cores : e # c => pc'[e] = pc[e] /\ task'[e] = task[e]
      /\ \/ pc'[c] = "read" /\ task'[c] = rw /\ dma_execution_mode = "eager"
         \/ pc'[c] = "run"
         \/ pc'[c] = "append" /\ task'[c] = rw
  <2>0. /\ pc \in [Cores -> {"run", "append", "wait", "pop", "read", "got", "write", "put"}]
        /\ task \in [Cores -> Tasks \cup {NoTask}]
    BY <1>0 DEF TypeOK
  <2>1. CASE dma_execution_mode = "eager" /\ task' = [task EXCEPT ![c] = rw]
               /\ pc' = [pc EXCEPT ![c] = "read"]
    BY <1>3, <2>0, <2>1
  <2>2. CASE UNCHANGED <<pc, task>>
    BY <1>1, <2>0, <2>2
  <2>3. CASE task' = [task EXCEPT ![c] = rw] /\ pc' = [pc EXCEPT ![c] = "append"]
    BY <1>3, <2>0, <2>3
  <2> QED
    BY <1>2, <2>1, <2>2, <2>3
<1>9. TypeOK'
  BY <1>0, <1>1, <1>4, <1>7, <1>8 DEF TypeOK
<1>10. LocksOK'
  BY <1>0, <1>1, <1>8 DEF LocksOK
<1>11. ThreadsOK'
  <2>1. \A e \in Cores : pc[e] \in {"append", "read", "got", "write", "put"} =>
            /\ task[e].dma \in Dmas /\ task[e].dma # d
            /\ state'[task[e].dma] = state[task[e].dma]
    BY <1>0, <1>4, <1>5 DEF ThreadsOK, Started
  <2> QED
    BY <1>0, <1>1, <1>3, <1>5, <1>8, <2>1 DEF ThreadsOK
<1>12. DataOK'
  BY <1>0, <1>1, <1>4 DEF DataOK
<1>13. EachHalfSignalsOnce'
  <2>1. ASSUME NEW s1, NEW c1 PROVE Done(s1, c1)' = Done(s1, c1)
    <3>1. \A x \in Dmas, k \in {"src", "dst"} : <<x, k>> \in Done(s1, c1)' <=> <<x, k>> \in Done(s1, c1)
      BY <1>1, <1>4, DoneMembers, DoneMembersNext
    <3>2. Done(s1, c1)' \in SUBSET (Dmas \X {"src", "dst"})
            /\ Done(s1, c1) \in SUBSET (Dmas \X {"src", "dst"})
      BY DoneMembers, DoneMembersNext DEF Started
    <3> QED
      BY <3>1, <3>2, SameHalves
  <2> QED
    BY <1>0, <1>1, <2>1, NoSignal
<1> QED
  BY <1>6, <1>7, <1>9, <1>10, <1>11, <1>12, <1>13 DEF IInv

-----------------------------------------------------------------------------

\* Every step keeps the invariant.
LEMMA StepInv == IInv /\ [Next]_vars => IInv'
<1> SUFFICES ASSUME IInv, [Next]_vars PROVE IInv'
  OBVIOUS
<1>1. CASE UNCHANGED vars
  <2>1. UNCHANGED <<dmaVars, srcbuf, dstbuf, count, tasks_by_sem, pc, call, task, taken, waits,
                    dma_execution_mode>>
    BY <1>1 DEF vars
  <2>2. Started' = Started /\ \A s1, c1 : Done(s1, c1)' = Done(s1, c1)
    BY <2>1, DmasAlone
  <2>3. EachHalfSignalsOnce'
    BY <2>1, <2>2, NoSignal DEF IInv
  <2> QED
    BY <2>1, <2>2, <2>3
    DEF IInv, TypeOK, ThreadsOK, LocksOK, QueuesOK, DataOK, dmaVars
<1>2. ASSUME NEW c \in Cores, KernelStep(c) PROVE IInv'
  BY <1>2, dma_startInv, ReuseSourceInv, dma_waitInv DEF KernelStep
<1>3. ASSUME NEW c \in Cores, ThreadStep(c) PROVE IInv'
  BY <1>3, AppendSecondInv, CheckCountInv, PopTaskInv, StartReadInv, FinishReadInv,
     StartWriteInv, FinishWriteInv DEF ThreadStep
<1> QED
  BY <1>1, <1>2, <1>3 DEF Next

\* IInv is an invariant.
LEMMA Invariance == Spec => []IInv
<1> QED
  BY InitInv, StepInv, PTL DEF Spec

\* A receiver that was told of all its copies has their data.
LEMMA ArrivedData == IInv => WaitedForDataHasArrived
<1> SUFFICES ASSUME IInv, NEW d \in Dmas, state[d] # "unused",
                    Acknowledged(dma[d].dst_sem, dma[d].dst)
             PROVE  dstbuf[d] = "old"
  BY DEF WaitedForDataHasArrived
<1>0. TypeOK /\ DataOK /\ IsFiniteSet(Started) /\ EachHalfSignalsOnce
  BY DEF IInv
<1>1. dma[d].dst_sem \in Sems /\ dma[d].dst \in Cores
  BY <1>0, RecordFields DEF DataOK
<1>2. <<d, "dst">> \in Halves(dma[d].dst_sem, dma[d].dst)
  BY HalvesMembers
<1>3. HalfDone(<<d, "dst">>)
  BY <1>0, <1>1, <1>2, AcknowledgedIsDone
<1> QED
  BY <1>0, <1>3 DEF HalfDone, DataOK

\* For any cores, semaphores, DMAs and number of waits, whoever executes the
\* tasks: each half of a DMA signals once, the assertions of DMA.execute_write
\* hold, and a receiver that has waited has the data as it was sent.
THEOREM ExactCopies == Spec => []CopiesAreExact
<1>1. IInv => CopiesAreExact
  <2> SUFFICES ASSUME IInv PROVE CopiesAreExact
    OBVIOUS
  <2>1. ExecuteWriteAsserts
    BY DEF IInv, ThreadsOK, DataOK, TypeOK, ExecuteWriteAsserts, Started
  <2> QED
    BY <2>1, ArrivedData DEF IInv, CopiesAreExact
<1> QED
  BY <1>1, Invariance, PTL

-----------------------------------------------------------------------------
(* The threads implement AsyncCopy.                                        *)

\* The state that AsyncCopy sees, by DMA.
LEMMA CopyState ==
    ASSUME NEW d \in Dmas
    PROVE  /\ copyState[d] = IF lock[d] = Free THEN state[d]
                             ELSE IF state[d] = "STARTED" THEN "reading" ELSE "writing"
           /\ copyState'[d] = IF lock'[d] = Free THEN state'[d]
                              ELSE IF state'[d] = "STARTED" THEN "reading" ELSE "writing"
  BY DEF copyState

\* A step that shows on one DMA only.
LEMMA CopyStateStep ==
    ASSUME NEW d \in Dmas,
           \A x \in Dmas : x # d => state'[x] = state[x] /\ lock'[x] = lock[x]
    PROVE  copyState' = [copyState EXCEPT ![d] = copyState'[d]]
<1>1. copyState \in [Dmas -> {copyState[x] : x \in Dmas}] /\ DOMAIN copyState' = Dmas
  BY DEF copyState
<1> QED
  BY <1>1 DEF copyState

\* Every step of a thread is a step of the copy, or none.
LEMMA CopyStep == IInv /\ [Next]_vars => [Copy!Next]_(Copy!vars)
<1> SUFFICES ASSUME IInv, [Next]_vars PROVE Copy!Next \/ UNCHANGED Copy!vars
  OBVIOUS
<1>0. TypeOK /\ ThreadsOK /\ LocksOK /\ DataOK
  BY DEF IInv
<1>1. ASSUME UNCHANGED <<dmaVars, srcbuf, dstbuf, count>> PROVE UNCHANGED Copy!vars
  BY <1>1 DEF Copy!vars, copyState, dmaVars
<1>2. ASSUME UNCHANGED vars PROVE UNCHANGED Copy!vars
  BY <1>1, <1>2 DEF vars
<1>3. ASSUME NEW c \in Cores, NEW d \in Dmas, NEW r \in DmaRecords, dma_start(c, d, r)
      PROVE  Copy!Next
  <2>1. /\ state[d] = "unused" /\ state' = [state EXCEPT ![d] = "STARTED"]
        /\ dma' = [dma EXCEPT ![d] = r]
        /\ UNCHANGED <<data, lock, srcbuf, dstbuf, count>>
    BY <1>3 DEF dma_start
  <2>2. lock[d] = Free
    <3>1. lock[d] \in Cores \cup {Free}
      BY <1>0 DEF TypeOK
    <3>2. \A e \in Cores : lock[d] = e => state[d] # "unused"
      BY <1>0 DEF LocksOK, ThreadsOK, Started
    <3> QED
      BY <2>1, <3>1, <3>2
  <2>3. /\ \A x \in Dmas : x # d => state'[x] = state[x] /\ lock'[x] = lock[x]
        /\ state'[d] = "STARTED"
    BY <1>0, <2>1 DEF TypeOK
  <2>4. copyState[d] = "unused" /\ copyState'[d] = "STARTED"
    BY <2>1, <2>2, <2>3, CopyState
  <2>5. copyState' = [copyState EXCEPT ![d] = "STARTED"]
    BY <2>3, <2>4, CopyStateStep
  <2>6. Copy!Start(d, r)
    BY <2>1, <2>4, <2>5 DEF Copy!Start
  <2>7. r \in Copy!DmaRecords
    BY DEF DmaRecords, Copy!DmaRecords
  <2> QED
    BY <2>6, <2>7 DEF Copy!Next
<1>4. ASSUME NEW c \in Cores, NEW d \in Dmas, ReuseSource(c, d) PROVE Copy!Next
  <2>1. Copy!Reuse(d)
    BY <1>4 DEF ReuseSource, Copy!Reuse, copyState, dmaVars
  <2> QED
    BY <2>1 DEF Copy!Next
<1>5. ASSUME NEW c \in Cores, CheckCount(c) PROVE Copy!Next \/ UNCHANGED Copy!vars
  <2>1. CASE UNCHANGED count
    BY <1>1, <1>5, <2>1 DEF CheckCount
  <2>2. CASE Enough(c) /\ count' = [count EXCEPT ![call[c]][c] = @ - DataSize]
    <3>1. call[c] \in Sems
      BY <1>0, <1>5 DEF CheckCount, ThreadsOK
    <3>2. count[call[c]][c] \in Nat /\ DataSize \in Nat
      BY <1>0, <3>1, TasksAssumption DEF TypeOK
    <3>3. DataSize \in 0 .. count[call[c]][c] /\ count[call[c]][c] >= DataSize
      BY <2>2, <3>2 DEF Enough
    <3>4. PICK s \in Sems : s = call[c]
      BY <3>1
    <3>5. UNCHANGED <<dmaVars, srcbuf, dstbuf>>
      BY <1>5 DEF CheckCount
    <3>6. Copy!Take(s, c, DataSize)
      BY <2>2, <3>3, <3>4, <3>5 DEF Copy!Take, copyState, dmaVars
    <3> QED
      BY <3>3, <3>4, <3>6 DEF Copy!Next
  <2> QED
    BY <1>5, <2>1, <2>2 DEF CheckCount
<1>6. ASSUME NEW c \in Cores, StartRead(c) PROVE Copy!Next \/ UNCHANGED Copy!vars
  <2>1. CASE UNCHANGED <<lock, data>>
    BY <1>1, <1>6, <2>1 DEF StartRead, dmaVars
  <2>2. CASE /\ MayRead(c, task[c].dma) /\ lock' = [lock EXCEPT ![task[c].dma] = c]
             /\ data' = [data EXCEPT ![task[c].dma] = srcbuf[task[c].dma]]
    <3>1. PICK d \in Dmas : d = task[c].dma
      BY <1>0, <1>6 DEF StartRead, ThreadsOK, Started
    <3>2. /\ lock[d] = Free /\ state[d] = "STARTED"
          /\ lock' = [lock EXCEPT ![d] = c] /\ data' = [data EXCEPT ![d] = srcbuf[d]]
          /\ UNCHANGED <<state, dma, srcbuf, dstbuf, count>>
      BY <1>6, <2>2, <3>1 DEF StartRead, MayRead
    <3>3. /\ \A x \in Dmas : x # d => state'[x] = state[x] /\ lock'[x] = lock[x]
          /\ lock'[d] # Free /\ state'[d] = "STARTED"
      BY <1>0, <3>2, TasksAssumption DEF TypeOK
    <3>4. copyState[d] = "STARTED" /\ copyState'[d] = "reading"
      BY <3>2, <3>3, CopyState
    <3>5. copyState' = [copyState EXCEPT ![d] = "reading"]
      BY <3>3, <3>4, CopyStateStep
    <3>6. Copy!Read(d)
      BY <3>2, <3>4, <3>5 DEF Copy!Read
    <3> QED
      BY <3>6 DEF Copy!Next
  <2> QED
    BY <1>6, <2>1, <2>2 DEF StartRead
<1>7. ASSUME NEW c \in Cores, FinishRead(c) PROVE Copy!Next
  <2>1. PICK d \in Dmas : d = task[c].dma
    BY <1>0, <1>7 DEF FinishRead, ThreadsOK, Started
  <2>2. /\ count' = IF dma[d].src_sem = NoSem THEN count ELSE Add(dma[d].src_sem, dma[d].src)
        /\ state' = [state EXCEPT ![d] = "READ"] /\ lock' = [lock EXCEPT ![d] = Free]
        /\ UNCHANGED <<dma, data, srcbuf, dstbuf>>
    BY <1>7, <2>1 DEF FinishRead
  <2>3. state[d] = "STARTED" /\ lock[d] = c
    BY <1>0, <1>7, <2>1 DEF FinishRead, ThreadsOK, LocksOK
  <2>4. /\ \A x \in Dmas : x # d => state'[x] = state[x] /\ lock'[x] = lock[x]
        /\ lock'[d] = Free /\ state'[d] = "READ"
    BY <1>0, <2>2 DEF TypeOK
  <2>5. copyState[d] = "reading" /\ copyState'[d] = "READ"
    BY <2>3, <2>4, CopyState, TasksAssumption
  <2>6. copyState' = [copyState EXCEPT ![d] = "READ"]
    BY <2>4, <2>5, CopyStateStep
  <2>7. Copy!SignalRead(d)
    BY <2>2, <2>5, <2>6 DEF Copy!SignalRead, Copy!Add, Add
  <2> QED
    BY <2>7 DEF Copy!Next
<1>8. ASSUME NEW c \in Cores, StartWrite(c) PROVE Copy!Next \/ UNCHANGED Copy!vars
  <2>1. CASE UNCHANGED <<lock, dstbuf>>
    BY <1>1, <1>8, <2>1 DEF StartWrite, dmaVars
  <2>2. CASE /\ state[task[c].dma] # "COMPLETED" /\ lock' = [lock EXCEPT ![task[c].dma] = c]
             /\ dstbuf' = [dstbuf EXCEPT ![task[c].dma] = Carried(task[c].dma)]
    <3>1. PICK d \in Dmas : d = task[c].dma
      BY <1>0, <1>8 DEF StartWrite, ThreadsOK, Started
    <3>2. /\ lock[d] = Free /\ state[d] = "READ"
          /\ lock' = [lock EXCEPT ![d] = c] /\ dstbuf' = [dstbuf EXCEPT ![d] = data[d]]
          /\ UNCHANGED <<state, dma, data, srcbuf, count>>
      BY <1>0, <1>8, <2>2, <3>1 DEF StartWrite, Carried, ThreadsOK
    <3>3. /\ \A x \in Dmas : x # d => state'[x] = state[x] /\ lock'[x] = lock[x]
          /\ lock'[d] # Free /\ state'[d] = "READ"
      BY <1>0, <3>2, TasksAssumption DEF TypeOK
    <3>4. copyState[d] = "READ" /\ copyState'[d] = "writing"
      BY <3>2, <3>3, CopyState
    <3>5. copyState' = [copyState EXCEPT ![d] = "writing"]
      BY <3>3, <3>4, CopyStateStep
    <3>6. Copy!Write(d)
      BY <3>2, <3>4, <3>5 DEF Copy!Write
    <3> QED
      BY <3>6 DEF Copy!Next
  <2> QED
    BY <1>8, <2>1, <2>2 DEF StartWrite
<1>9. ASSUME NEW c \in Cores, FinishWrite(c) PROVE Copy!Next
  <2>1. PICK d \in Dmas : d = task[c].dma
    BY <1>0, <1>9 DEF FinishWrite, ThreadsOK, Started
  <2>2. /\ count' = Add(dma[d].dst_sem, dma[d].dst) /\ data' = [data EXCEPT ![d] = "none"]
        /\ state' = [state EXCEPT ![d] = "COMPLETED"] /\ lock' = [lock EXCEPT ![d] = Free]
        /\ UNCHANGED <<dma, srcbuf, dstbuf>>
    BY <1>9, <2>1 DEF FinishWrite
  <2>3. state[d] = "READ" /\ lock[d] = c
    BY <1>0, <1>9, <2>1 DEF FinishWrite, ThreadsOK, LocksOK
  <2>4. /\ \A x \in Dmas : x # d => state'[x] = state[x] /\ lock'[x] = lock[x]
        /\ lock'[d] = Free /\ state'[d] = "COMPLETED"
    BY <1>0, <2>2 DEF TypeOK
  <2>5. copyState[d] = "writing" /\ copyState'[d] = "COMPLETED"
    BY <2>3, <2>4, CopyState, TasksAssumption
  <2>6. copyState' = [copyState EXCEPT ![d] = "COMPLETED"]
    BY <2>4, <2>5, CopyStateStep
  <2>7. Copy!SignalWrite(d)
    BY <2>2, <2>5, <2>6 DEF Copy!SignalWrite, Copy!Add, Add
  <2> QED
    BY <2>7 DEF Copy!Next
<1>10. ASSUME NEW c \in Cores, AppendSecond(c) \/ PopTask(c) \/ \E s \in Sems : dma_wait(c, s)
       PROVE  UNCHANGED Copy!vars
  BY <1>1, <1>10 DEF AppendSecond, PopTask, dma_wait
<1> QED
  BY <1>2, <1>3, <1>4, <1>5, <1>6, <1>7, <1>8, <1>9, <1>10 DEF Next, KernelStep, ThreadStep

\* For any cores, semaphores and DMAs, the threads with their queues and locks
\* (Semaphore.wait, DMA.execute_read, DMA.execute_write) implement the copy of
\* AsyncCopy: it reads once, signals, writes once, signals.
THEOREM RefinesAsyncCopy == Spec => ImplementsAsyncCopy
<1>1. Init => Copy!Init
  BY DEF Init, Copy!Init, copyState
<1> QED
  BY <1>1, CopyStep, Invariance, PTL DEF Spec, ImplementsAsyncCopy, Copy!Spec
=============================================================================
