------------------------------ MODULE DmaTasks ------------------------------
(***************************************************************************)
(* How the threads of the TPU interpreter execute DMAs                     *)
(* (interpret/interpret_pallas_call.py, interpret/shared_memory.py).       *)
(*                                                                         *)
(* With dma_execution_mode "on_wait" a DMA is one or two tasks in the      *)
(* queues of its semaphores; a thread in Semaphore.wait with has_tasks     *)
(* runs tasks of its own queue, last in first out, until its count is      *)
(* large enough.  The two threads of a remote copy may run the two tasks   *)
(* of one DMA at the same time; DMA.lock and DMA.state decide who does     *)
(* what.  With "eager" the thread that starts the DMA runs all of it.      *)
(*                                                                         *)
(* A section under SharedMemory.lock or Semaphore.cv is one step.  The     *)
(* source buffer of a DMA is written again only after the wait on its send *)
(* semaphore, as a kernel without races does.                              *)
(***************************************************************************)
EXTENDS Integers, Sequences, FiniteSets

CONSTANTS Cores, Sems, NoSem, Dmas, DataSize, NoDma,
          Free,     \* DMA.lock is not held
          MaxWaits  \* bound on the waits of a core

ASSUME TasksAssumption ==
    /\ DataSize \in Nat \ {0} /\ NoSem \notin Sems /\ Free \notin Cores
    /\ MaxWaits \in Nat

VARIABLES
    dma_execution_mode, \* a field of InterpretParams, fixed for the kernel
    state, dma, data,   \* DMA.state, its arguments, DMA.data
    lock,               \* DMA.lock: the core whose thread holds it, or Free
    srcbuf, dstbuf,     \* the buffers of each DMA
    count,              \* Semaphore.count_by_core
    tasks_by_sem,
    pc,                 \* where the thread of a core is
    call,               \* the semaphore it waits on
    task,               \* the task it runs, or the second one it has to append
    taken, waits        \* history: amounts and number of finished waits

dmaVars == <<state, dma, data, lock>>
vars == <<dma_execution_mode, dmaVars, srcbuf, dstbuf, count, tasks_by_sem, pc, call, task, taken, waits>>

DmaRecords == {r \in [src : Cores, dst : Cores, src_sem : Sems \cup {NoSem}, dst_sem : Sems] :
                  r.src_sem = NoSem => r.dst = r.src}
Tasks == [dma : Dmas, op : {"execute_read", "execute_read_and_write"}]
NoTask == [op |-> "none"]

Init ==
    /\ dma_execution_mode \in {"on_wait", "eager"}
    /\ state = [d \in Dmas |-> "unused"]
    /\ dma = [d \in Dmas |-> NoDma]
    /\ data = [d \in Dmas |-> "none"]
    /\ lock = [d \in Dmas |-> Free]
    /\ srcbuf = [d \in Dmas |-> "old"]
    /\ dstbuf = [d \in Dmas |-> "none"]
    /\ count = [s \in Sems |-> [c \in Cores |-> 0]]
    /\ tasks_by_sem = [s \in Sems |-> [c \in Cores |-> << >>]]
    /\ pc = [c \in Cores |-> "run"]
    /\ call = [c \in Cores |-> NoSem]
    /\ task = [c \in Cores |-> NoTask]
    /\ taken = [s \in Sems |-> [c \in Cores |-> 0]]
    /\ waits = [c \in Cores |-> 0]

-----------------------------------------------------------------------------
(* What the DMAs owe to the semaphores.                                    *)

\* The halves of started DMAs that signal semaphore s on core c.
Halves(s, c) ==
    {<<d, "src">> : d \in {x \in Dmas : /\ state[x] # "unused"
                                        /\ dma[x].src_sem = s /\ dma[x].src = c}}
      \cup {<<d, "dst">> : d \in {x \in Dmas : /\ state[x] # "unused"
                                               /\ dma[x].dst_sem = s /\ dma[x].dst = c}}

HalfDone(h) == state[h[1]] \in (IF h[2] = "src" THEN {"READ", "COMPLETED"} ELSE {"COMPLETED"})

\* Core c has waited for everything that was to be signalled there.
Acknowledged(s, c) == taken[s][c] = DataSize * Cardinality(Halves(s, c))

-----------------------------------------------------------------------------

\* Mutant: the queue forgets the earlier tasks.
append_semaphore_task_only(s, c, t) ==
    tasks_by_sem' = [tasks_by_sem EXCEPT ![s][c] = <<t>>]

append_semaphore_task(s, c, t) ==
    tasks_by_sem' = [tasks_by_sem EXCEPT ![s][c] = Append(@, t)]

\* The DMA's task is given to the thread that starts it, to the queue of the
\* receiver, or to the queues of sender and receiver, in two steps.
dma_start(c, d, r) ==
    /\ pc[c] = "run"
    /\ state[d] = "unused" /\ r.src = c
    /\ state' = [state EXCEPT ![d] = "STARTED"]
    /\ dma' = [dma EXCEPT ![d] = r]
    /\ LET rw == [dma |-> d, op |-> "execute_read_and_write"]
           give(t, to) == task' = [task EXCEPT ![c] = t] /\ pc' = [pc EXCEPT ![c] = to]
       IN \/ /\ dma_execution_mode = "eager"
             /\ give(rw, "read")
             /\ UNCHANGED tasks_by_sem
          \/ /\ dma_execution_mode = "on_wait" /\ r.src_sem = NoSem
             /\ append_semaphore_task(r.dst_sem, r.dst, rw)
             /\ UNCHANGED <<pc, task>>
          \/ /\ dma_execution_mode = "on_wait" /\ r.src_sem # NoSem
             /\ append_semaphore_task(r.src_sem, c, [dma |-> d, op |-> "execute_read"])
             /\ give(rw, "append")
    /\ UNCHANGED <<data, lock, srcbuf, dstbuf, count, call, taken, waits>>

AppendSecond(c) ==
    /\ pc[c] = "append"
    /\ LET r == dma[task[c].dma] IN append_semaphore_task(r.dst_sem, r.dst, task[c])
    /\ pc' = [pc EXCEPT ![c] = "run"]
    /\ task' = [task EXCEPT ![c] = NoTask]
    /\ UNCHANGED <<dmaVars, srcbuf, dstbuf, count, call, taken, waits>>

\* A kernel that has waited for the read may write to the source again.
ReuseSource(c, d) ==
    /\ pc[c] = "run"
    /\ state[d] # "unused" /\ dma[d].src = c /\ srcbuf[d] = "old"
    /\ Acknowledged(IF dma[d].src_sem = NoSem THEN dma[d].dst_sem ELSE dma[d].src_sem, c)
    /\ srcbuf' = [srcbuf EXCEPT ![d] = "new"]
    /\ UNCHANGED <<dmaVars, dstbuf, count, tasks_by_sem, pc, call, task, taken, waits>>

-----------------------------------------------------------------------------

dma_wait(c, s) ==
    /\ pc[c] = "run" /\ waits[c] < MaxWaits
    /\ call' = [call EXCEPT ![c] = s]
    /\ waits' = [waits EXCEPT ![c] = @ + 1]
    /\ pc' = [pc EXCEPT ![c] = "wait"]
    /\ UNCHANGED <<dmaVars, srcbuf, dstbuf, count, tasks_by_sem, task, taken>>

Enough(c) == count[call[c]][c] >= DataSize

\* The loop of Semaphore.wait, under cv: return, or else look for a task.
CheckCount(c) ==
    LET s == call[c] IN
    /\ pc[c] = "wait"
    /\ \/ /\ Enough(c)
          /\ count' = [count EXCEPT ![s][c] = @ - DataSize]
          /\ taken' = [taken EXCEPT ![s][c] = @ + DataSize]
          /\ pc' = [pc EXCEPT ![c] = "run"]
       \/ /\ ~Enough(c)
          /\ pc' = [pc EXCEPT ![c] = "pop"]
          /\ UNCHANGED <<count, taken>>
    /\ UNCHANGED <<dmaVars, srcbuf, dstbuf, tasks_by_sem, call, task, waits>>

\* Under SharedMemory.lock: take the newest task, or check the count again.
PopTask(c) ==
    LET q == tasks_by_sem[call[c]][c] IN
    /\ pc[c] = "pop"
    /\ \/ /\ q # << >>
          /\ task' = [task EXCEPT ![c] = q[Len(q)]]
          /\ tasks_by_sem' = [tasks_by_sem EXCEPT ![call[c]][c] = SubSeq(q, 1, Len(q) - 1)]
          /\ pc' = [pc EXCEPT ![c] = "read"]
       \/ /\ q = << >>
          /\ pc' = [pc EXCEPT ![c] = "wait"]
          /\ UNCHANGED <<task, tasks_by_sem>>
    /\ UNCHANGED <<dmaVars, srcbuf, dstbuf, count, call, taken, waits>>

-----------------------------------------------------------------------------

\* The thread has run its task.
Return(c) ==
    /\ task' = [task EXCEPT ![c] = NoTask]
    /\ pc' = [pc EXCEPT ![c] = IF dma_execution_mode = "eager" THEN "run" ELSE "wait"]

AfterRead(c) ==
    IF task[c].op = "execute_read" THEN Return(c)
    ELSE pc' = [pc EXCEPT ![c] = "write"] /\ UNCHANGED task

Add(s, c) == [count EXCEPT ![s][c] = @ + DataSize]

\* Mutant: the state is not checked.
MayReadAgain(c, d) == TRUE

\* Only the first thread to get here reads.
MayRead(c, d) == state[d] = "STARTED"

\* Mutant: the source is looked up again.
CarriedMutant(d) == srcbuf[d]

\* What is stored in the destination.
Carried(d) == data[d]

\* DMA.execute_read: acquire the lock, look at the state, get the data ...
StartRead(c) ==
    LET d == task[c].dma IN
    /\ pc[c] = "read" /\ lock[d] = Free
    /\ \/ /\ MayRead(c, d)
          /\ lock' = [lock EXCEPT ![d] = c]
          /\ data' = [data EXCEPT ![d] = srcbuf[d]]
          /\ pc' = [pc EXCEPT ![c] = "got"]
          /\ UNCHANGED task
       \/ ~MayRead(c, d) /\ AfterRead(c) /\ UNCHANGED <<lock, data>>
    /\ UNCHANGED <<state, dma, srcbuf, dstbuf, count, tasks_by_sem, call, taken, waits>>

\* ... signal the send semaphore, set the state and release the lock.
FinishRead(c) ==
    LET d == task[c].dma IN
    /\ pc[c] = "got"
    /\ count' = IF dma[d].src_sem = NoSem THEN count ELSE Add(dma[d].src_sem, dma[d].src)
    /\ state' = [state EXCEPT ![d] = "READ"]
    /\ lock' = [lock EXCEPT ![d] = Free]
    /\ AfterRead(c)
    /\ UNCHANGED <<dma, data, srcbuf, dstbuf, tasks_by_sem, call, taken, waits>>

\* DMA.execute_write: acquire the lock, look at the state, store the data ...
StartWrite(c) ==
    LET d == task[c].dma IN
    /\ pc[c] = "write" /\ lock[d] = Free
    /\ \/ /\ state[d] # "COMPLETED"
          /\ lock' = [lock EXCEPT ![d] = c]
          /\ dstbuf' = [dstbuf EXCEPT ![d] = Carried(d)]
          /\ pc' = [pc EXCEPT ![c] = "put"]
          /\ UNCHANGED task
       \/ state[d] = "COMPLETED" /\ Return(c) /\ UNCHANGED <<lock, dstbuf>>
    /\ UNCHANGED <<state, dma, data, srcbuf, count, tasks_by_sem, call, taken, waits>>

\* ... signal the receive semaphore, drop the data, set the state, release.
FinishWrite(c) ==
    LET d == task[c].dma IN
    /\ pc[c] = "put"
    /\ count' = Add(dma[d].dst_sem, dma[d].dst)
    /\ data' = [data EXCEPT ![d] = "none"]
    /\ state' = [state EXCEPT ![d] = "COMPLETED"]
    /\ lock' = [lock EXCEPT ![d] = Free]
    /\ Return(c)
    /\ UNCHANGED <<dma, srcbuf, dstbuf, tasks_by_sem, call, taken, waits>>

\* What a thread does on its own, once its kernel has called dma_start or dma_wait.
ThreadStep(c) ==
    /\ \/ AppendSecond(c) \/ CheckCount(c) \/ PopTask(c)
       \/ StartRead(c) \/ FinishRead(c) \/ StartWrite(c) \/ FinishWrite(c)
    /\ UNCHANGED dma_execution_mode

\* What its kernel decides to do.
KernelStep(c) ==
    /\ \/ \E d \in Dmas, r \in DmaRecords : dma_start(c, d, r)
       \/ \E d \in Dmas : ReuseSource(c, d)
       \/ \E s \in Sems : dma_wait(c, s)
    /\ UNCHANGED dma_execution_mode

Next ==
    \E c \in Cores : KernelStep(c) \/ ThreadStep(c)

Spec == Init /\ [][Next]_vars

\* Every thread that can run is run again and again.
FairSpec == Spec /\ \A c \in Cores : WF_vars(ThreadStep(c))

-----------------------------------------------------------------------------

Contents == {"none", "old", "new"}

\* The types of the state of DMAs, semaphores and threads; a count is never
\* negative (Semaphore.wait).
TypeOK ==
    /\ state \in [Dmas -> {"unused", "STARTED", "READ", "COMPLETED"}]
    /\ dma \in [Dmas -> DmaRecords \cup {NoDma}]
    /\ data \in [Dmas -> Contents] /\ srcbuf \in [Dmas -> Contents]
    /\ dstbuf \in [Dmas -> Contents]
    /\ lock \in [Dmas -> Cores \cup {Free}]
    /\ count \in [Sems -> [Cores -> Nat]] /\ taken \in [Sems -> [Cores -> Nat]]
    /\ tasks_by_sem \in [Sems -> [Cores -> Seq(Tasks)]]
    /\ pc \in [Cores -> {"run", "append", "wait", "pop", "read", "got", "write", "put"}]
    /\ call \in [Cores -> Sems \cup {NoSem}]
    /\ task \in [Cores -> Tasks \cup {NoTask}]
    /\ waits \in [Cores -> Nat]

\* Every half of a DMA signals its semaphore exactly once, whoever executes
\* it: what is in the count or was waited for is what the finished halves sent.
EachHalfSignalsOnce ==
    \A s \in Sems, c \in Cores :
        count[s][c] + taken[s][c]
          = DataSize * Cardinality({h \in Halves(s, c) : HalfDone(h)})

\* When a core has waited for all that is to be signalled to it, its data has
\* arrived as it was when the copy was started, even if the sender wrote to
\* the source buffer after its own wait.
WaitedForDataHasArrived ==
    \A d \in Dmas :
        state[d] # "unused" /\ Acknowledged(dma[d].dst_sem, dma[d].dst) => dstbuf[d] = "old"

\* The assertions at the top of DMA.execute_write.
ExecuteWriteAsserts ==
    \A c \in Cores :
        LET d == task[c].dma IN
        pc[c] = "write" /\ lock[d] = Free =>
            /\ state[d] \in {"READ", "COMPLETED"}
            /\ state[d] = "READ" => data[d] # "none"

\* The started DMAs have sent or will send what core c waits for.
CanBeSatisfied(c) ==
    /\ pc[c] = "wait"
    /\ count[call[c]][c] + DataSize * Cardinality({h \in Halves(call[c], c) : ~HalfDone(h)})
         >= DataSize

\* A dma_wait that the started DMAs can satisfy returns, although each thread
\* only runs the tasks in its own queue (Semaphore.wait).
WaitReturns == \A c \in Cores : CanBeSatisfied(c) ~> pc[c] = "run"

-----------------------------------------------------------------------------
(* The DMA that AsyncCopy describes.                                       *)

copyState ==
    [d \in Dmas |-> IF lock[d] = Free THEN state[d]
                    ELSE IF state[d] = "STARTED" THEN "reading" ELSE "writing"]

Copy == INSTANCE AsyncCopy WITH state <- copyState

\* The threads implement the asynchronous copy.
ImplementsAsyncCopy == Copy!Spec

\* The threads carry out every copy exactly once and as it was started: counts are
\* what the finished halves sent, the assertions of execute_write hold, and a
\* receiver that was told so has its data.
CopiesAreExact ==
    TypeOK /\ EachHalfSignalsOnce /\ ExecuteWriteAsserts /\ WaitedForDataHasArrived
=============================================================================
