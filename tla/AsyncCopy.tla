----------------------------- MODULE AsyncCopy ------------------------------
(***************************************************************************)
(* What an asynchronous copy (a DMA) of the TPU interpreter promises, with *)
(* no threads, locks or task queues: it reads its source once, then tells  *)
(* the send semaphore, then writes its destination once, then tells the    *)
(* receive semaphore.  Module DmaTasks implements it, and module           *)
(* SharedMemoryClocks attaches vector clocks to these steps.               *)
(***************************************************************************)
EXTENDS Integers, FiniteSets

CONSTANTS Cores, Sems, NoSem, Dmas,
          DataSize,  \* data_size, what one half adds to its semaphore
          NoDma      \* the record of a DMA that was not started

VARIABLES
    state,   \* progress of each DMA
    dma,     \* its cores and semaphores
    data,    \* what it carries
    srcbuf,  \* its source buffer: "old" when it is started, "new" once reused
    dstbuf,  \* its destination buffer
    count    \* Semaphore.count_by_core

vars == <<state, dma, data, srcbuf, dstbuf, count>>

Contents == {"none", "old", "new"}

\* A copy has a send semaphore unless it stays on its core.
DmaRecords == {r \in [src : Cores, dst : Cores, src_sem : Sems \cup {NoSem}, dst_sem : Sems] :
                  r.src_sem = NoSem => r.dst = r.src}

Init ==
    /\ state = [d \in Dmas |-> "unused"]
    /\ dma = [d \in Dmas |-> NoDma]
    /\ data = [d \in Dmas |-> "none"]
    /\ srcbuf = [d \in Dmas |-> "old"]
    /\ dstbuf = [d \in Dmas |-> "none"]
    /\ count = [s \in Sems |-> [c \in Cores |-> 0]]

Start(d, r) ==
    /\ state[d] = "unused"
    /\ state' = [state EXCEPT ![d] = "STARTED"]
    /\ dma' = [dma EXCEPT ![d] = r]
    /\ UNCHANGED <<data, srcbuf, dstbuf, count>>

Read(d) ==
    /\ state[d] = "STARTED"
    /\ state' = [state EXCEPT ![d] = "reading"]
    /\ data' = [data EXCEPT ![d] = srcbuf[d]]
    /\ UNCHANGED <<dma, srcbuf, dstbuf, count>>

Add(s, c) == [count EXCEPT ![s][c] = @ + DataSize]

SignalRead(d) ==
    /\ state[d] = "reading"
    /\ state' = [state EXCEPT ![d] = "READ"]
    /\ count' = IF dma[d].src_sem = NoSem THEN count ELSE Add(dma[d].src_sem, dma[d].src)
    /\ UNCHANGED <<dma, data, srcbuf, dstbuf>>

Write(d) ==
    /\ state[d] = "READ"
    /\ state' = [state EXCEPT ![d] = "writing"]
    /\ dstbuf' = [dstbuf EXCEPT ![d] = data[d]]
    /\ UNCHANGED <<dma, data, srcbuf, count>>

SignalWrite(d) ==
    /\ state[d] = "writing"
    /\ state' = [state EXCEPT ![d] = "COMPLETED"]
    /\ data' = [data EXCEPT ![d] = "none"]
    /\ count' = Add(dma[d].dst_sem, dma[d].dst)
    /\ UNCHANGED <<dma, srcbuf, dstbuf>>

\* A core takes from its own count of a semaphore what is there.
Take(s, c, value) ==
    /\ count[s][c] >= value
    /\ count' = [count EXCEPT ![s][c] = @ - value]
    /\ UNCHANGED <<state, dma, data, srcbuf, dstbuf>>

\* The source buffer is written again.
Reuse(d) ==
    /\ srcbuf' = [srcbuf EXCEPT ![d] = "new"]
    /\ UNCHANGED <<state, dma, data, dstbuf, count>>

Next ==
    \/ \E d \in Dmas :
          \/ \E r \in DmaRecords : Start(d, r)
          \/ Read(d) \/ SignalRead(d) \/ Write(d) \/ SignalWrite(d) \/ Reuse(d)
    \/ \E s \in Sems, c \in Cores : \E value \in 0 .. count[s][c] : Take(s, c, value)

Spec == Init /\ [][Next]_vars
=============================================================================
