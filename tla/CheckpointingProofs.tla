------------------------ MODULE CheckpointingProofs -------------------------
(***************************************************************************)
(* For any number of processes, saves, failures and retries, a return      *)
(* without an exception means that the earlier saves are durable; and for  *)
(* any shards, a restore stays within its limit.                           *)
(***************************************************************************)
EXTENDS Checkpointing, FiniteSetTheorems, TLAPS

\* The types of everything but the limiters.
SaveTypes ==
    /\ process_count \in ProcessCounts
    /\ pc \in [Processes -> {"restore", "idle", "join", "get", "copy", "raised", "ended", "crashed"}]
    /\ final \in [Processes -> BOOLEAN] /\ save \in [Processes -> 0 .. MaxSaves]
    /\ _thread \in [Processes ->
           {"none", "commit", "enter", "barrier", "callback", "publish", "done"}]
    /\ _exception \in [Processes -> BOOLEAN]
    /\ _count \in [Processes -> Counts \union {NoCount}]
    /\ unique_count \in [Processes -> 0 .. MaxSaves]
    /\ barrier \in [Counts -> [arrived : SUBSET Processes, state : {"open", "passed", "failed"}]]
    /\ keys \subseteq Counts
    /\ written \in [Processes -> SUBSET (1 .. MaxSaves)] /\ callbacks \subseteq 1 .. MaxSaves
    /\ reported \subseteq Processes /\ failures \in 0 .. MaxFailures /\ timeouts \in BOOLEAN
    /\ retries \in [Processes -> 0 .. MaxRetries]

\* The counts of a process follow its saves, so that a count names the same
\* save in all processes.
CountsFollowSaves(p) == _count[p] = save[p] - 1 /\ unique_count[p] = save[p]

Active == {"commit", "enter", "barrier", "callback", "publish"}

\* A process saves again only when its commit thread was joined, and not more
\* often than its training loop asks for.
InPlace(p) ==
    /\ pc[p] \in {"get", "copy"} => _thread[p] = "none"
    /\ pc[p] = "restore" => save[p] = 0 /\ _thread[p] = "none"
    /\ pc[p] \in {"join", "get"} => (final[p] <=> save[p] = MaxSaves)
    /\ pc[p] = "copy" => save[p] < MaxSaves
    /\ pc[p] = "raised" => p \in reported
    /\ _thread[p] \in Active \union {"done"} => save[p] # 0

\* What has been written when a commit thread is at a certain place.
Committed(p) ==
    /\ _thread[p] \in {"enter", "barrier", "callback", "publish"} => save[p] \in written[p]
    /\ _thread[p] \in {"callback", "publish"} => \A q \in Processes : save[p] \in written[q]
    /\ _thread[p] = "publish" => save[p] \in callbacks

\* What a process that was given no exception may rely on.
Reliable(p) ==
    p \notin reported =>
        /\ \A n \in 1 .. (save[p] - 1) : Durable(n)
        /\ pc[p] \in {"copy", "ended"} => \A n \in 1 .. save[p] : Durable(n)
        /\ _thread[p] = "none" /\ pc[p] \in {"idle", "join"} => save[p] = 0
        /\ process_count = 1 /\ _thread[p] = "done" /\ ~_exception[p] => Durable(save[p])

\* Among several processes any may rely on it, since each waits for the key.
ReliableAmongMany(p) ==
    process_count > 1 =>
        /\ \A n \in 1 .. (save[p] - 1) : Durable(n)
        /\ pc[p] = "copy" => \A n \in 1 .. save[p] : Durable(n)

ProcessOK(p) ==
    CountsFollowSaves(p) /\ InPlace(p) /\ Committed(p) /\ Reliable(p) /\ ReliableAmongMany(p)

\* What stands behind a barrier that was passed, and behind a key that was set.
ServiceOK ==
    /\ \A k \in Counts :
        /\ \A p \in barrier[k].arrived : k + 1 \in written[p]
        /\ barrier[k].state = "passed" => barrier[k].arrived = Processes
    /\ \A k \in keys : Durable(k + 1)

SaveInv ==
    SaveTypes /\ (\A p \in Processes : ProcessOK(p)) /\ ServiceOK /\ CallbackAfterAllWrote

\* What the limiter of a process knows is what its shards hold.
LimiterOK(l) ==
    /\ l \in [max_bytes : Nat, available_bytes : Nat,
              shard : [Shards -> {"new", "waiting", "notified", "reading", "done"}]]
    /\ IsFiniteSet(Held(l)) /\ l.available_bytes = l.max_bytes - HeldBytes(l)
    /\ l.max_bytes = host_memory_bytes_limit \/ \E s \in Shards : l.max_bytes = Bytes[s]

LimiterInv ==
    /\ process_count \in Nat \ {0} /\ DOMAIN limiter = Processes
    /\ \A p \in Processes : LimiterOK(limiter[p])

IInv == SaveInv /\ LimiterInv

-----------------------------------------------------------------------------
(* Saves                                                                   *)

\* A step of process p: the others stay where they are.
Same(q) ==
    /\ pc'[q] = pc[q] /\ final'[q] = final[q] /\ save'[q] = save[q] /\ _thread'[q] = _thread[q]
    /\ _exception'[q] = _exception[q] /\ _count'[q] = _count[q]
    /\ unique_count'[q] = unique_count[q] /\ (q \in reported' <=> q \in reported)

\* What was written and committed stays so.
Grows ==
    /\ process_count' = process_count /\ callbacks \subseteq callbacks'
    /\ \A q \in Processes : written[q] \subseteq written'[q]

\* There is at least one process, and a single one is process 0.
LEMMA ProcessesType ==
    ASSUME process_count \in ProcessCounts
    PROVE  process_count \in Nat \ {0} /\ (process_count = 1 => Processes = {0})
  BY CheckpointingAssumption DEF Processes

\* A save that is durable stays durable.
LEMMA DurableStays ==
    ASSUME Grows
    PROVE  Processes' = Processes /\ \A n : Durable(n) => Durable(n)'
<1>1. Processes' = Processes
  BY DEF Grows, Processes
<1> QED
  BY <1>1 DEF Grows, Durable

\* A process that stays where it is keeps what it could rely on.
LEMMA SameIsOK ==
    ASSUME Grows, NEW q \in Processes, Same(q), ProcessOK(q)
    PROVE  ProcessOK(q)'
<1>1. Processes' = Processes /\ \A n : Durable(n) => Durable(n)'
  BY DurableStays
<1>2. CountsFollowSaves(q)'
  BY DEF Same, ProcessOK, CountsFollowSaves
<1>3. InPlace(q)'
  BY DEF Same, ProcessOK, InPlace
<1>4. Committed(q)'
  BY <1>1 DEF Same, ProcessOK, Committed, Grows
<1>5. Reliable(q)' /\ ReliableAmongMany(q)'
  BY <1>1 DEF Same, ProcessOK, Reliable, ReliableAmongMany, Grows
<1> QED
  BY <1>2, <1>3, <1>4, <1>5 DEF ProcessOK

\* A step of process p keeps the invariant if p itself keeps its part, and the
\* service and the callbacks keep theirs.
LEMMA OneProcessMoves ==
    ASSUME SaveInv, NEW p \in Processes, Grows, SaveTypes', ProcessOK(p)',
           \A q \in Processes : q # p => Same(q),
           (barrier' = barrier /\ keys' = keys) \/ ServiceOK',
           callbacks' = callbacks \/ CallbackAfterAllWrote'
    PROVE  SaveInv'
<1>0. (\A q \in Processes : ProcessOK(q)) /\ ServiceOK /\ CallbackAfterAllWrote /\ SaveTypes
  BY DEF SaveInv
<1>1. Processes' = Processes /\ \A n : Durable(n) => Durable(n)'
  BY DurableStays
<1>2. \A q \in Processes' : ProcessOK(q)'
  BY <1>0, <1>1, SameIsOK
<1>3. ServiceOK'
  <2>1. barrier \in [Counts -> [arrived : SUBSET Processes, state : {"open", "passed", "failed"}]]
    BY <1>0 DEF SaveTypes
  <2> QED
    BY <1>0, <1>1, <2>1 DEF ServiceOK, Grows
<1>4. CallbackAfterAllWrote'
  BY <1>0, <1>1 DEF CallbackAfterAllWrote, Grows
<1> QED
  BY <1>1, <1>2, <1>3, <1>4 DEF SaveInv

\* A step of the main thread of p leaves this alone.
Aside == <<process_count, save, _count, unique_count, service, written, callbacks>>

\* A step of the main thread that takes no save on.
LEMMA MainMoves ==
    ASSUME SaveInv, NEW p \in Processes, UNCHANGED Aside, SaveTypes',
           \A q \in Processes : q # p =>
               /\ pc'[q] = pc[q] /\ final'[q] = final[q] /\ _thread'[q] = _thread[q]
               /\ _exception'[q] = _exception[q] /\ (q \in reported' <=> q \in reported),
           _thread'[p] = _thread[p] \/ _thread'[p] \in {"none", "done"},
           InPlace(p)', Reliable(p)', ReliableAmongMany(p)'
    PROVE  SaveInv'
<1>1. Grows /\ barrier' = barrier /\ keys' = keys /\ callbacks' = callbacks
  BY DEF Grows, Aside, service
<1>2. \A q \in Processes : q # p => Same(q)
  BY DEF Same, Aside
<1>3. ProcessOK(p)
  BY DEF SaveInv
<1>4. CountsFollowSaves(p)'
  BY <1>3 DEF ProcessOK, CountsFollowSaves, Aside
<1>5. Committed(p)'
  <2>1. Processes' = Processes
    BY DEF Processes, Aside
  <2> QED
    BY <1>3, <2>1 DEF ProcessOK, Committed, Aside
<1>6. ProcessOK(p)'
  BY <1>4, <1>5 DEF ProcessOK
<1> QED
  BY <1>1, <1>2, <1>6, OneProcessMoves

\* The processes and what is durable stay when nothing is written.
LEMMA Frame ==
    ASSUME UNCHANGED Aside
    PROVE  Processes' = Processes /\ \A n : Durable(n)' <=> Durable(n)
<1>1. Processes' = Processes
  BY DEF Aside, Processes
<1> QED
  BY <1>1 DEF Aside, Durable

\* The saves do not depend on the restore that precedes them.
LEMMA EndRestoreInv ==
    ASSUME SaveInv, NEW p \in Processes, EndRestore(p)
    PROVE  SaveInv'
<1>0. SaveTypes /\ ProcessOK(p)
  BY DEF SaveInv
<1>1. /\ pc[p] = "restore" /\ pc' = [pc EXCEPT ![p] = "idle"]
      /\ UNCHANGED <<final, _thread, _exception, reported, failures, timeouts, retries>>
  BY DEF EndRestore, Goto, main, manager, history
<1>2. UNCHANGED Aside
  BY DEF EndRestore, Goto, Aside, main, manager, history, service
<1>3. SaveTypes'
  BY <1>0, <1>1, <1>2, Frame DEF SaveTypes, Aside, service
<1>4. InPlace(p)' /\ Reliable(p)' /\ ReliableAmongMany(p)'
  BY <1>0, <1>1, <1>2, Frame
  DEF SaveTypes, ProcessOK, InPlace, Reliable, ReliableAmongMany, Active, Aside
<1>5. \A q \in Processes : q # p =>
          /\ pc'[q] = pc[q] /\ final'[q] = final[q] /\ _thread'[q] = _thread[q]
          /\ _exception'[q] = _exception[q] /\ (q \in reported' <=> q \in reported)
  BY <1>0, <1>1 DEF SaveTypes
<1>6. _thread'[p] = _thread[p] \/ _thread'[p] \in {"none", "done"}
  BY <1>0, <1>1 DEF SaveTypes
<1> QED
  BY <1>2, <1>3, <1>4, <1>5, <1>6, MainMoves

\* A read that raises ends the process before its first save.
LEMMA ReadFailsInv ==
    ASSUME SaveInv, NEW p \in Processes, ReadFails(p)
    PROVE  SaveInv'
<1>0. SaveTypes /\ ProcessOK(p)
  BY DEF SaveInv
<1>1. /\ pc[p] = "restore" /\ pc' = [pc EXCEPT ![p] = "ended"]
      /\ reported' = reported \union {p} /\ failures < MaxFailures /\ failures' = failures + 1
      /\ UNCHANGED <<final, _thread, _exception, timeouts, retries>>
  BY DEF ReadFails, Goto, Failing, main, manager, history
<1>2. UNCHANGED Aside
  BY DEF ReadFails, Goto, Failing, Aside, main, manager, history, service
<1>7. failures' \in 0 .. MaxFailures
  BY <1>0, <1>1, CheckpointingAssumption DEF SaveTypes
<1>3. SaveTypes'
  BY <1>0, <1>1, <1>2, <1>7, Frame DEF SaveTypes, Aside, service
<1>4. InPlace(p)' /\ Reliable(p)' /\ ReliableAmongMany(p)'
  BY <1>0, <1>1, <1>2, Frame
  DEF SaveTypes, ProcessOK, InPlace, Reliable, ReliableAmongMany, Active, Aside
<1>5. \A q \in Processes : q # p =>
          /\ pc'[q] = pc[q] /\ final'[q] = final[q] /\ _thread'[q] = _thread[q]
          /\ _exception'[q] = _exception[q] /\ (q \in reported' <=> q \in reported)
  BY <1>0, <1>1 DEF SaveTypes
<1>6. _thread'[p] = _thread[p] \/ _thread'[p] \in {"none", "done"}
  BY <1>0, <1>1 DEF SaveTypes
<1> QED
  BY <1>2, <1>3, <1>4, <1>5, <1>6, MainMoves

\* A call begins where the training loop asks for it.
LEMMA CallInv ==
    ASSUME SaveInv, NEW p \in Processes, Call(p)
    PROVE  SaveInv'
<1>0. SaveTypes /\ ProcessOK(p)
  BY DEF SaveInv
<1>1. /\ pc[p] = "idle" /\ pc' = [pc EXCEPT ![p] = "join"]
      /\ final' = [final EXCEPT ![p] = save[p] = MaxSaves]
      /\ UNCHANGED <<_thread, _exception, reported, failures, timeouts, retries>>
  BY DEF Call, Goto, main, manager, history
<1>2. UNCHANGED Aside
  BY DEF Call, Goto, Aside, main, manager, history, service
<1>3. SaveTypes'
  BY <1>0, <1>1, <1>2, Frame DEF SaveTypes, Aside, service
<1>4. InPlace(p)' /\ Reliable(p)' /\ ReliableAmongMany(p)'
  BY <1>0, <1>1, <1>2, Frame
  DEF SaveTypes, ProcessOK, InPlace, Reliable, ReliableAmongMany, Active, Aside
<1>5. \A q \in Processes : q # p =>
          /\ pc'[q] = pc[q] /\ final'[q] = final[q] /\ _thread'[q] = _thread[q]
          /\ _exception'[q] = _exception[q] /\ (q \in reported' <=> q \in reported)
  BY <1>0, <1>1 DEF SaveTypes
<1>6. _thread'[p] = _thread[p] \/ _thread'[p] \in {"none", "done"}
  BY <1>0, <1>1 DEF SaveTypes
<1> QED
  BY <1>2, <1>3, <1>4, <1>5, <1>6, MainMoves

\* An exception that check_for_errors raises is reported.
LEMMA CheckForErrorsInv ==
    ASSUME SaveInv, NEW p \in Processes, CheckForErrors(p)
    PROVE  SaveInv'
<1>0. SaveTypes /\ ProcessOK(p)
  BY DEF SaveInv
<1>1. /\ pc[p] = "idle" /\ pc' = [pc EXCEPT ![p] = "raised"]
      /\ _exception' = [_exception EXCEPT ![p] = FALSE] /\ reported' = reported \union {p}
      /\ UNCHANGED <<final, _thread, failures, timeouts, retries>>
  BY DEF CheckForErrors, Raise, Goto, main, manager, history
<1>2. UNCHANGED Aside
  BY DEF CheckForErrors, Raise, Goto, Aside, main, manager, history, service
<1>3. SaveTypes'
  BY <1>0, <1>1, <1>2, Frame DEF SaveTypes, Aside, service
<1>4. InPlace(p)' /\ Reliable(p)' /\ ReliableAmongMany(p)'
  BY <1>0, <1>1, <1>2, Frame
  DEF SaveTypes, ProcessOK, InPlace, Reliable, ReliableAmongMany, Active, Aside
<1>5. \A q \in Processes : q # p =>
          /\ pc'[q] = pc[q] /\ final'[q] = final[q] /\ _thread'[q] = _thread[q]
          /\ _exception'[q] = _exception[q] /\ (q \in reported' <=> q \in reported)
  BY <1>0, <1>1 DEF SaveTypes
<1>6. _thread'[p] = _thread[p] \/ _thread'[p] \in {"none", "done"}
  BY <1>0, <1>1 DEF SaveTypes
<1> QED
  BY <1>2, <1>3, <1>4, <1>5, <1>6, MainMoves

\* A process whose wait for the key times out is told so.
LEMMA GetTimesOutInv ==
    ASSUME SaveInv, NEW p \in Processes, GetTimesOut(p)
    PROVE  SaveInv'
<1>0. SaveTypes /\ ProcessOK(p)
  BY DEF SaveInv
<1>1. /\ pc[p] = "get" /\ pc' = [pc EXCEPT ![p] = "raised"]
      /\ reported' = reported \union {p} /\ timeouts' = TRUE
      /\ UNCHANGED <<final, _thread, _exception, failures, retries>>
  BY DEF GetTimesOut, Raise, Goto, main, manager, history
<1>2. UNCHANGED Aside
  BY DEF GetTimesOut, Raise, Goto, Aside, main, manager, history, service
<1>3. SaveTypes'
  BY <1>0, <1>1, <1>2, Frame DEF SaveTypes, Aside, service
<1>4. InPlace(p)' /\ Reliable(p)' /\ ReliableAmongMany(p)'
  BY <1>0, <1>1, <1>2, Frame
  DEF SaveTypes, ProcessOK, InPlace, Reliable, ReliableAmongMany, Active, Aside
<1>5. \A q \in Processes : q # p =>
          /\ pc'[q] = pc[q] /\ final'[q] = final[q] /\ _thread'[q] = _thread[q]
          /\ _exception'[q] = _exception[q] /\ (q \in reported' <=> q \in reported)
  BY <1>0, <1>1 DEF SaveTypes
<1>6. _thread'[p] = _thread[p] \/ _thread'[p] \in {"none", "done"}
  BY <1>0, <1>1 DEF SaveTypes
<1> QED
  BY <1>2, <1>3, <1>4, <1>5, <1>6, MainMoves

\* A copy that raises leaves the counts as they are.
LEMMA CopyFailsInv ==
    ASSUME SaveInv, NEW p \in Processes, CopyFails(p)
    PROVE  SaveInv'
<1>0. SaveTypes /\ ProcessOK(p)
  BY DEF SaveInv
<1>1. /\ pc[p] = "copy" /\ pc' = [pc EXCEPT ![p] = "raised"]
      /\ reported' = reported \union {p} /\ failures < MaxFailures /\ failures' = failures + 1
      /\ UNCHANGED <<final, _thread, _exception, timeouts, retries>>
  BY DEF CopyFails, Raise, Goto, Failing, main, manager, history
<1>2. UNCHANGED Aside
  BY DEF CopyFails, Raise, Goto, Failing, Aside, main, manager, history, service
<1>7. failures' \in 0 .. MaxFailures
  BY <1>0, <1>1, CheckpointingAssumption DEF SaveTypes
<1>3. SaveTypes'
  BY <1>0, <1>1, <1>2, <1>7, Frame DEF SaveTypes, Aside, service
<1>4. InPlace(p)' /\ Reliable(p)' /\ ReliableAmongMany(p)'
  BY <1>0, <1>1, <1>2, Frame
  DEF SaveTypes, ProcessOK, InPlace, Reliable, ReliableAmongMany, Active, Aside
<1>5. \A q \in Processes : q # p =>
          /\ pc'[q] = pc[q] /\ final'[q] = final[q] /\ _thread'[q] = _thread[q]
          /\ _exception'[q] = _exception[q] /\ (q \in reported' <=> q \in reported)
  BY <1>0, <1>1 DEF SaveTypes
<1>6. _thread'[p] = _thread[p] \/ _thread'[p] \in {"none", "done"}
  BY <1>0, <1>1 DEF SaveTypes
<1> QED
  BY <1>2, <1>3, <1>4, <1>5, <1>6, MainMoves

\* A process may stop after an exception.
LEMMA StopInv ==
    ASSUME SaveInv, NEW p \in Processes, Stop(p)
    PROVE  SaveInv'
<1>0. SaveTypes /\ ProcessOK(p)
  BY DEF SaveInv
<1>1. /\ pc[p] = "raised" /\ pc' = [pc EXCEPT ![p] = "ended"]
      /\ UNCHANGED <<final, _thread, _exception, reported, failures, timeouts, retries>>
  BY DEF Stop, Goto, main, manager, history
<1>2. UNCHANGED Aside
  BY DEF Stop, Goto, Aside, main, manager, history, service
<1>3. SaveTypes'
  BY <1>0, <1>1, <1>2, Frame DEF SaveTypes, Aside, service
<1>4. InPlace(p)' /\ Reliable(p)' /\ ReliableAmongMany(p)'
  BY <1>0, <1>1, <1>2, Frame
  DEF SaveTypes, ProcessOK, InPlace, Reliable, ReliableAmongMany, Active, Aside
<1>5. \A q \in Processes : q # p =>
          /\ pc'[q] = pc[q] /\ final'[q] = final[q] /\ _thread'[q] = _thread[q]
          /\ _exception'[q] = _exception[q] /\ (q \in reported' <=> q \in reported)
  BY <1>0, <1>1 DEF SaveTypes
<1>6. _thread'[p] = _thread[p] \/ _thread'[p] \in {"none", "done"}
  BY <1>0, <1>1 DEF SaveTypes
<1> QED
  BY <1>2, <1>3, <1>4, <1>5, <1>6, MainMoves

\* A repeated call finds the counts of the first.
LEMMA RetryInv ==
    ASSUME SaveInv, NEW p \in Processes, Retry(p)
    PROVE  SaveInv'
<1>0. SaveTypes /\ ProcessOK(p)
  BY DEF SaveInv
<1>1. /\ pc[p] = "raised" /\ pc' = [pc EXCEPT ![p] = "idle"]
      /\ retries[p] < MaxRetries /\ retries' = [retries EXCEPT ![p] = @ + 1]
      /\ UNCHANGED <<final, _thread, _exception, reported, failures, timeouts>>
  BY DEF Retry, Goto, main, manager, history
<1>2. UNCHANGED Aside
  BY DEF Retry, Goto, Aside, main, manager, history, service
<1>7. retries' \in [Processes -> 0 .. MaxRetries]
  BY <1>0, <1>1, CheckpointingAssumption DEF SaveTypes
<1>3. SaveTypes'
  BY <1>0, <1>1, <1>2, <1>7, Frame DEF SaveTypes, Aside, service
<1>4. InPlace(p)' /\ Reliable(p)' /\ ReliableAmongMany(p)'
  BY <1>0, <1>1, <1>2, Frame
  DEF SaveTypes, ProcessOK, InPlace, Reliable, ReliableAmongMany, Active, Aside
<1>5. \A q \in Processes : q # p =>
          /\ pc'[q] = pc[q] /\ final'[q] = final[q] /\ _thread'[q] = _thread[q]
          /\ _exception'[q] = _exception[q] /\ (q \in reported' <=> q \in reported)
  BY <1>0, <1>1 DEF SaveTypes
<1>6. _thread'[p] = _thread[p] \/ _thread'[p] \in {"none", "done"}
  BY <1>0, <1>1 DEF SaveTypes
<1> QED
  BY <1>2, <1>3, <1>4, <1>5, <1>6, MainMoves

\* A crash confirms nothing.
LEMMA CrashInv ==
    ASSUME SaveInv, NEW p \in Processes, Crash(p)
    PROVE  SaveInv'
<1>0. SaveTypes /\ ProcessOK(p)
  BY DEF SaveInv
<1>1. /\ pc' = [pc EXCEPT ![p] = "crashed"] /\ _thread' = [_thread EXCEPT ![p] = "none"]
      /\ failures < MaxFailures /\ failures' = failures + 1
      /\ UNCHANGED <<final, _exception, reported, timeouts, retries>>
  BY DEF Crash, Goto, ThreadGoto, Failing, main, manager, history
<1>2. UNCHANGED Aside
  BY DEF Crash, Goto, ThreadGoto, Failing, Aside, main, manager, history, service
<1>7. failures' \in 0 .. MaxFailures
  BY <1>0, <1>1, CheckpointingAssumption DEF SaveTypes
<1>3. SaveTypes'
  BY <1>0, <1>1, <1>2, <1>7, Frame DEF SaveTypes, Aside, service
<1>4. InPlace(p)' /\ Reliable(p)' /\ ReliableAmongMany(p)'
  BY <1>0, <1>1, <1>2, Frame
  DEF SaveTypes, ProcessOK, InPlace, Reliable, ReliableAmongMany, Active, Aside
<1>5. \A q \in Processes : q # p =>
          /\ pc'[q] = pc[q] /\ final'[q] = final[q] /\ _thread'[q] = _thread[q]
          /\ _exception'[q] = _exception[q] /\ (q \in reported' <=> q \in reported)
  BY <1>0, <1>1 DEF SaveTypes
<1>6. _thread'[p] = _thread[p] \/ _thread'[p] \in {"none", "done"}
  BY <1>0, <1>1 DEF SaveTypes
<1> QED
  BY <1>2, <1>3, <1>4, <1>5, <1>6, MainMoves

\* A write that raises ends the commit thread with an exception.
LEMMA CommitFailsInv ==
    ASSUME SaveInv, NEW p \in Processes, CommitFails(p)
    PROVE  SaveInv'
<1>0. SaveTypes /\ ProcessOK(p)
  BY DEF SaveInv
<1>1. /\ _thread[p] = "commit" /\ _thread' = [_thread EXCEPT ![p] = "done"]
      /\ _exception' = [_exception EXCEPT ![p] = TRUE]
      /\ failures < MaxFailures /\ failures' = failures + 1
      /\ UNCHANGED <<pc, final, reported, timeouts, retries>>
  BY DEF CommitFails, ThreadRaises, ThreadGoto, Failing, main, manager, history
<1>2. UNCHANGED Aside
  BY DEF CommitFails, ThreadRaises, ThreadGoto, Failing, Aside, main, manager, history, service
<1>7. failures' \in 0 .. MaxFailures
  BY <1>0, <1>1, CheckpointingAssumption DEF SaveTypes
<1>3. SaveTypes'
  BY <1>0, <1>1, <1>2, <1>7, Frame DEF SaveTypes, Aside, service
<1>4. InPlace(p)' /\ Reliable(p)' /\ ReliableAmongMany(p)'
  BY <1>0, <1>1, <1>2, Frame
  DEF SaveTypes, ProcessOK, InPlace, Reliable, ReliableAmongMany, Active, Aside
<1>5. \A q \in Processes : q # p =>
          /\ pc'[q] = pc[q] /\ final'[q] = final[q] /\ _thread'[q] = _thread[q]
          /\ _exception'[q] = _exception[q] /\ (q \in reported' <=> q \in reported)
  BY <1>0, <1>1 DEF SaveTypes
<1>6. _thread'[p] = _thread[p] \/ _thread'[p] \in {"none", "done"}
  BY <1>0, <1>1 DEF SaveTypes
<1> QED
  BY <1>2, <1>3, <1>4, <1>5, <1>6, MainMoves

\* A callback that raises ends the commit thread with an exception.
LEMMA CallbackFailsInv ==
    ASSUME SaveInv, NEW p \in Processes, CallbackFails(p)
    PROVE  SaveInv'
<1>0. SaveTypes /\ ProcessOK(p)
  BY DEF SaveInv
<1>1. /\ _thread[p] = "callback" /\ _thread' = [_thread EXCEPT ![p] = "done"]
      /\ _exception' = [_exception EXCEPT ![p] = TRUE]
      /\ failures < MaxFailures /\ failures' = failures + 1
      /\ UNCHANGED <<pc, final, reported, timeouts, retries>>
  BY DEF CallbackFails, ThreadRaises, ThreadGoto, Failing, main, manager, history
<1>2. UNCHANGED Aside
  BY DEF CallbackFails, ThreadRaises, ThreadGoto, Failing, Aside, main, manager, history, service
<1>7. failures' \in 0 .. MaxFailures
  BY <1>0, <1>1, CheckpointingAssumption DEF SaveTypes
<1>3. SaveTypes'
  BY <1>0, <1>1, <1>2, <1>7, Frame DEF SaveTypes, Aside, service
<1>4. InPlace(p)' /\ Reliable(p)' /\ ReliableAmongMany(p)'
  BY <1>0, <1>1, <1>2, Frame
  DEF SaveTypes, ProcessOK, InPlace, Reliable, ReliableAmongMany, Active, Aside
<1>5. \A q \in Processes : q # p =>
          /\ pc'[q] = pc[q] /\ final'[q] = final[q] /\ _thread'[q] = _thread[q]
          /\ _exception'[q] = _exception[q] /\ (q \in reported' <=> q \in reported)
  BY <1>0, <1>1 DEF SaveTypes
<1>6. _thread'[p] = _thread[p] \/ _thread'[p] \in {"none", "done"}
  BY <1>0, <1>1 DEF SaveTypes
<1> QED
  BY <1>2, <1>3, <1>4, <1>5, <1>6, MainMoves

\* After the join, the exception of the commit thread is raised or there is
\* none; a single process then knows that its save is durable.
LEMMA JoinInv ==
    ASSUME SaveInv, NEW p \in Processes, Join(p)
    PROVE  SaveInv'
<1>0. SaveTypes /\ ProcessOK(p)
  BY DEF SaveInv
<1>1. /\ pc[p] = "join" /\ _thread[p] \in {"none", "done"}
      /\ _thread' = [_thread EXCEPT ![p] = "none"]
      /\ UNCHANGED <<final, failures, timeouts, retries>>
  BY DEF Join, ThreadGoto
<1>2. \/ /\ pc' = [pc EXCEPT ![p] = "raised"] /\ reported' = reported \union {p}
         /\ _exception' = [_exception EXCEPT ![p] = FALSE]
      \/ /\ ~_exception[p] /\ MustGetKey(p) /\ pc' = [pc EXCEPT ![p] = "get"]
         /\ UNCHANGED <<_exception, reported>>
      \/ /\ ~_exception[p] /\ ~MustGetKey(p)
         /\ pc' = [pc EXCEPT ![p] = IF final[p] THEN "ended" ELSE "copy"]
         /\ UNCHANGED <<_exception, reported>>
  BY DEF Join, Raise, Goto, HasError, Proceed
<1>3. UNCHANGED Aside
  BY DEF Join, Aside, service
<1>4. SaveTypes'
  BY <1>0, <1>1, <1>2, <1>3, Frame DEF SaveTypes, Aside, service
<1>5. \A q \in Processes : q # p =>
          /\ pc'[q] = pc[q] /\ final'[q] = final[q] /\ _thread'[q] = _thread[q]
          /\ _exception'[q] = _exception[q] /\ (q \in reported' <=> q \in reported)
  BY <1>0, <1>1, <1>2 DEF SaveTypes
<1>6. _thread'[p] = "none" /\ final'[p] = final[p] /\ save'[p] = save[p]
      /\ process_count' = process_count
      /\ (final[p] <=> save[p] = MaxSaves) /\ save[p] \in 0 .. MaxSaves
      /\ process_count \in Nat \ {0} /\ MaxSaves \in Nat
  BY <1>0, <1>1, <1>3, ProcessesType, CheckpointingAssumption
  DEF SaveTypes, ProcessOK, InPlace, Aside
<1>7. \A n : Durable(n)' <=> Durable(n)
  BY <1>3, Frame
<1>8. CASE pc'[p] = "raised" /\ p \in reported'
  <2>1. InPlace(p)' /\ Reliable(p)'
    BY <1>6, <1>8 DEF InPlace, Reliable, Active
  <2>2. ReliableAmongMany(p)'
    BY <1>0, <1>6, <1>7, <1>8 DEF ProcessOK, ReliableAmongMany
  <2> QED
    BY <1>3, <1>4, <1>5, <1>6, <2>1, <2>2, MainMoves
<1>9. CASE pc'[p] = "get" /\ UNCHANGED reported
  <2>1. InPlace(p)'
    BY <1>6, <1>9 DEF InPlace, Active
  <2>2. Reliable(p)' /\ ReliableAmongMany(p)'
    BY <1>0, <1>6, <1>7, <1>9 DEF ProcessOK, Reliable, ReliableAmongMany
  <2> QED
    BY <1>3, <1>4, <1>5, <1>6, <2>1, <2>2, MainMoves
<1>10. CASE /\ ~_exception[p] /\ ~MustGetKey(p) /\ UNCHANGED reported
            /\ pc'[p] = IF final[p] THEN "ended" ELSE "copy"
  <2>1. InPlace(p)'
    BY <1>6, <1>10 DEF InPlace, Active
  <2>2. process_count > 1 => save[p] = 0
    BY <1>0, <1>6, <1>10 DEF ProcessOK, CountsFollowSaves, MustGetKey, NoCount
  <2>3. p \notin reported => \A n \in 1 .. save[p] : Durable(n)
    <3>1. p \notin reported /\ save[p] # 0 => Durable(save[p])
      BY <1>0, <1>1, <1>6, <1>10, <2>2 DEF ProcessOK, Reliable
    <3> QED
      BY <1>0, <1>6, <3>1 DEF ProcessOK, Reliable
  <2>4. Reliable(p)'
    BY <1>0, <1>6, <1>7, <1>10, <2>3 DEF ProcessOK, Reliable
  <2>5. ReliableAmongMany(p)'
    BY <1>6, <2>2 DEF ReliableAmongMany
  <2> QED
    BY <1>3, <1>4, <1>5, <1>6, <2>1, <2>4, <2>5, MainMoves
<1> QED
  BY <1>0, <1>2, <1>8, <1>9, <1>10 DEF SaveTypes

\* The key of a count is set only after the callback of its save.
LEMMA GetKeyInv ==
    ASSUME SaveInv, NEW p \in Processes, GetKey(p)
    PROVE  SaveInv'
<1>0. SaveTypes /\ ProcessOK(p) /\ ServiceOK
  BY DEF SaveInv
<1>1. /\ pc[p] = "get" /\ _count[p] \in keys
      /\ pc' = [pc EXCEPT ![p] = IF final[p] THEN "ended" ELSE "copy"]
      /\ UNCHANGED <<final, _thread, _exception, reported, failures, timeouts, retries>>
  BY DEF GetKey, KeySet, Proceed, Goto, manager, history
<1>2. UNCHANGED Aside
  BY DEF GetKey, Aside, manager, history, service
<1>3. SaveTypes'
  BY <1>0, <1>1, <1>2, Frame DEF SaveTypes, Aside, service
<1>4. \A q \in Processes : q # p =>
          /\ pc'[q] = pc[q] /\ final'[q] = final[q] /\ _thread'[q] = _thread[q]
          /\ _exception'[q] = _exception[q] /\ (q \in reported' <=> q \in reported)
  BY <1>0, <1>1 DEF SaveTypes
<1>5. /\ _thread[p] = "none" /\ _thread'[p] = "none" /\ save'[p] = save[p]
      /\ (final[p] <=> save[p] = MaxSaves) /\ save[p] \in 0 .. MaxSaves /\ MaxSaves \in Nat
      /\ pc'[p] = IF final[p] THEN "ended" ELSE "copy"
      /\ _count[p] = save[p] - 1
  BY <1>0, <1>1, <1>2, CheckpointingAssumption
  DEF SaveTypes, ProcessOK, InPlace, CountsFollowSaves, Aside
<1>6. Durable(save[p])
  <2>1. Durable(_count[p] + 1) /\ _count[p] + 1 = save[p]
    BY <1>0, <1>1, <1>5 DEF ServiceOK
  <2> QED
    BY <2>1
<1>7. InPlace(p)'
  BY <1>5 DEF InPlace, Active
<1>8. \A n : Durable(n)' <=> Durable(n)
  BY <1>2, Frame
<1>9. Reliable(p)'
  BY <1>0, <1>1, <1>5, <1>6, <1>8 DEF ProcessOK, Reliable
<1>10. ReliableAmongMany(p)'
  BY <1>0, <1>2, <1>5, <1>6, <1>8 DEF ProcessOK, ReliableAmongMany, Aside
<1> QED
  BY <1>2, <1>3, <1>4, <1>5, <1>7, <1>9, <1>10, MainMoves

\* A new save takes the next count.
LEMMA SerializeInv ==
    ASSUME SaveInv, NEW p \in Processes, Serialize(p)
    PROVE  SaveInv'
<1>0. SaveTypes /\ ProcessOK(p)
  BY DEF SaveInv
<1>1. /\ pc[p] = "copy" /\ pc' = [pc EXCEPT ![p] = "idle"]
      /\ save' = [save EXCEPT ![p] = @ + 1]
      /\ _count' = [_count EXCEPT ![p] = unique_count[p]]
      /\ unique_count' = [unique_count EXCEPT ![p] = @ + 1]
      /\ _thread' = [_thread EXCEPT ![p] = "commit"]
      /\ UNCHANGED <<process_count, final, _exception, barrier, keys, written, callbacks, reported,
                     failures, timeouts, retries>>
  BY DEF Serialize, Goto, ThreadGoto, service, history
<1>2. /\ save[p] \in 0 .. MaxSaves /\ save[p] < MaxSaves /\ MaxSaves \in Nat
      /\ unique_count[p] = save[p] /\ unique_count[p] \in Counts
  BY <1>0, <1>1, CheckpointingAssumption
  DEF SaveTypes, ProcessOK, InPlace, CountsFollowSaves, Counts
<1>3. Processes' = Processes
  BY <1>1 DEF Processes
<1>4. Grows /\ \A q \in Processes : q # p => Same(q)
  BY <1>0, <1>1 DEF Grows, Same, SaveTypes
<1>5. SaveTypes'
  <2>1. /\ save' \in [Processes -> 0 .. MaxSaves] /\ unique_count' \in [Processes -> 0 .. MaxSaves]
        /\ _count' \in [Processes -> Counts \union {NoCount}]
    BY <1>0, <1>1, <1>2 DEF SaveTypes
  <2> QED
    BY <1>0, <1>1, <1>3, <2>1 DEF SaveTypes
<1>6. /\ save'[p] = save[p] + 1 /\ _count'[p] = save[p] /\ unique_count'[p] = save[p] + 1
      /\ pc'[p] = "idle" /\ _thread'[p] = "commit"
  BY <1>0, <1>1, <1>2 DEF SaveTypes
<1>7. CountsFollowSaves(p)'
  BY <1>2, <1>6 DEF CountsFollowSaves
<1>8. InPlace(p)'
  BY <1>2, <1>6 DEF InPlace
<1>9. Committed(p)'
  BY <1>6 DEF Committed
<1>10. \A n : Durable(n) => Durable(n)'
  BY <1>4, DurableStays
<1>11. Reliable(p)' /\ ReliableAmongMany(p)'
  BY <1>0, <1>1, <1>2, <1>6, <1>10 DEF ProcessOK, Reliable, ReliableAmongMany
<1>12. ProcessOK(p)'
  BY <1>7, <1>8, <1>9, <1>11 DEF ProcessOK
<1> QED
  BY <1>1, <1>4, <1>5, <1>12, OneProcessMoves

\* All that a process has to write of its save is written before the barrier.
LEMMA CommitFinishedInv ==
    ASSUME SaveInv, NEW p \in Processes, CommitFinished(p)
    PROVE  SaveInv'
<1>0. SaveTypes /\ ProcessOK(p)
  BY DEF SaveInv
<1>1. /\ _thread[p] = "commit" /\ written' = [written EXCEPT ![p] = @ \union {save[p]}]
      /\ _thread' = [_thread EXCEPT ![p] = IF process_count > 1 THEN "enter" ELSE "callback"]
      /\ UNCHANGED <<process_count, pc, final, save, _exception, _count, unique_count, barrier,
                     keys, callbacks, reported, failures, timeouts, retries>>
  BY DEF CommitFinished, ThreadGoto, service, main
<1>2. /\ save[p] \in 1 .. MaxSaves /\ process_count \in Nat \ {0}
      /\ (process_count = 1 => Processes = {0}) /\ Processes' = Processes
  BY <1>0, <1>1, ProcessesType, CheckpointingAssumption
  DEF SaveTypes, ProcessOK, InPlace, Active, Processes
<1>3. Grows /\ \A q \in Processes : q # p => Same(q)
  BY <1>0, <1>1 DEF Grows, Same, SaveTypes
<1>4. SaveTypes'
  <2>1. written' \in [Processes -> SUBSET (1 .. MaxSaves)]
    BY <1>0, <1>1, <1>2 DEF SaveTypes
  <2> QED
    BY <1>0, <1>1, <1>2, <2>1 DEF SaveTypes
<1>5. /\ _thread'[p] = (IF process_count > 1 THEN "enter" ELSE "callback")
      /\ save[p] \in written'[p]
  BY <1>0, <1>1 DEF SaveTypes
<1>6. CountsFollowSaves(p)' /\ InPlace(p)'
  BY <1>0, <1>1, <1>5 DEF ProcessOK, CountsFollowSaves, InPlace, Active
<1>7. Committed(p)'
  BY <1>1, <1>2, <1>5 DEF Committed
<1>8. \A n : Durable(n) => Durable(n)'
  BY <1>3, DurableStays
<1>9. Reliable(p)' /\ ReliableAmongMany(p)'
  BY <1>0, <1>1, <1>5, <1>8 DEF ProcessOK, Reliable, ReliableAmongMany
<1>10. ProcessOK(p)'
  BY <1>6, <1>7, <1>9 DEF ProcessOK
<1> QED
  BY <1>1, <1>3, <1>4, <1>10, OneProcessMoves

\* At the barrier of a count arrive only processes that wrote its save.
LEMMA EnterBarrierInv ==
    ASSUME SaveInv, NEW p \in Processes, EnterBarrier(p)
    PROVE  SaveInv'
<1>0. SaveTypes /\ ProcessOK(p) /\ ServiceOK
  BY DEF SaveInv
<1>1. /\ _thread[p] = "enter" /\ _thread' = [_thread EXCEPT ![p] = "barrier"]
      /\ UNCHANGED <<process_count, pc, final, save, _exception, _count, unique_count, keys,
                     written, callbacks, reported, failures, timeouts, retries>>
  BY DEF EnterBarrier, ThreadGoto, main, history
<1>2. /\ save[p] \in 1 .. MaxSaves /\ Processes' = Processes /\ _count[p] = save[p] - 1
      /\ _count[p] \in Counts /\ save[p] \in written[p]
  BY <1>0, <1>1, CheckpointingAssumption
  DEF SaveTypes, ProcessOK, InPlace, Committed, CountsFollowSaves, Active, Processes, Counts
<1>3. PICK k \in Counts : k = _count[p]
  BY <1>2
<1> DEFINE arrived == barrier[k].arrived \union {p}
           how == IF barrier[k].state = "open" /\ BarrierFull(arrived) THEN "passed"
                  ELSE barrier[k].state
<1>4. barrier' = [barrier EXCEPT ![k] = [arrived |-> arrived, state |-> how]]
  BY <1>3 DEF EnterBarrier
<1>5. /\ barrier \in [Counts -> [arrived : SUBSET Processes, state : {"open", "passed", "failed"}]]
      /\ arrived \in SUBSET Processes /\ how \in {"open", "passed", "failed"}
      /\ how = "passed" => arrived = Processes
  BY <1>0 DEF SaveTypes, ServiceOK, BarrierFull
<1>6. /\ barrier'[k].arrived = arrived /\ barrier'[k].state = how
      /\ \A j \in Counts : j # k => barrier'[j] = barrier[j]
      /\ barrier' \in [Counts -> [arrived : SUBSET Processes, state : {"open", "passed", "failed"}]]
  <2> HIDE DEF arrived, how
  <2> QED
    BY <1>4, <1>5
<1>7. Grows /\ \A q \in Processes : q # p => Same(q)
  BY <1>0, <1>1 DEF Grows, Same, SaveTypes
<1>8. \A n : Durable(n) => Durable(n)'
  BY <1>7, DurableStays
<1>9. SaveTypes'
  BY <1>0, <1>1, <1>2, <1>6 DEF SaveTypes
<1>10. ServiceOK'
  <2>1. \A q \in arrived : k + 1 \in written'[q]
    <3>1. k + 1 = save[p]
      BY <1>2, <1>3
    <3> QED
      BY <1>0, <1>1, <1>2, <3>1 DEF ServiceOK
  <2> HIDE DEF arrived, how
  <2>2. \A j \in Counts : /\ \A q \in barrier'[j].arrived : j + 1 \in written'[q]
                          /\ barrier'[j].state = "passed" => barrier'[j].arrived = Processes
    BY <1>0, <1>1, <1>5, <1>6, <2>1 DEF ServiceOK
  <2> QED
    BY <1>0, <1>1, <1>2, <1>8, <2>2 DEF ServiceOK
<1>11. _thread'[p] = "barrier"
  BY <1>0, <1>1 DEF SaveTypes
<1>12. CountsFollowSaves(p)' /\ InPlace(p)' /\ Committed(p)'
  BY <1>0, <1>1, <1>11 DEF ProcessOK, CountsFollowSaves, InPlace, Committed, Active
<1>13. Reliable(p)' /\ ReliableAmongMany(p)'
  BY <1>0, <1>1, <1>8, <1>11 DEF ProcessOK, Reliable, ReliableAmongMany
<1>14. ProcessOK(p)'
  BY <1>12, <1>13 DEF ProcessOK
<1> QED
  BY <1>1, <1>7, <1>9, <1>10, <1>14, OneProcessMoves

\* A barrier is passed when all processes have written the save.
LEMMA LeaveBarrierInv ==
    ASSUME SaveInv, NEW p \in Processes, LeaveBarrier(p)
    PROVE  SaveInv'
<1>0. SaveTypes /\ ProcessOK(p) /\ ServiceOK
  BY DEF SaveInv
<1>1. /\ _thread[p] = "barrier"
      /\ UNCHANGED <<process_count, pc, final, save, _count, unique_count, barrier, keys,
                     written, callbacks, reported, failures, timeouts, retries>>
  BY DEF LeaveBarrier, main, history, service
<1>2. \/ /\ barrier[_count[p]].state = "passed" /\ UNCHANGED _exception
         /\ _thread' = [_thread EXCEPT ![p] = IF p = 0 THEN "callback" ELSE "done"]
      \/ /\ _thread' = [_thread EXCEPT ![p] = "done"]
         /\ _exception' = [_exception EXCEPT ![p] = TRUE]
  BY DEF LeaveBarrier, ThreadRaises, ThreadGoto
<1>3. /\ save[p] \in 1 .. MaxSaves /\ Processes' = Processes /\ _count[p] = save[p] - 1
      /\ _count[p] \in Counts /\ save[p] \in written[p]
      /\ process_count = 1 => Processes = {0}
  BY <1>0, <1>1, CheckpointingAssumption, ProcessesType
  DEF SaveTypes, ProcessOK, InPlace, Committed, CountsFollowSaves, Active, Processes, Counts
<1>4. Grows /\ \A q \in Processes : q # p => Same(q)
  BY <1>0, <1>1, <1>2 DEF Grows, Same, SaveTypes
<1>5. \A n : Durable(n) => Durable(n)'
  BY <1>4, DurableStays
<1>6. SaveTypes'
  BY <1>0, <1>1, <1>2, <1>3 DEF SaveTypes
<1>7. \/ _thread'[p] = "done" /\ (_exception'[p] \/ p # 0)
      \/ _thread'[p] = "callback" /\ barrier[_count[p]].state = "passed"
  BY <1>0, <1>2 DEF SaveTypes
<1>8. barrier[_count[p]].state = "passed" => \A q \in Processes : save[p] \in written[q]
  <2>1. PICK k \in Counts : k = _count[p]
    BY <1>3
  <2>2. k + 1 = save[p]
    BY <1>3, <2>1
  <2> QED
    BY <1>0, <2>1, <2>2 DEF ServiceOK
<1>9. CountsFollowSaves(p)' /\ InPlace(p)'
  BY <1>0, <1>1, <1>7 DEF ProcessOK, CountsFollowSaves, InPlace, Active
<1>10. Committed(p)'
  BY <1>1, <1>3, <1>7, <1>8 DEF Committed
<1>11. Reliable(p)' /\ ReliableAmongMany(p)'
  BY <1>0, <1>1, <1>3, <1>5, <1>7 DEF ProcessOK, Reliable, ReliableAmongMany
<1>12. ProcessOK(p)'
  BY <1>9, <1>10, <1>11 DEF ProcessOK
<1> QED
  BY <1>1, <1>4, <1>6, <1>12, OneProcessMoves

\* The callback follows a barrier that was passed, and makes the save durable.
LEMMA CallbackInv ==
    ASSUME SaveInv, NEW p \in Processes, Callback(p)
    PROVE  SaveInv'
<1>0. SaveTypes /\ ProcessOK(p) /\ CallbackAfterAllWrote
  BY DEF SaveInv
<1>1. /\ _thread[p] = "callback" /\ callbacks' = callbacks \union {save[p]}
      /\ _thread' = [_thread EXCEPT ![p] = IF process_count > 1 THEN "publish" ELSE "done"]
      /\ UNCHANGED <<process_count, pc, final, save, _exception, _count, unique_count, barrier,
                     keys, written, reported, failures, timeouts, retries>>
  BY DEF Callback, ThreadGoto, service, main
<1>2. /\ save[p] \in 1 .. MaxSaves /\ Processes' = Processes
      /\ \A q \in Processes : save[p] \in written[q]
  BY <1>0, <1>1, CheckpointingAssumption
  DEF SaveTypes, ProcessOK, InPlace, Committed, Active, Processes
<1>3. Grows /\ \A q \in Processes : q # p => Same(q)
  BY <1>0, <1>1 DEF Grows, Same, SaveTypes
<1>4. SaveTypes'
  BY <1>0, <1>1, <1>2 DEF SaveTypes
<1>5. CallbackAfterAllWrote'
  BY <1>0, <1>1, <1>2 DEF CallbackAfterAllWrote
<1>6. _thread'[p] = IF process_count > 1 THEN "publish" ELSE "done"
  BY <1>0, <1>1 DEF SaveTypes
<1>7. (\A n : Durable(n) => Durable(n)') /\ Durable(save[p])'
  <2>1. Durable(save[p])'
    BY <1>1, <1>2 DEF Durable
  <2> QED
    BY <1>1, <1>3, <2>1, DurableStays
<1>8. CountsFollowSaves(p)' /\ InPlace(p)' /\ Committed(p)'
  BY <1>0, <1>1, <1>2, <1>6 DEF ProcessOK, CountsFollowSaves, InPlace, Committed, Active
<1>9. Reliable(p)' /\ ReliableAmongMany(p)'
  BY <1>0, <1>1, <1>6, <1>7 DEF ProcessOK, Reliable, ReliableAmongMany
<1>10. ProcessOK(p)'
  BY <1>8, <1>9 DEF ProcessOK
<1> QED
  BY <1>1, <1>3, <1>4, <1>5, <1>10, OneProcessMoves

\* The key is set after the callback.
LEMMA PublishInv ==
    ASSUME SaveInv, NEW p \in Processes, Publish(p)
    PROVE  SaveInv'
<1>0. SaveTypes /\ ProcessOK(p) /\ ServiceOK
  BY DEF SaveInv
<1>1. /\ _thread[p] = "publish" /\ keys' = keys \union {_count[p]}
      /\ _thread' = [_thread EXCEPT ![p] = "done"]
      /\ UNCHANGED <<process_count, pc, final, save, _exception, _count, unique_count, barrier,
                     written, callbacks, reported, failures, timeouts, retries>>
  BY DEF Publish, SuccessKey, ThreadGoto, history, main
<1>2. /\ save[p] \in 1 .. MaxSaves /\ Processes' = Processes /\ _count[p] = save[p] - 1
      /\ _count[p] \in Counts /\ Durable(save[p])
  BY <1>0, <1>1, CheckpointingAssumption
  DEF SaveTypes, ProcessOK, InPlace, Committed, CountsFollowSaves, Active, Processes, Counts, Durable
<1>3. Grows /\ \A q \in Processes : q # p => Same(q)
  BY <1>0, <1>1 DEF Grows, Same, SaveTypes
<1>4. \A n : Durable(n) => Durable(n)'
  BY <1>3, DurableStays
<1>5. SaveTypes'
  BY <1>0, <1>1, <1>2 DEF SaveTypes
<1>6. ServiceOK'
  <2>1. _count[p] + 1 = save[p]
    BY <1>2
  <2>2. \A k \in keys' : Durable(k + 1)
    BY <1>0, <1>1, <1>2, <2>1 DEF ServiceOK
  <2> QED
    BY <1>0, <1>1, <1>2, <1>4, <2>2 DEF ServiceOK
<1>7. _thread'[p] = "done"
  BY <1>0, <1>1 DEF SaveTypes
<1>8. CountsFollowSaves(p)' /\ InPlace(p)' /\ Committed(p)'
  BY <1>0, <1>1, <1>7 DEF ProcessOK, CountsFollowSaves, InPlace, Committed, Active
<1>9. Reliable(p)' /\ ReliableAmongMany(p)'
  BY <1>0, <1>1, <1>2, <1>4, <1>7 DEF ProcessOK, Reliable, ReliableAmongMany
<1>10. ProcessOK(p)'
  BY <1>8, <1>9 DEF ProcessOK
<1> QED
  BY <1>1, <1>3, <1>5, <1>6, <1>10, OneProcessMoves

\* A barrier that times out fails for everybody who is still in it.
LEMMA BarrierTimesOutInv ==
    ASSUME SaveInv, NEW k \in Counts, BarrierTimesOut(k)
    PROVE  SaveInv'
<1>0. SaveTypes /\ ServiceOK /\ CallbackAfterAllWrote /\ \A p \in Processes : ProcessOK(p)
  BY DEF SaveInv
<1>1. /\ barrier' = [barrier EXCEPT ![k].state = "failed"] /\ timeouts' = TRUE
      /\ UNCHANGED <<process_count, pc, final, save, _thread, _exception, _count, unique_count,
                     keys, written, callbacks, reported, failures, retries>>
  BY DEF BarrierTimesOut, main, manager
<1>2. Processes' = Processes /\ Grows /\ \A q \in Processes : Same(q)
  BY <1>1 DEF Grows, Same, Processes
<1>3. /\ barrier' \in [Counts -> [arrived : SUBSET Processes, state : {"open", "passed", "failed"}]]
      /\ \A j \in Counts : /\ barrier'[j].arrived = barrier[j].arrived
                           /\ barrier'[j].state = IF j = k THEN "failed" ELSE barrier[j].state
  BY <1>0, <1>1 DEF SaveTypes
<1>4. \A n : Durable(n) => Durable(n)'
  BY <1>2, DurableStays
<1>5. SaveTypes'
  BY <1>0, <1>1, <1>2, <1>3 DEF SaveTypes
<1>6. ServiceOK'
  BY <1>0, <1>1, <1>2, <1>3, <1>4 DEF ServiceOK
<1>7. CallbackAfterAllWrote'
  BY <1>0, <1>1, <1>2 DEF CallbackAfterAllWrote
<1>8. \A p \in Processes : ProcessOK(p)'
  BY <1>0, <1>2, SameIsOK
<1> QED
  BY <1>2, <1>5, <1>6, <1>7, <1>8 DEF SaveInv

\* A step that touches nothing of the saves: a restore, or none.
LEMMA SavesAlone ==
    ASSUME SaveInv, UNCHANGED <<process_count, main, manager, service, history>>
    PROVE  SaveInv'
<1>0. SaveTypes /\ ServiceOK /\ CallbackAfterAllWrote /\ \A p \in Processes : ProcessOK(p)
  BY DEF SaveInv
<1>1. UNCHANGED <<process_count, pc, final, save, _thread, _exception, _count, unique_count, barrier,
                  keys, written, callbacks, reported, failures, timeouts, retries>>
  BY DEF main, manager, service, history
<1>2. Processes' = Processes /\ Grows /\ \A q \in Processes : Same(q)
  BY <1>1 DEF Grows, Same, Processes
<1>3. SaveTypes' /\ CallbackAfterAllWrote'
  BY <1>0, <1>1, <1>2 DEF SaveTypes, CallbackAfterAllWrote
<1>4. ServiceOK'
  BY <1>0, <1>1, <1>2, DurableStays DEF ServiceOK
<1>5. \A p \in Processes : ProcessOK(p)'
  BY <1>0, <1>2, SameIsOK
<1> QED
  BY <1>2, <1>3, <1>4, <1>5 DEF SaveInv

\* SaveInv holds before the restore.
LEMMA SaveInit == Init => SaveInv
<1> SUFFICES ASSUME Init PROVE SaveInv
  OBVIOUS
<1>1. process_count \in ProcessCounts
  BY DEF Init
<1>2. SaveTypes
  <2>1. /\ 0 \in 0 .. MaxSaves /\ 0 \in 0 .. MaxFailures /\ 0 \in 0 .. MaxRetries
    BY CheckpointingAssumption
  <2>2. barrier \in [Counts -> [arrived : SUBSET Processes, state : {"open", "passed", "failed"}]]
    BY DEF Init
  <2> QED
    BY <2>1, <2>2 DEF Init, SaveTypes
<1>3. ServiceOK /\ CallbackAfterAllWrote
  BY DEF Init, ServiceOK, CallbackAfterAllWrote
<1>4. \A p \in Processes : ProcessOK(p)
  BY CheckpointingAssumption
  DEF Init, ProcessOK, CountsFollowSaves, InPlace, Committed, Reliable, ReliableAmongMany, NoCount, Active
<1> QED
  BY <1>2, <1>3, <1>4 DEF SaveInv

\* Every step of a process, of a failure or of the restore preserves SaveInv.
LEMMA SaveStep == SaveInv /\ [Next]_vars => SaveInv'
<1> SUFFICES ASSUME SaveInv, [Next]_vars PROVE SaveInv'
  OBVIOUS
<1>1. CASE UNCHANGED vars
  BY <1>1, SavesAlone DEF vars
<1>2. ASSUME NEW p \in Processes, MainStep(p) PROVE SaveInv'
  <2>1. ASSUME NEW s \in Shards, RestoreShard(p, s) PROVE SaveInv'
    BY <2>1, SavesAlone DEF RestoreShard
  <2> QED
    BY <1>2, <2>1, EndRestoreInv, CallInv, JoinInv, GetKeyInv, SerializeInv, StopInv, RetryInv
    DEF MainStep
<1>3. ASSUME NEW p \in Processes, ThreadStep(p) PROVE SaveInv'
  BY <1>3, CommitFinishedInv, EnterBarrierInv, LeaveBarrierInv, CallbackInv, PublishInv DEF ThreadStep
<1>4. ASSUME NEW p \in Processes, Failure(p) PROVE SaveInv'
  BY <1>4, ReadFailsInv, CopyFailsInv, CommitFailsInv, CallbackFailsInv, CrashInv DEF Failure
<1>5. ASSUME NEW p \in Processes, CheckForErrors(p) \/ GetTimesOut(p) PROVE SaveInv'
  BY <1>5, CheckForErrorsInv, GetTimesOutInv
<1>6. ASSUME NEW k \in Counts, BarrierTimesOut(k) PROVE SaveInv'
  BY <1>6, BarrierTimesOutInv
<1> QED
  BY <1>1, <1>2, <1>3, <1>4, <1>5, <1>6 DEF Next

\* SaveInv is an invariant.
LEMMA SavesInvariant == Spec => []SaveInv
<1> QED
  BY SaveInit, SaveStep, PTL DEF Spec

\* For any number of processes, saves, failures, crashes and retries, the commit
\* callback of a save (on_commit_callback in _thread_func) runs after all
\* processes have written it.
THEOREM CallbacksComeLast == Spec => []CallbackAfterAllWrote
<1>1. SaveInv => CallbackAfterAllWrote
  BY DEF SaveInv
<1> QED
  BY <1>1, SavesInvariant, PTL

\* For any number of processes, saves, failures, crashes and retries, serialize
\* and wait_until_finished return without an exception only when the earlier
\* saves are durable, and no save follows a lost one among several processes.
THEOREM ReturnsMeanDurable == Spec => []ReturnMeansDurable
<1>1. SaveInv => ReturnMeansDurable
  BY DEF SaveInv, ProcessOK, Reliable, ReliableAmongMany, ReturnMeansDurable, WaitMeansDurable,
         NoSaveOnTopOfALostOne
<1> QED
  BY <1>1, SavesInvariant, PTL

-----------------------------------------------------------------------------
(* The limiter of a restore                                                *)

Part(s) == {s} \X (1 .. Bytes[s])

\* A shard has as many bytes as Bytes says.
LEMMA PartSize ==
    ASSUME NEW s \in Shards
    PROVE  Bytes[s] \in Nat /\ IsFiniteSet(Part(s)) /\ Cardinality(Part(s)) = Bytes[s]
<1>1. Bytes[s] \in Nat
  BY InFlightAssumption
<1>2. IsFiniteSet(1 .. Bytes[s]) /\ Cardinality(1 .. Bytes[s]) = Bytes[s]
  BY <1>1, FS_Interval, SMTT(30)
<1>3. IsFiniteSet({s}) /\ Cardinality({s}) = 1
  BY FS_Singleton
<1>4. IsFiniteSet(Part(s)) /\ Cardinality(Part(s)) = Cardinality({s}) * Cardinality(1 .. Bytes[s])
  BY <1>2, <1>3, FS_Product DEF Part
<1> QED
  BY <1>1, <1>2, <1>3, <1>4

\* The bytes held are those of the shards that are being read.
LEMMA HeldMembers ==
    ASSUME NEW l
    PROVE  \A b : b \in Held(l) <=> \E s \in Shards : l.shard[s] = "reading" /\ b \in Part(s)
  BY DEF Held, Part

\* The parts of different shards have nothing in common.
LEMMA PartsApart ==
    \A s, r \in Shards : s # r => Part(s) \cap Part(r) = {}
  BY DEF Part

\* A shard that begins to be read adds its bytes to those that are held, and one
\* that ends gives them back: l is the limiter without it, m the one with it.
LEMMA OneMoreShard ==
    ASSUME NEW l, NEW m, NEW s \in Shards, l.shard[s] # "reading", m.shard[s] = "reading",
           \A r \in Shards : r # s => (l.shard[r] = "reading" <=> m.shard[r] = "reading"),
           IsFiniteSet(Held(l)) \/ IsFiniteSet(Held(m))
    PROVE  /\ IsFiniteSet(Held(l)) /\ IsFiniteSet(Held(m))
           /\ HeldBytes(l) \in Nat /\ HeldBytes(m) = HeldBytes(l) + Bytes[s]
<1>1. Held(m) = Held(l) \cup Part(s)
  BY HeldMembers
<1>2. Held(l) \cap Part(s) = {}
  BY HeldMembers, PartsApart
<1>3. IsFiniteSet(Held(l))
  <2>1. Held(l) \in SUBSET Held(m)
    BY <1>1
  <2> QED
    BY <2>1, FS_Subset
<1>4. /\ IsFiniteSet(Held(m))
      /\ Cardinality(Held(m)) = Cardinality(Held(l)) + Cardinality(Part(s))
                                  - Cardinality(Held(l) \cap Part(s))
  BY <1>1, <1>3, PartSize, FS_Union
<1>5. Cardinality(Held(l) \cap Part(s)) = 0
  BY <1>2, FS_EmptySet
<1>6. Cardinality(Held(l)) \in Nat
  BY <1>3, FS_CardinalityType
<1> QED
  BY <1>3, <1>4, <1>5, <1>6, PartSize DEF HeldBytes

\* What is held does not depend on who waits.
LEMMA SameReaders ==
    ASSUME NEW l, NEW m,
           \A r \in Shards : l.shard[r] = "reading" <=> m.shard[r] = "reading"
    PROVE  Held(m) = Held(l) /\ HeldBytes(m) = HeldBytes(l)
<1>1. Held(m) = Held(l)
  <2>1. \A b : b \in Held(m) <=> b \in Held(l)
    BY HeldMembers
  <2> QED
    BY <2>1
<1> QED
  BY <1>1 DEF HeldBytes

LimiterTypes == [max_bytes : Nat, available_bytes : Nat,
                 shard : [Shards -> {"new", "waiting", "notified", "reading", "done"}]]

\* A new limiter has all its bytes available.
LEMMA NewLimiterOK == LimiterOK(NewLimiter)
<1>1. NewLimiter \in LimiterTypes
  BY InFlightAssumption DEF NewLimiter, LimiterTypes
<1>2. Held(NewLimiter) = {}
  BY HeldMembers DEF NewLimiter
<1>3. IsFiniteSet(Held(NewLimiter)) /\ HeldBytes(NewLimiter) = 0
  BY <1>2, FS_EmptySet DEF HeldBytes
<1> QED
  BY <1>1, <1>3, InFlightAssumption DEF LimiterOK, LimiterTypes, NewLimiter

\* The condition of wait_for_bytes, and what follows it.
LEMMA TryOK ==
    ASSUME NEW l, LimiterOK(l), NEW s \in Shards, l.shard[s] \in {"new", "notified"}
    PROVE  LimiterOK(Try(l, s))
<1>0. /\ l \in LimiterTypes /\ IsFiniteSet(Held(l)) /\ Bytes[s] \in Nat
      /\ l.available_bytes = l.max_bytes - HeldBytes(l)
      /\ l.max_bytes = host_memory_bytes_limit \/ \E r \in Shards : l.max_bytes = Bytes[r]
  BY PartSize DEF LimiterOK, LimiterTypes
<1>1. l.max_bytes \in Nat /\ l.available_bytes \in Nat
  BY <1>0 DEF LimiterTypes
<1>2. CASE Fits(l, s)
  <2> DEFINE m == [l EXCEPT !.available_bytes = @ - Bytes[s], !.shard[s] = "reading"]
  <2>1. l.available_bytes - Bytes[s] \in Nat
    BY <1>0, <1>1, <1>2 DEF Fits
  <2>2. /\ m.max_bytes = l.max_bytes /\ m.available_bytes = l.available_bytes - Bytes[s]
        /\ m.shard = [l.shard EXCEPT ![s] = "reading"]
    BY <1>0 DEF LimiterTypes
  <2>3. m \in LimiterTypes
    BY <1>0, <2>1 DEF LimiterTypes
  <2>4. /\ m.shard[s] = "reading" /\ l.shard[s] # "reading"
        /\ \A r \in Shards : r # s => m.shard[r] = l.shard[r]
    BY <1>0, <2>2 DEF LimiterTypes
  <2> HIDE DEF m
  <2>5. IsFiniteSet(Held(m)) /\ HeldBytes(l) \in Nat /\ HeldBytes(m) = HeldBytes(l) + Bytes[s]
    BY <1>0, <2>4, OneMoreShard
  <2>6. m.available_bytes = m.max_bytes - HeldBytes(m)
    BY <1>0, <1>1, <2>2, <2>5
  <2>7. LimiterOK(m)
    BY <1>0, <2>2, <2>3, <2>5, <2>6 DEF LimiterOK, LimiterTypes
  <2> QED
    BY <1>2, <2>7 DEF Try, m
<1>3. CASE ~Fits(l, s)
  <2> DEFINE m == [l EXCEPT !.shard[s] = "waiting"]
  <2>1. /\ m \in LimiterTypes /\ m.max_bytes = l.max_bytes
        /\ m.available_bytes = l.available_bytes
        /\ \A r \in Shards : m.shard[r] = IF r = s THEN "waiting" ELSE l.shard[r]
    BY <1>0 DEF LimiterTypes
  <2> HIDE DEF m
  <2>2. Held(m) = Held(l) /\ HeldBytes(m) = HeldBytes(l)
    BY <2>1, SameReaders
  <2>3. LimiterOK(m)
    BY <1>0, <2>1, <2>2 DEF LimiterOK, LimiterTypes
  <2> QED
    BY <1>3, <2>3 DEF Try, m
<1> QED
  BY <1>2, <1>3

\* A request that raises the limit keeps what the others hold.
LEMMA RaisedOK ==
    ASSUME NEW l, LimiterOK(l), NEW s \in Shards
    PROVE  LimiterOK(Raised(l, s)) /\ Raised(l, s).shard = l.shard
<1>0. /\ l \in LimiterTypes /\ IsFiniteSet(Held(l)) /\ Bytes[s] \in Nat
      /\ l.available_bytes = l.max_bytes - HeldBytes(l)
      /\ l.max_bytes \in Nat /\ l.available_bytes \in Nat
  BY PartSize DEF LimiterOK, LimiterTypes
<1>1. HeldBytes(l) \in Nat
  BY <1>0, FS_CardinalityType DEF HeldBytes
<1>2. CASE Bytes[s] > l.max_bytes
  <2> DEFINE m == [l EXCEPT !.max_bytes = Bytes[s],
                            !.available_bytes = Bytes[s] - (l.max_bytes - l.available_bytes)]
  <2>1. /\ Bytes[s] - (l.max_bytes - l.available_bytes) \in Nat
        /\ Bytes[s] - (l.max_bytes - l.available_bytes) = Bytes[s] - HeldBytes(l)
    BY <1>0, <1>1, <1>2
  <2>2. /\ m.max_bytes = Bytes[s] /\ m.shard = l.shard
        /\ m.available_bytes = Bytes[s] - (l.max_bytes - l.available_bytes)
    BY <1>0 DEF LimiterTypes
  <2>3. m \in LimiterTypes
    BY <1>0, <2>1 DEF LimiterTypes
  <2> HIDE DEF m
  <2>4. Held(m) = Held(l) /\ HeldBytes(m) = HeldBytes(l)
    BY <2>2, SameReaders
  <2>5. LimiterOK(m)
    BY <1>0, <2>1, <2>2, <2>3, <2>4 DEF LimiterOK, LimiterTypes
  <2> QED
    BY <1>2, <2>2, <2>5 DEF Raised, m
<1> QED
  BY <1>2 DEF Raised

\* A shard that was read gives its bytes back and wakes the others.
LEMMA ReleaseOK ==
    ASSUME NEW l, LimiterOK(l), NEW s \in Shards, l.shard[s] = "reading"
    PROVE  LimiterOK(release_bytes(l, s))
<1>0. /\ l \in LimiterTypes /\ IsFiniteSet(Held(l)) /\ Bytes[s] \in Nat
      /\ l.available_bytes = l.max_bytes - HeldBytes(l)
      /\ l.max_bytes \in Nat /\ l.available_bytes \in Nat
      /\ l.max_bytes = host_memory_bytes_limit \/ \E r \in Shards : l.max_bytes = Bytes[r]
  BY PartSize DEF LimiterOK, LimiterTypes
<1> DEFINE n == [l EXCEPT !.available_bytes = @ + Bytes[s], !.shard[s] = "done"]
           m == Notify(n)
<1>1. /\ n \in LimiterTypes /\ n.max_bytes = l.max_bytes
      /\ n.available_bytes = l.available_bytes + Bytes[s]
      /\ \A r \in Shards : n.shard[r] = IF r = s THEN "done" ELSE l.shard[r]
  <2>1. l.available_bytes + Bytes[s] \in Nat
    BY <1>0
  <2>2. /\ n.max_bytes = l.max_bytes /\ n.available_bytes = l.available_bytes + Bytes[s]
        /\ n.shard = [l.shard EXCEPT ![s] = "done"]
    BY <1>0 DEF LimiterTypes
  <2>3. n \in LimiterTypes
    BY <1>0, <2>1 DEF LimiterTypes
  <2> QED
    BY <1>0, <2>2, <2>3 DEF LimiterTypes
<1> HIDE DEF n
<1>2. /\ m \in LimiterTypes /\ m.max_bytes = n.max_bytes
      /\ m.available_bytes = n.available_bytes
      /\ \A r \in Shards : m.shard[r] = IF n.shard[r] = "waiting" THEN "notified" ELSE n.shard[r]
  BY <1>1 DEF LimiterTypes, Notify
<1>3. release_bytes(l, s) = m
  BY DEF release_bytes, n
<1> HIDE DEF m
<1>4. /\ m.shard[s] # "reading"
      /\ \A r \in Shards : r # s => (m.shard[r] = "reading" <=> l.shard[r] = "reading")
  BY <1>1, <1>2
<1>5. /\ IsFiniteSet(Held(m)) /\ HeldBytes(m) \in Nat /\ HeldBytes(l) = HeldBytes(m) + Bytes[s]
  BY <1>0, <1>4, OneMoreShard
<1>6. m.available_bytes = m.max_bytes - HeldBytes(m)
  BY <1>0, <1>1, <1>2, <1>5
<1> QED
  BY <1>0, <1>1, <1>2, <1>3, <1>5, <1>6 DEF LimiterOK, LimiterTypes

\* A section between two waits of a shard keeps the limiter's account.
LEMMA ShardStepOK ==
    ASSUME NEW l, LimiterOK(l), NEW s \in Shards, CanStep(l, s)
    PROVE  LimiterOK(ShardStep(l, s))
<1>1. CASE l.shard[s] = "new"
  <2>1. LimiterOK(Raised(l, s)) /\ Raised(l, s).shard[s] = "new"
    BY <1>1, RaisedOK
  <2>2. LimiterOK(Try(Raised(l, s), s))
    BY <2>1, TryOK
  <2> QED
    BY <1>1, <2>2 DEF ShardStep, wait_for_bytes
<1>2. CASE l.shard[s] = "notified"
  BY <1>2, TryOK DEF ShardStep
<1>3. CASE l.shard[s] = "reading"
  BY <1>3, ReleaseOK DEF ShardStep
<1> QED
  BY <1>1, <1>2, <1>3 DEF CanStep

\* Every process begins with a new limiter.
LEMMA LimiterInit == Init => LimiterInv
<1> SUFFICES ASSUME Init PROVE LimiterInv
  OBVIOUS
<1>1. process_count \in Nat \ {0} /\ limiter = [p \in Processes |-> NewLimiter]
  BY CheckpointingAssumption DEF Init
<1> QED
  BY <1>1, NewLimiterOK DEF LimiterInv

\* Only the steps of a shard change a limiter.
LEMMA LimiterStep == LimiterInv /\ [Next]_vars => LimiterInv'
<1> SUFFICES ASSUME LimiterInv, [Next]_vars PROVE LimiterInv'
  OBVIOUS
<1>1. CASE UNCHANGED <<process_count, limiter>>
  <2>1. Processes' = Processes
    BY <1>1 DEF Processes
  <2> QED
    BY <1>1, <2>1 DEF LimiterInv
<1>2. ASSUME NEW p \in Processes, NEW s \in Shards, RestoreShard(p, s) PROVE LimiterInv'
  <2>1. /\ limiter' = [limiter EXCEPT ![p] = ShardStep(limiter[p], s)]
        /\ CanStep(limiter[p], s) /\ process_count' = process_count
    BY <1>2 DEF RestoreShard
  <2>2. Processes' = Processes
    BY <2>1 DEF Processes
  <2>3. LimiterOK(ShardStep(limiter[p], s))
    BY <2>1, ShardStepOK DEF LimiterInv
  <2>4. DOMAIN limiter' = Processes /\ \A q \in Processes :
            limiter'[q] = IF q = p THEN ShardStep(limiter[p], s) ELSE limiter[q]
    BY <2>1 DEF LimiterInv
  <2>5. \A q \in Processes : LimiterOK(limiter'[q])
    BY <2>3, <2>4 DEF LimiterInv
  <2> QED
    BY <2>1, <2>2, <2>4, <2>5 DEF LimiterInv
<1>3. ASSUME NEW p \in Processes, MainStep(p), \A s \in Shards : ~RestoreShard(p, s)
      PROVE  UNCHANGED <<process_count, limiter>>
  BY <1>3 DEF MainStep, EndRestore, Call, Join, GetKey, Serialize, Stop, Retry
<1>4. ASSUME NEW p \in Processes, ThreadStep(p) PROVE UNCHANGED <<process_count, limiter>>
  BY <1>4 DEF ThreadStep, CommitFinished, EnterBarrier, LeaveBarrier, Callback, Publish
<1>5. ASSUME NEW p \in Processes, Failure(p) PROVE UNCHANGED <<process_count, limiter>>
  BY <1>5 DEF Failure, ReadFails, CopyFails, CommitFails, CallbackFails, Crash
<1>6. ASSUME NEW p \in Processes, CheckForErrors(p) \/ GetTimesOut(p)
      PROVE  UNCHANGED <<process_count, limiter>>
  BY <1>6 DEF CheckForErrors, GetTimesOut
<1>7. ASSUME NEW k \in Counts, BarrierTimesOut(k) PROVE UNCHANGED <<process_count, limiter>>
  BY <1>7 DEF BarrierTimesOut
<1>8. CASE UNCHANGED vars
  BY <1>1, <1>8 DEF vars
<1> QED
  BY <1>1, <1>2, <1>3, <1>4, <1>5, <1>6, <1>7, <1>8 DEF Next

\* For any processes and shards of any sizes, the asserts of wait_for_bytes and
\* release_bytes hold, and the shards that are read together never hold more
\* than the limit, or than the largest of them.
THEOREM RestoresAreBounded == Spec => []RestoreIsBounded
<1>1. SaveInv /\ LimiterInv => RestoreIsBounded
  <2> SUFFICES ASSUME SaveInv, LimiterInv PROVE RestoreIsBounded
    OBVIOUS
  <2>1. ASSUME NEW p \in Processes
        PROVE  /\ limiter[p].max_bytes \in Nat
               /\ limiter[p].available_bytes \in 0 .. limiter[p].max_bytes
               /\ limiter[p].shard \in [Shards -> {"new", "waiting", "notified", "reading", "done"}]
               /\ \/ HeldBytes(limiter[p]) <= host_memory_bytes_limit
                  \/ \E s \in Shards : HeldBytes(limiter[p]) <= Bytes[s]
               /\ limiter[p].available_bytes = limiter[p].max_bytes - HeldBytes(limiter[p])
    <3> DEFINE l == limiter[p]
    <3>1. LimiterOK(l)
      BY DEF LimiterInv
    <3> HIDE DEF l
    <3>2. /\ l.max_bytes \in Nat /\ l.available_bytes \in Nat
          /\ l.shard \in [Shards -> {"new", "waiting", "notified", "reading", "done"}]
          /\ l.available_bytes = l.max_bytes - HeldBytes(l)
          /\ l.max_bytes = host_memory_bytes_limit \/ \E s \in Shards : l.max_bytes = Bytes[s]
      BY <3>1 DEF LimiterOK
    <3>3. HeldBytes(l) \in Nat
      BY <3>1, FS_CardinalityType DEF LimiterOK, HeldBytes
    <3>4. l.available_bytes \in 0 .. l.max_bytes /\ HeldBytes(l) <= l.max_bytes
      BY <3>2, <3>3
    <3> QED
      BY <3>2, <3>4 DEF l
  <2> QED
    BY <2>1 DEF SaveInv, SaveTypes, RestoreIsBounded, TypeOK, RestoreWithinLimit
<1>2. Spec => []LimiterInv
  BY LimiterInit, LimiterStep, PTL DEF Spec
<1> QED
  BY <1>1, <1>2, SavesInvariant, PTL
=============================================================================
