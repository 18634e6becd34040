---------------------------- MODULE Checkpointing ---------------------------
(***************************************************************************)
(* Asynchronous checkpointing by several processes: AsyncManager and       *)
(* GlobalAsyncCheckpointManager (experimental/array_serialization/         *)
(* serialization.py), in the training loop their documentation gives:      *)
(* restore, save repeatedly, wait at the end.                              *)
(*                                                                         *)
(* A process has a main thread and, after a serialize, a commit thread.    *)
(* The processes meet at barriers and in the key-value store of the        *)
(* distributed runtime; both waits have a timeout.  A user who gets an     *)
(* exception stops, or makes the same call again.                          *)
(***************************************************************************)
EXTENDS InFlightBytes, FiniteSetsExt

CONSTANTS
    ProcessCounts,  \* possible values of jax.process_count()
    MaxSaves,       \* the saves of the training loop
    MaxRetries,     \* bound on the calls a process makes again
    MaxFailures     \* bound on reads, copies, writes and callbacks that raise, and on crashes

ASSUME CheckpointingAssumption ==
    /\ ProcessCounts \subseteq Nat \ {0} /\ MaxSaves \in Nat \ {0}
    /\ MaxRetries \in Nat /\ MaxFailures \in Nat

NoCount == -1

VARIABLES
    process_count,
    limiter,      \* of the restore of a process
    pc, final,    \* main thread; it is in its last wait_until_finished
    save,         \* number of serialize calls that returned
    _thread, _exception, _count, \* the manager
    unique_count, \* next value of _module_unique_count
    barrier,      \* by key: who has arrived, and how it ended
    keys,         \* set in the key-value store
    written,      \* history: saves whose futures have finished, by process
    callbacks,    \* history: saves whose on_commit_callback has run
    reported,     \* history: processes whose user has seen an exception
    failures, timeouts, retries

main == <<pc, final, save>>
manager == <<_thread, _exception, _count, unique_count>>
service == <<barrier, keys>>
history == <<written, callbacks, reported, failures, timeouts, retries>>
vars == <<process_count, limiter, main, manager, service, history>>

Processes == 0 .. (process_count - 1)
Counts == 0 .. (MaxSaves - 1)

Init ==
    /\ process_count \in ProcessCounts
    /\ limiter = [p \in Processes |-> NewLimiter]
    /\ pc = [p \in Processes |-> "restore"]
    /\ final = [p \in Processes |-> FALSE]
    /\ save = [p \in Processes |-> 0]
    /\ _thread = [p \in Processes |-> "none"]
    /\ _exception = [p \in Processes |-> FALSE]
    /\ _count = [p \in Processes |-> NoCount]
    /\ unique_count = [p \in Processes |-> 0]
    /\ barrier = [k \in Counts |-> [arrived |-> {}, state |-> "open"]]
    /\ keys = {}
    /\ written = [p \in Processes |-> {}]
    /\ callbacks = {} /\ reported = {}
    /\ failures = 0 /\ timeouts = FALSE
    /\ retries = [p \in Processes |-> 0]

Goto(p, where) == pc' = [pc EXCEPT ![p] = where]
ThreadGoto(p, where) == _thread' = [_thread EXCEPT ![p] = where]

Failing ==
    /\ failures < MaxFailures
    /\ failures' = failures + 1

\* An exception reaches the user.
Raise(p) ==
    /\ Goto(p, "raised")
    /\ reported' = reported \union {p}

(***************************************************************************)
(* Main thread                                                             *)
(***************************************************************************)
\* A coroutine of deserialize runs up to its next wait.
RestoreShard(p, s) ==
    /\ pc[p] = "restore" /\ CanStep(limiter[p], s)
    /\ limiter' = [limiter EXCEPT ![p] = ShardStep(@, s)]
    /\ UNCHANGED <<process_count, main, manager, service, history>>

EndRestore(p) ==
    /\ pc[p] = "restore" /\ AllRead(limiter[p])
    /\ Goto(p, "idle")
    /\ UNCHANGED <<process_count, limiter, final, save, manager, service, history>>

\* gather raises the first exception of a read, and asyncio.run cancels the
\* other coroutines.
ReadFails(p) ==
    /\ pc[p] = "restore"
    /\ \E s \in Shards : limiter[p].shard[s] = "reading"
    /\ Failing /\ reported' = reported \union {p} /\ Goto(p, "ended")
    /\ UNCHANGED <<process_count, limiter, final, save, manager, service,
                   written, callbacks, timeouts, retries>>

\* serialize, and the wait_until_finished at the end of the program, begin
\* with the join of the commit thread.
Call(p) ==
    /\ pc[p] = "idle"
    /\ Goto(p, "join")
    /\ final' = [final EXCEPT ![p] = save[p] = MaxSaves]
    /\ UNCHANGED <<process_count, limiter, save, manager, service, history>>

\* Mutant: only the first exception is raised.
HasErrorMutant(p) == _exception[p] /\ p \notin reported

HasError(p) == _exception[p]

\* check_for_errors of the training loop, when it raises.
CheckForErrors(p) ==
    /\ pc[p] = "idle" /\ HasError(p)
    /\ _exception' = [_exception EXCEPT ![p] = FALSE]
    /\ Raise(p)
    /\ UNCHANGED <<process_count, limiter, final, save, _thread, _count, unique_count,
                   service, written, callbacks, failures, timeouts, retries>>

\* What follows wait_until_finished.
Proceed(p) == Goto(p, IF final[p] THEN "ended" ELSE "copy")

MustGetKey(p) == process_count > 1 /\ _count[p] # NoCount

\* wait_until_finished up to blocking_key_value_get.
Join(p) ==
    /\ pc[p] = "join" /\ _thread[p] \in {"none", "done"}
    /\ ThreadGoto(p, "none")
    /\ \/ /\ HasError(p)
          /\ _exception' = [_exception EXCEPT ![p] = FALSE]
          /\ Raise(p)
       \/ /\ ~HasError(p)
          /\ IF MustGetKey(p) THEN Goto(p, "get") ELSE Proceed(p)
          /\ UNCHANGED <<_exception, reported>>
    /\ UNCHANGED <<process_count, limiter, final, save, _count, unique_count, service,
                   written, callbacks, failures, timeouts, retries>>

\* Mutant: the key of any checkpoint will do.
KeySetMutant(p) == keys # {}

KeySet(p) == _count[p] \in keys

GetKey(p) ==
    /\ pc[p] = "get" /\ KeySet(p)
    /\ Proceed(p)
    /\ UNCHANGED <<process_count, limiter, final, save, manager, service, history>>

GetTimesOut(p) ==
    /\ pc[p] = "get"
    /\ timeouts' = TRUE
    /\ Raise(p)
    /\ UNCHANGED <<process_count, limiter, final, save, manager, service,
                   written, callbacks, failures, retries>>

\* The rest of serialize: the copies are made, and the commit thread starts.
Serialize(p) ==
    /\ pc[p] = "copy"
    /\ save' = [save EXCEPT ![p] = @ + 1]
    /\ _count' = [_count EXCEPT ![p] = unique_count[p]]
    /\ unique_count' = [unique_count EXCEPT ![p] = @ + 1]
    /\ ThreadGoto(p, "commit")
    /\ Goto(p, "idle")
    /\ UNCHANGED <<process_count, limiter, final, _exception, service, history>>

\* A copy raises before the count is taken.
CopyFails(p) ==
    /\ pc[p] = "copy"
    /\ Failing /\ Raise(p)
    /\ UNCHANGED <<process_count, limiter, final, save, manager, service,
                   written, callbacks, timeouts, retries>>

\* The user, after an exception.
Stop(p) ==
    /\ pc[p] = "raised"
    /\ Goto(p, "ended")
    /\ UNCHANGED <<process_count, limiter, final, save, manager, service, history>>

Retry(p) ==
    /\ pc[p] = "raised" /\ retries[p] < MaxRetries
    /\ retries' = [retries EXCEPT ![p] = @ + 1]
    /\ Goto(p, "idle")
    /\ UNCHANGED <<process_count, limiter, final, save, manager, service,
                   written, callbacks, reported, failures, timeouts>>

(***************************************************************************)
(* _thread_func                                                            *)
(***************************************************************************)
\* The except clause.
ThreadRaises(p) ==
    /\ ThreadGoto(p, "done")
    /\ _exception' = [_exception EXCEPT ![p] = TRUE]

CommitFinished(p) ==
    /\ _thread[p] = "commit"
    /\ written' = [written EXCEPT ![p] = @ \union {save[p]}]
    /\ ThreadGoto(p, IF process_count > 1 THEN "enter" ELSE "callback")
    /\ UNCHANGED <<process_count, limiter, main, _exception, _count, unique_count, service,
                   callbacks, reported, failures, timeouts, retries>>

CommitFails(p) ==
    /\ _thread[p] = "commit"
    /\ Failing /\ ThreadRaises(p)
    /\ UNCHANGED <<process_count, limiter, main, _count, unique_count, service,
                   written, callbacks, reported, timeouts, retries>>

\* Mutant: one process may be missing.
BarrierFullMutant(arrived) == Cardinality(arrived) >= process_count - 1

\* The barrier of the distributed runtime: all processes of the job.
BarrierFull(arrived) == arrived = Processes

\* wait_at_barrier: the call reaches the service.
EnterBarrier(p) ==
    /\ _thread[p] = "enter"
    /\ LET b == barrier[_count[p]]
           arrived == b.arrived \union {p}
       IN barrier' = [barrier EXCEPT ![_count[p]] =
              [arrived |-> arrived,
               state |-> IF b.state = "open" /\ BarrierFull(arrived) THEN "passed" ELSE b.state]]
    /\ ThreadGoto(p, "barrier")
    /\ UNCHANGED <<process_count, limiter, main, _exception, _count, unique_count, keys, history>>

\* A barrier that times out fails for all who wait or come later.
BarrierTimesOut(k) ==
    /\ barrier[k].state = "open" /\ barrier[k].arrived # {}
    /\ barrier' = [barrier EXCEPT ![k].state = "failed"]
    /\ timeouts' = TRUE
    /\ UNCHANGED <<process_count, limiter, main, manager, keys,
                   written, callbacks, reported, failures, retries>>

\* wait_at_barrier returns, or raises.
LeaveBarrier(p) ==
    /\ _thread[p] = "barrier"
    /\ \/ /\ barrier[_count[p]].state = "passed"
          /\ ThreadGoto(p, IF p = 0 THEN "callback" ELSE "done")
          /\ UNCHANGED _exception
       \/ /\ barrier[_count[p]].state = "failed"
          /\ ThreadRaises(p)
    /\ UNCHANGED <<process_count, limiter, main, _count, unique_count, service, history>>

\* on_commit_callback, in process 0.
Callback(p) ==
    /\ _thread[p] = "callback"
    /\ callbacks' = callbacks \union {save[p]}
    /\ ThreadGoto(p, IF process_count > 1 THEN "publish" ELSE "done")
    /\ UNCHANGED <<process_count, limiter, main, _exception, _count, unique_count, service,
                   written, reported, failures, timeouts, retries>>

CallbackFails(p) ==
    /\ _thread[p] = "callback"
    /\ Failing /\ ThreadRaises(p)
    /\ UNCHANGED <<process_count, limiter, main, _count, unique_count, service,
                   written, callbacks, reported, timeouts, retries>>

\* Mutant: the key is that of the next checkpoint.
SuccessKeyMutant(p) == unique_count[p]

SuccessKey(p) == _count[p]

\* key_value_set
Publish(p) ==
    /\ _thread[p] = "publish"
    /\ keys' = keys \union {SuccessKey(p)}
    /\ ThreadGoto(p, "done")
    /\ UNCHANGED <<process_count, limiter, main, _exception, _count, unique_count, barrier, history>>

\* Both threads of a process end, whatever they do.
Crash(p) ==
    /\ pc[p] \notin {"ended", "crashed"}
    /\ Failing /\ Goto(p, "crashed") /\ ThreadGoto(p, "none")
    /\ UNCHANGED <<process_count, limiter, final, save, _exception, _count, unique_count,
                   service, written, callbacks, reported, timeouts, retries>>

MainStep(p) ==
    \/ \E s \in Shards : RestoreShard(p, s)
    \/ EndRestore(p) \/ Call(p) \/ Join(p) \/ GetKey(p) \/ Serialize(p) \/ Stop(p) \/ Retry(p)

ThreadStep(p) ==
    CommitFinished(p) \/ EnterBarrier(p) \/ LeaveBarrier(p) \/ Callback(p) \/ Publish(p)

Failure(p) == ReadFails(p) \/ CopyFails(p) \/ CommitFails(p) \/ CallbackFails(p) \/ Crash(p)

Next ==
    \/ \E p \in Processes :
        MainStep(p) \/ CheckForErrors(p) \/ GetTimesOut(p) \/ ThreadStep(p) \/ Failure(p)
    \/ \E k \in Counts : BarrierTimesOut(k)

Spec == Init /\ [][Next]_vars

\* The threads of a process run.
Fairness ==
    \A p \in 0 .. (Max(ProcessCounts) - 1) :
        /\ WF_vars(p \in Processes /\ MainStep(p))
        /\ WF_vars(p \in Processes /\ ThreadStep(p))

FairSpec == Spec /\ Fairness

\* A wait that stays blocked times out.
WaitsTimeOut ==
    /\ \A p \in 0 .. (Max(ProcessCounts) - 1) : WF_vars(p \in Processes /\ GetTimesOut(p))
    /\ \A k \in Counts : WF_vars(BarrierTimesOut(k))

(***************************************************************************)
(* Properties                                                              *)
(***************************************************************************)
\* Types, and the asserts of wait_for_bytes and release_bytes: the available
\* bytes are never negative and never more than the limit.
TypeOK ==
    /\ process_count \in ProcessCounts
    /\ \A p \in Processes :
        /\ limiter[p].max_bytes \in Nat
        /\ limiter[p].available_bytes \in 0 .. limiter[p].max_bytes
        /\ limiter[p].shard \in [Shards -> {"new", "waiting", "notified", "reading", "done"}]
    /\ pc \in [Processes -> {"restore", "idle", "join", "get", "copy", "raised", "ended", "crashed"}]
    /\ final \in [Processes -> BOOLEAN] /\ save \in [Processes -> 0 .. MaxSaves]
    /\ _thread \in [Processes ->
           {"none", "commit", "enter", "barrier", "callback", "publish", "done"}]
    /\ _exception \in [Processes -> BOOLEAN]
    /\ _count \in [Processes -> Counts \union {NoCount}]
    /\ unique_count \in [Processes -> 0 .. MaxSaves]
    /\ barrier \in [Counts -> [arrived : SUBSET Processes, state : {"open", "passed", "failed"}]]
    /\ keys \subseteq Counts
    /\ written \in [Processes -> SUBSET (1 .. MaxSaves)] /\ callbacks \subseteq 1 .. MaxSaves
    /\ reported \subseteq Processes /\ failures \in 0 .. MaxFailures /\ timeouts \in BOOLEAN
    /\ retries \in [Processes -> 0 .. MaxRetries]

\* The shards being read hold no more bytes than the limit, or than the largest
\* shard where that is more, and the limiter knows what they hold, also when
\* a large shard raises the limit while others are reading or waiting.
RestoreWithinLimit ==
    \A p \in Processes :
        /\ \/ HeldBytes(limiter[p]) <= host_memory_bytes_limit
           \/ \E s \in Shards : HeldBytes(limiter[p]) <= Bytes[s]
        /\ limiter[p].available_bytes = limiter[p].max_bytes - HeldBytes(limiter[p])

\* on_commit_callback of a save (which renames the checkpoint to its final
\* place) runs only after every process has written its part of that save.
CallbackAfterAllWrote ==
    \A n \in callbacks : \A p \in Processes : n \in written[p]

Durable(n) == n \in callbacks /\ \A p \in Processes : n \in written[p]

\* A serialize that comes after another, and the last wait_until_finished,
\* return only when the earlier saves are durable on all processes, unless the
\* user of this process has been given an exception.
WaitMeansDurable ==
    \A p \in Processes :
        (pc[p] \in {"copy", "ended"} /\ p \notin reported)
            => \A n \in 1 .. save[p] : Durable(n)

\* Among several processes a manager never starts another save on top of one
\* that failed: its wait for the key of the failed save can only time out.
NoSaveOnTopOfALostOne ==
    process_count > 1 =>
        \A p \in Processes : \A n \in 1 .. (save[p] - 1) : Durable(n)

\* An exception of the commit thread reaches the user of the process: it does
\* not end, or go on to another save, before it was raised.
ErrorsAreReported ==
    \A p \in 0 .. (Max(ProcessCounts) - 1) :
        (p \in Processes /\ _exception[p] /\ pc[p] # "crashed")
            ~> (p \in Processes => pc[p] \in {"raised", "crashed"})

\* Every process comes to an end, whatever fails and whoever crashes: a wait
\* for bytes is always notified, and every wait for others has a timeout.
AllProcessesEnd ==
    WaitsTimeOut => <>(\A p \in Processes : pc[p] \in {"ended", "crashed"})

\* When nothing fails and nothing times out, every save becomes durable.
AllSavedIfNoFailure ==
    [](failures = 0 /\ ~timeouts) => <>(\A n \in 1 .. MaxSaves : Durable(n))

\* A return without an exception is a promise: earlier saves are durable, and no
\* later one builds on a save that was lost.
ReturnMeansDurable == WaitMeansDurable /\ NoSaveOnTopOfALostOne

\* The limiter of a restore works with counts that hold (the asserts of
\* wait_for_bytes and release_bytes) and keeps within the limit.
RestoreIsBounded == TypeOK /\ RestoreWithinLimit
=============================================================================
