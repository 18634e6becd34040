-------------------------- MODULE CompileAndShare ---------------------------
(***************************************************************************)
(* compile_or_get_cached (jax/_src/compiler.py) in a job of several        *)
(* processes: threads of the process that shares executables, on top of    *)
(* the module state of CompilationCache, and calls of other processes that *)
(* wait for them.                                                          *)
(*                                                                         *)
(* The sharing process (first_process_id, that of the smallest device) is  *)
(* process 0, which is also the one that writes the persistent cache.      *)
(* Auto-PGLE is off, there are no host callbacks, and the calls have a     *)
(* client of the distributed runtime.                                      *)
(***************************************************************************)
EXTENDS CompilationCache, FiniteSets

CONSTANTS
    Keys,         \* cache keys
    Peers,        \* calls of other processes
    MaxCalls,     \* bound on the calls of compile_or_get_cached in process 0
    MaxFaults     \* bound on evictions, failed reads, writes and compilations

ASSUME CompileAndShareAssumption == MaxCalls \in Nat /\ MaxFaults \in Nat

VARIABLES
    share,          \* config.share_binary_between_hosts
    files,          \* persistent cache: the executable of a key, or 0
    modules_cache,  \* of _compile_and_share_module, in process 0
    kv,             \* key-value store of the distributed runtime
    stage, key, executable, \* of a thread's call of compile_or_get_cached
    peer,           \* the calls of other processes
    calls, compiled, faults, compilations \* history: calls begun, executables
                    \* made, faults, and how often each key was compiled

shared == <<share, files, modules_cache, kv>>
shareVars == <<shared, stage, key, executable, peer, calls, compiled, faults, compilations>>
allVars == <<vars, shareVars>>

NoPersistedExecutable == 0

ShareInit ==
    /\ Init
    /\ share \in BOOLEAN
    /\ \E old \in SUBSET Keys :
        /\ files = [k \in Keys |-> IF k \in old THEN 1 ELSE 0]
        /\ ~HasDir => old = {}
    /\ modules_cache = [k \in Keys |-> 0] /\ kv = [k \in Keys |-> 0]
    /\ stage = [t \in Threads |-> "ended"]
    /\ key \in [Threads -> Keys]
    /\ executable = [t \in Threads |-> 0]
    /\ \E ks \in [Peers -> Keys] :
        peer = [i \in Peers |-> [key |-> ks[i], at |-> "read", executable |-> 0]]
    /\ calls = 0 /\ compiled = 1 /\ faults = 0
    /\ compilations = [k \in Keys |-> 0]

Stage(t, where) == stage' = [stage EXCEPT ![t] = where]

\* compile_or_get_cached returns executable e to thread t.
Returned(t, e) == Stage(t, "ended") /\ executable' = [executable EXCEPT ![t] = e]

\* No call of thread t is under way.
NoCall(t) == stage[t] \in {"ended", "uncached"}

Fault == faults < MaxFaults /\ faults' = faults + 1

\* backend_compile_and_load: every compilation makes an executable of its own.
backend_compile_and_load(k) ==
    /\ compiled' = compiled + 1
    /\ compilations' = [compilations EXCEPT ![k] = @ + 1]

(***************************************************************************)
(* Threads of process 0                                                    *)
(***************************************************************************)
\* _get_cache_key asks is_cache_used first.
Begin(t, k) ==
    /\ NoCall(t) /\ calls < MaxCalls
    /\ is_cache_used(t)
    /\ Stage(t, "key")
    /\ key' = [key EXCEPT ![t] = k]
    /\ executable' = [executable EXCEPT ![t] = 0]
    /\ calls' = calls + 1
    /\ UNCHANGED <<shared, peer, compiled, faults, compilations>>

\* No cache key: the module is compiled and neither stored nor shared.
CompileUncached(t) ==
    /\ stage[t] = "key" /\ pc[t] = "idle" /\ ret[t] = "unused"
    /\ backend_compile_and_load(key[t])
    /\ Stage(t, "uncached") /\ executable' = [executable EXCEPT ![t] = compiled + 1]
    /\ UNCHANGED <<vars, shared, key, peer, calls, faults>>

\* get_executable_and_time begins with _get_cache.
BeginRead(t) ==
    /\ stage[t] = "key" /\ ret[t] = "used"
    /\ _get_cache(t)
    /\ Stage(t, "read")
    /\ UNCHANGED <<shared, key, executable, peer, calls, compiled, faults, compilations>>

\* _cache_read returns an executable: an exception of _get_cache is a miss.
Hit(t) == ret[t] = "cache" /\ files[key[t]] # NoPersistedExecutable

\* The rest of _cache_read, and the branch on what it returned.
EndRead(t) ==
    /\ stage[t] = "read" /\ pc[t] = "idle"
    /\ \/ Hit(t) /\ Returned(t, files[key[t]]) /\ UNCHANGED faults
       \/ /\ \/ ~Hit(t) /\ UNCHANGED faults
             \/ Hit(t) /\ Fault   \* the read raises
          /\ IF share /\ modules_cache[key[t]] # 0
             THEN Returned(t, modules_cache[key[t]])
             ELSE Stage(t, "compile") /\ UNCHANGED executable
    /\ UNCHANGED <<vars, shared, key, peer, calls, compiled, compilations>>

\* _compile_and_write_cache up to _get_cache.  A compilation shorter than
\* persistent_cache_min_compile_time_secs is not written.
Compile(t) ==
    /\ stage[t] = "compile" /\ pc[t] = "idle"
    /\ backend_compile_and_load(key[t])
    /\ executable' = [executable EXCEPT ![t] = compiled + 1]
    /\ \/ _get_cache(t) /\ Stage(t, "write")
       \/ Stage(t, "share") /\ UNCHANGED vars
    /\ UNCHANGED <<shared, key, peer, calls, faults>>

CompileRaises(t) ==
    /\ stage[t] = "compile"
    /\ Fault /\ Returned(t, 0)
    /\ UNCHANGED <<vars, shared, key, peer, calls, compiled, compilations>>

\* put: a file that exists is not written again.
Put(k, e) ==
    files' = [files EXCEPT ![k] = IF @ = NoPersistedExecutable THEN e ELSE @]

\* The rest of put_executable_and_time; what it raises is a warning.
EndWrite(t) ==
    /\ stage[t] = "write" /\ pc[t] = "idle"
    /\ \/ ret[t] = "cache" /\ Put(key[t], executable[t]) /\ UNCHANGED faults
       \/ ret[t] = "cache" /\ Fault /\ UNCHANGED files
       \/ ret[t] # "cache" /\ UNCHANGED <<files, faults>>
    /\ Stage(t, "share")
    /\ UNCHANGED <<vars, share, modules_cache, kv, key, executable, peer, calls,
                   compiled, compilations>>

\* Mutant: an executable that was too quick to compile for the cache, or that
\* could not be written, is not shared.
ShareKeyMutant(t) == IF files[key[t]] = 0 THEN kv ELSE [kv EXCEPT ![key[t]] = executable[t]]

ShareKey(t) == [kv EXCEPT ![key[t]] = executable[t]]

\* The rest of _compile_and_share_module.  key_value_set_bytes raises when the
\* key exists.
Share(t) ==
    /\ stage[t] = "share"
    /\ \/ ~share /\ Returned(t, executable[t]) /\ UNCHANGED shared
       \/ /\ share /\ kv[key[t]] = 0
          /\ kv' = ShareKey(t)
          /\ modules_cache' = [modules_cache EXCEPT ![key[t]] = executable[t]]
          /\ Returned(t, executable[t])
          /\ UNCHANGED <<share, files>>
       \/ share /\ kv[key[t]] # 0 /\ Returned(t, 0) /\ UNCHANGED shared
    /\ UNCHANGED <<vars, key, peer, calls, compiled, faults, compilations>>

\* The steps of a call into the module state.
CacheStep(t) ==
    /\ \/ CheckAndReport(t) \/ _initialize_cache(t) \/ CreateCache(t) \/ ReturnCache(t)
       \/ ResetFlags(t)
    /\ UNCHANGED shareVars

Reset(t) ==
    /\ NoCall(t) /\ reset_cache(t)
    /\ UNCHANGED shareVars

(***************************************************************************)
(* Other processes                                                         *)
(***************************************************************************)
SetPeer(i, at, e) ==
    peer' = [peer EXCEPT ![i].at = at, ![i].executable = e]

\* Mutant: a process compiles for itself.
MustWaitMutant == FALSE

\* The process is not first_process_id.
MustWait == share

\* _cache_read, and the branch on what it returned.
PeerRead(i) ==
    /\ peer[i].at = "read"
    /\ \/ /\ files[peer[i].key] # NoPersistedExecutable
          /\ SetPeer(i, "returned", files[peer[i].key])
          /\ UNCHANGED <<compiled, faults>>
       \/ /\ \/ files[peer[i].key] = NoPersistedExecutable /\ UNCHANGED faults
             \/ files[peer[i].key] # NoPersistedExecutable /\ Fault
          /\ IF MustWait
             THEN SetPeer(i, "wait", 0) /\ UNCHANGED compiled
             ELSE SetPeer(i, "returned", compiled + 1) /\ compiled' = compiled + 1
    /\ UNCHANGED <<vars, shared, stage, key, executable, calls, compilations>>

\* blocking_key_value_get_bytes returns, or raises.
PeerGet(i) ==
    /\ peer[i].at = "wait" /\ kv[peer[i].key] # 0
    /\ SetPeer(i, "returned", kv[peer[i].key])
    /\ UNCHANGED <<vars, shared, stage, key, executable, calls, compiled, faults, compilations>>

PeerTimesOut(i) ==
    /\ peer[i].at = "wait"
    /\ SetPeer(i, "raised", 0)
    /\ UNCHANGED <<vars, shared, stage, key, executable, calls, compiled, faults, compilations>>

\* Another job makes room in the cache directory.
Evict(k) ==
    /\ files[k] # NoPersistedExecutable /\ Fault
    /\ files' = [files EXCEPT ![k] = NoPersistedExecutable]
    /\ UNCHANGED <<vars, share, modules_cache, kv, stage, key, executable, peer,
                   calls, compiled, compilations>>

ThreadStep(t) ==
    \/ CacheStep(t) \/ CompileUncached(t) \/ BeginRead(t) \/ EndRead(t)
    \/ Compile(t) \/ CompileRaises(t) \/ EndWrite(t) \/ Share(t)

ShareNext ==
    \/ \E t \in Threads : ThreadStep(t) \/ Reset(t) \/ \E k \in Keys : Begin(t, k)
    \/ \E i \in Peers : PeerRead(i) \/ PeerGet(i) \/ PeerTimesOut(i)
    \/ \E k \in Keys : Evict(k)

\* The threads of process 0 are scheduled.
ShareSpec ==
    /\ ShareInit /\ [][ShareNext]_allVars
    /\ \A t \in Threads : WF_allVars(ThreadStep(t))

(***************************************************************************)
(* Properties                                                              *)
(***************************************************************************)
\* Every call of compile_or_get_cached ends: the mutex is always given back,
\* also when the cache cannot be created.
CallsEnd == \A t \in Threads : ~NoCall(t) ~> NoCall(t)

\* "The process with the first_process_id should compile the module and write
\* it to the K-V storage": when a call of process 0 compiled an executable for
\* the persistent cache, or found one there, a process that waits for it will
\* find the key, unless files were lost or could not be read, or a compilation
\* raised.
PeersAreServed ==
    \A i \in Peers : \A t \in Threads :
        (/\ peer[i].at = "wait" /\ key[t] = peer[i].key /\ faults = 0
         /\ stage[t] = "ended" /\ executable[t] # 0)
            ~> (kv[peer[i].key] # 0 \/ faults > 0)

\* With sharing, all processes run the same executable of a key, provided that
\* process 0 compiled it once, had its cache all the time, nothing was lost, and
\* no thread of it was denied the cache: executables compiled twice may differ.
AllRunTheSameExecutable ==
    \A k \in Keys :
        LET others == {peer[j].executable : j \in {j \in Peers : peer[j].key = k}}
            own == {executable[u] : u \in {u \in Threads : key[u] = k /\ stage[u] = "ended"}}
        IN share /\ compilations[k] <= 1 /\ faults = 0 /\ failures = 0 /\ resets = 0
               => Cardinality((others \union own) \ {0}) <= 1
=============================================================================
