-------------------------- MODULE CompilationCache --------------------------
(***************************************************************************)
(* The module state of jax/_src/compilation_cache.py: when the persistent  *)
(* cache is checked for, created and reset by threads that compile.        *)
(*                                                                         *)
(* A section under _cache_initialized_mutex is one step, except that       *)
(* _initialize_cache creates the cache under the mutex in two steps:       *)
(* reset_cache and _get_cache touch _cache without the mutex.              *)
(***************************************************************************)
EXTENDS Naturals

CONSTANTS
    Threads,
    NoThread,
    Enabled,     \* config.enable_compilation_cache
    HasDir,      \* config.compilation_cache_dir is set
    Supported,   \* the backend's platform supports the cache
    MaxFailures, \* how often LRUCache(path, ...) may raise
    MaxResets    \* bound on the calls of reset_cache

ASSUME CompilationCacheAssumption ==
    /\ NoThread \notin Threads /\ MaxFailures \in Nat /\ MaxResets \in Nat
    /\ Enabled \in BOOLEAN /\ HasDir \in BOOLEAN /\ Supported \in BOOLEAN

VARIABLES
    _cache,              \* 0 for None, else the number of the cache object
    _cache_initialized, _cache_checked, _cache_used,
    mutex,               \* held across steps by _initialize_cache only
    pc,
    ret,                 \* what the thread's last call returned
    created, failures,   \* history: caches created, failed attempts
    reports,             \* history: metrics reported
    resets, resetsDone   \* history: calls of reset_cache begun and finished

flags == <<_cache_initialized, _cache_checked, _cache_used>>
history == <<created, failures, reports, resets, resetsDone>>
vars == <<_cache, flags, mutex, pc, ret, history>>

Init ==
    /\ _cache = 0
    /\ _cache_initialized = FALSE /\ _cache_checked = FALSE /\ _cache_used = FALSE
    /\ mutex = NoThread
    /\ pc = [t \in Threads |-> "idle"]
    /\ ret = [t \in Threads |-> "none"]
    /\ created = 0 /\ failures = 0 /\ reports = 0 /\ resets = 0 /\ resetsDone = 0

Goto(t, where) == pc' = [pc EXCEPT ![t] = where]
Returns(t, r) == Goto(t, "idle") /\ ret' = [ret EXCEPT ![t] = r]

\* Mutant: the cache is created outside the mutex.
MutexFreeMutant == TRUE

MutexFree == mutex = NoThread

UsedResult(b) == IF b THEN "used" ELSE "unused"

-----------------------------------------------------------------------------

\* The first mutex section of is_cache_used.
is_cache_used(t) ==
    /\ pc[t] = "idle" /\ MutexFree
    /\ \/ _cache_checked /\ Returns(t, UsedResult(_cache_used))
       \/ ~_cache_checked /\ Goto(t, "check") /\ UNCHANGED ret
    /\ UNCHANGED <<_cache, flags, mutex, history>>

\* Mutant: the flag is not looked at again.
CheckAgainMutant == TRUE

\* `if not _cache_checked` in the second section
CheckAgain == ~_cache_checked

\* The second one, which falls through to `return False`.
CheckAndReport(t) ==
    /\ pc[t] = "check" /\ MutexFree
    /\ \/ /\ CheckAgain
          /\ _cache_checked' = TRUE
          /\ _cache_used' = (_cache_used \/ (Enabled /\ Supported))
          /\ reports' = reports + (IF ~Enabled \/ Supported THEN 1 ELSE 0)
          /\ Returns(t, UsedResult(_cache_used'))
       \/ ~CheckAgain /\ Returns(t, "unused") /\ UNCHANGED <<_cache_checked, _cache_used, reports>>
    /\ UNCHANGED <<_cache, _cache_initialized, mutex, created, failures, resets, resetsDone>>

-----------------------------------------------------------------------------

\* _get_cache: `if _cache is None: _initialize_cache()`.
_get_cache(t) ==
    /\ pc[t] = "idle"
    /\ Goto(t, IF _cache = 0 THEN "initialize" ELSE "return")
    /\ ret' = [ret EXCEPT ![t] = "none"]
    /\ UNCHANGED <<_cache, flags, mutex, history>>

\* Mutant: the flag is not consulted.
MustInitializeMutant == HasDir /\ Enabled

MustInitialize == ~_cache_initialized /\ HasDir /\ Enabled

\* _initialize_cache, up to and including the assertion.
_initialize_cache(t) ==
    /\ pc[t] = "initialize" /\ MutexFree
    /\ \/ ~MustInitialize /\ Goto(t, "return") /\ UNCHANGED <<_cache_initialized, mutex, ret>>
       \/ /\ MustInitialize
          /\ _cache_initialized' = TRUE
          /\ \/ _cache = 0 /\ Goto(t, "create") /\ mutex' = t /\ UNCHANGED ret
             \/ _cache # 0 /\ Returns(t, "AssertionError") /\ UNCHANGED mutex
    /\ UNCHANGED <<_cache, _cache_checked, _cache_used, history>>

\* Mutant: an exception leaves the mutex locked.
CreateCacheMutant(t) ==
    /\ pc[t] = "create"
    /\ \/ /\ created' = created + 1
          /\ _cache' = created + 1
          /\ mutex' = NoThread
          /\ Goto(t, "return") /\ UNCHANGED <<ret, failures>>
       \/ /\ failures < MaxFailures
          /\ failures' = failures + 1
          /\ Returns(t, "RuntimeError")
          /\ UNCHANGED <<_cache, created, mutex>>
    /\ UNCHANGED <<flags, reports, resets, resetsDone>>

\* get_file_cache and the assignment of _cache, still under the mutex.
CreateCache(t) ==
    /\ pc[t] = "create"
    /\ mutex' = NoThread
    /\ \/ /\ created' = created + 1
          /\ _cache' = created + 1
          /\ Goto(t, "return") /\ UNCHANGED <<ret, failures>>
       \/ /\ failures < MaxFailures
          /\ failures' = failures + 1
          /\ Returns(t, "RuntimeError")
          /\ UNCHANGED <<_cache, created>>
    /\ UNCHANGED <<flags, reports, resets, resetsDone>>

\* `return _cache`, read again and without the mutex.
ReturnCache(t) ==
    /\ pc[t] = "return"
    /\ Returns(t, IF _cache = 0 THEN "None" ELSE "cache")
    /\ UNCHANGED <<_cache, flags, mutex, history>>

\* reset_cache clears _cache without the mutex ...
reset_cache(t) ==
    /\ pc[t] = "idle" /\ resets < MaxResets
    /\ _cache' = 0
    /\ resets' = resets + 1
    /\ Goto(t, "reset")
    /\ UNCHANGED <<flags, mutex, ret, created, failures, reports, resetsDone>>

\* ... and then the flags under it.
ResetFlags(t) ==
    /\ pc[t] = "reset" /\ MutexFree
    /\ _cache_initialized' = FALSE /\ _cache_checked' = FALSE /\ _cache_used' = FALSE
    /\ resetsDone' = resetsDone + 1
    /\ Returns(t, "none")
    /\ UNCHANGED <<_cache, mutex, created, failures, reports, resets>>

Next ==
    \E t \in Threads :
        \/ is_cache_used(t) \/ CheckAndReport(t)
        \/ _get_cache(t) \/ _initialize_cache(t) \/ CreateCache(t) \/ ReturnCache(t)
        \/ reset_cache(t) \/ ResetFlags(t)

Spec == Init /\ [][Next]_vars

-----------------------------------------------------------------------------

\* The types of the module state and of the threads that use it.
TypeOK ==
    /\ _cache \in Nat /\ mutex \in Threads \cup {NoThread}
    /\ _cache_initialized \in BOOLEAN /\ _cache_checked \in BOOLEAN /\ _cache_used \in BOOLEAN
    /\ pc \in [Threads -> {"idle", "check", "initialize", "create", "return", "reset"}]
    /\ ret \in [Threads -> {"none", "used", "unused", "cache", "None", "AssertionError",
                            "RuntimeError"}]
    /\ created \in Nat /\ failures \in Nat /\ reports \in Nat /\ resets \in Nat /\ resetsDone \in Nat

\* "report adoption metrics one-time per task": at most one report between two
\* resets, however many threads ask for the first time at once.
ReportedOncePerReset == reports <= resetsDone + 1

\* "Attempt to initialize the cache at most once": at most one cache is created
\* between two resets.
CreatedOncePerReset == created <= resetsDone + 1

\* A thread that asks for an enabled cache gets it; only a reset or a failure
\* to create it makes _get_cache return None.
EnabledCacheIsReturned ==
    Enabled /\ HasDir /\ resets = 0 /\ failures = 0 => \A t \in Threads : ret[t] # "None"

\* `assert _cache is None, "The cache has already been initialized!"` holds
\* unless the cache is reset: then a thread that saw _cache None before may find
\* a new cache and a cleared flag.
NeverInitializedTwice == resets = 0 => \A t \in Threads : ret[t] # "AssertionError"

\* Until somebody resets the cache or its creation fails, every thread that asks
\* for it gets it, and no thread runs into the assertion of _initialize_cache.
CacheIsThereForAll == TypeOK /\ EnabledCacheIsReturned /\ NeverInitializedTwice
=============================================================================
