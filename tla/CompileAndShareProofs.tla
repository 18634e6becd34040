----------------------- MODULE CompileAndShareProofs ------------------------
(***************************************************************************)
(* First the module state of the cache: however many threads compile at    *)
(* once, it is reported and created at most once between two resets, and   *)
(* nobody is denied it.  Then compile_or_get_cached: compiling, sharing    *)
(* and resetting, the threads of a process use the module state as         *)
(* CompilationCache says, so that what is proved of the one holds of the   *)
(* other, and with sharing all processes run the same executable.          *)
(***************************************************************************)
EXTENDS CompileAndShare, FiniteSetTheorems, TLAPS

\* Who holds the mutex across steps is creating the cache.
MutexOK == \A t \in Threads : pc[t] = "create" <=> mutex = t

One(b) == IF b THEN 1 ELSE 0

\* A set flag stands for one report, and for one cache that was created, is
\* being created or could not be created.
Counted ==
    /\ reports <= resetsDone + One(_cache_checked)
    /\ created + One(mutex # NoThread) <= resetsDone + One(_cache_initialized)

\* As long as nobody calls reset_cache: no thread runs into the assertion, a
\* cache stands behind the flag unless it is being created or could not be, and
\* a thread about to return the cache has one.
Unreset ==
    resets = 0 =>
        /\ \A t \in Threads : pc[t] # "reset" /\ ret[t] # "AssertionError"
        /\ _cache # 0 \/ mutex # NoThread => _cache_initialized
        /\ failures = 0 /\ _cache_initialized => _cache # 0 \/ mutex # NoThread
        /\ failures = 0 /\ Enabled /\ HasDir =>
              \A t \in Threads : (pc[t] = "return" => _cache # 0) /\ ret[t] # "None"

\* What a thread was told: only an enabled cache is used, and only a failure to
\* create the cache raises.
Answers ==
    /\ _cache_used => Enabled
    /\ \A t \in Threads :
        (ret[t] = "used" => Enabled) /\ (ret[t] = "RuntimeError" => failures # 0)

CacheInv == TypeOK /\ MutexOK /\ Counted /\ Unreset /\ Answers

\* The invariant holds before any thread compiles.
LEMMA CacheInit == Init => CacheInv
<1> SUFFICES ASSUME Init PROVE CacheInv
  OBVIOUS
<1>1. _cache_initialized \in BOOLEAN /\ _cache_checked \in BOOLEAN /\ _cache_used \in BOOLEAN
  BY DEF Init
<1>2. TypeOK
  BY <1>1 DEF Init, TypeOK
<1>3. MutexOK /\ Counted
  BY CompilationCacheAssumption DEF Init, MutexOK, Counted, One
<1>4. Unreset /\ Answers
  BY DEF Init, Unreset, Answers
<1> QED
  BY <1>2, <1>3, <1>4 DEF CacheInv

\* Each step of a thread keeps the types.
LEMMA TypeStep ==
    ASSUME TypeOK, NEW t \in Threads,
           \/ is_cache_used(t) \/ CheckAndReport(t) \/ _get_cache(t) \/ _initialize_cache(t)
           \/ CreateCache(t) \/ ReturnCache(t) \/ reset_cache(t) \/ ResetFlags(t)
    PROVE  TypeOK'
<1> USE DEF TypeOK, flags, history, Goto, Returns, UsedResult
<1>1. CASE is_cache_used(t)
  BY <1>1 DEF is_cache_used
<1>2. CASE CheckAndReport(t)
  <2>1. (_cache_used \/ (Enabled /\ Supported)) \in BOOLEAN
    BY Zenon
  <2>2. CASE CheckAgain
    BY <1>2, <2>1, <2>2 DEF CheckAndReport
  <2>3. CASE ~CheckAgain
    BY <1>2, <2>3 DEF CheckAndReport
  <2> QED
    BY <2>2, <2>3
<1>3. CASE _get_cache(t)
  BY <1>3 DEF _get_cache
<1>4. CASE _initialize_cache(t)
  BY <1>4 DEF _initialize_cache
<1>5. CASE CreateCache(t)
  BY <1>5 DEF CreateCache
<1>6. CASE ReturnCache(t)
  BY <1>6 DEF ReturnCache
<1>7. CASE reset_cache(t)
  BY <1>7 DEF reset_cache
<1>8. CASE ResetFlags(t)
  <2>1. /\ _cache_initialized' \in BOOLEAN /\ _cache_checked' \in BOOLEAN
        /\ _cache_used' \in BOOLEAN
    BY <1>8 DEF ResetFlags
  <2>2. /\ resetsDone' \in Nat /\ UNCHANGED <<_cache, mutex, created, failures, reports, resets>>
        /\ pc' = [pc EXCEPT ![t] = "idle"] /\ ret' = [ret EXCEPT ![t] = "none"]
    BY <1>8 DEF ResetFlags
  <2> QED
    BY <2>1, <2>2
<1> QED
  BY <1>1, <1>2, <1>3, <1>4, <1>5, <1>6, <1>7, <1>8

\* Each step of a thread keeps the counts.
LEMMA CountStep ==
    ASSUME CacheInv, NEW t \in Threads,
           \/ is_cache_used(t) \/ CheckAndReport(t) \/ _get_cache(t) \/ _initialize_cache(t)
           \/ CreateCache(t) \/ ReturnCache(t) \/ reset_cache(t) \/ ResetFlags(t)
    PROVE  MutexOK' /\ Counted'
<1>0. /\ pc \in [Threads -> {"idle", "check", "initialize", "create", "return", "reset"}]
      /\ created \in Nat /\ reports \in Nat /\ resetsDone \in Nat
      /\ NoThread \notin Threads
  BY CompilationCacheAssumption DEF CacheInv, TypeOK
<1> USE <1>0 DEF CacheInv, MutexOK, Counted, One, flags, history, Goto, Returns, MutexFree
<1>1. CASE is_cache_used(t)
  BY <1>1 DEF is_cache_used
<1>2. CASE CheckAndReport(t)
  <2>1. CASE CheckAgain
    BY <1>2, <2>1 DEF CheckAndReport, CheckAgain
  <2>2. CASE ~CheckAgain
    BY <1>2, <2>2 DEF CheckAndReport
  <2> QED
    BY <2>1, <2>2
<1>3. CASE _get_cache(t)
  BY <1>3 DEF _get_cache
<1>4. CASE _initialize_cache(t)
  BY <1>4 DEF _initialize_cache, MustInitialize
<1>5. CASE CreateCache(t)
  BY <1>5 DEF CreateCache
<1>6. CASE ReturnCache(t)
  BY <1>6 DEF ReturnCache
<1>7. CASE reset_cache(t)
  BY <1>7 DEF reset_cache
<1>8. CASE ResetFlags(t)
  BY <1>8 DEF ResetFlags
<1> QED
  BY <1>1, <1>2, <1>3, <1>4, <1>5, <1>6, <1>7, <1>8

\* Each step of a thread keeps what holds before the first reset, and answers
\* in keeping with it.
LEMMA UnresetStep ==
    ASSUME CacheInv, NEW t \in Threads,
           \/ is_cache_used(t) \/ CheckAndReport(t) \/ _get_cache(t) \/ _initialize_cache(t)
           \/ CreateCache(t) \/ ReturnCache(t) \/ reset_cache(t) \/ ResetFlags(t)
    PROVE  Unreset' /\ Answers'
<1>0. /\ pc \in [Threads -> {"idle", "check", "initialize", "create", "return", "reset"}]
      /\ DOMAIN ret = Threads
      /\ created \in Nat /\ resets \in Nat /\ failures \in Nat /\ _cache \in Nat
      /\ NoThread \notin Threads
  BY CompilationCacheAssumption DEF CacheInv, TypeOK
<1> USE <1>0 DEF CacheInv, MutexOK, Unreset, Answers, flags, history, Goto, Returns, MutexFree
<1>1. CASE is_cache_used(t)
  BY <1>1 DEF is_cache_used, UsedResult
<1>2. CASE CheckAndReport(t)
  <2>1. CASE CheckAgain
    <3>1. /\ _cache_used' <=> _cache_used \/ (Enabled /\ Supported)
          /\ pc' = [pc EXCEPT ![t] = "idle"]
          /\ \/ _cache_used' /\ ret' = [ret EXCEPT ![t] = "used"]
             \/ ~_cache_used' /\ ret' = [ret EXCEPT ![t] = "unused"]
          /\ UNCHANGED <<_cache, _cache_initialized, mutex, failures, resets>>
      BY <1>2, <2>1 DEF CheckAndReport, UsedResult
    <3> QED
      BY <3>1
  <2>2. CASE ~CheckAgain
    BY <1>2, <2>2 DEF CheckAndReport
  <2> QED
    BY <2>1, <2>2
<1>3. CASE _get_cache(t)
  BY <1>3 DEF _get_cache
<1>4. CASE _initialize_cache(t)
  BY <1>4 DEF _initialize_cache, MustInitialize
<1>5. CASE CreateCache(t)
  BY <1>5 DEF CreateCache
<1>6. CASE ReturnCache(t)
  BY <1>6 DEF ReturnCache
<1>7. CASE reset_cache(t)
  BY <1>7 DEF reset_cache
<1>8. CASE ResetFlags(t)
  BY <1>8 DEF ResetFlags
<1> QED
  BY <1>1, <1>2, <1>3, <1>4, <1>5, <1>6, <1>7, <1>8

\* Every step keeps the invariant.
LEMMA CacheNext == CacheInv /\ [Next]_vars => CacheInv'
<1> SUFFICES ASSUME CacheInv, [Next]_vars PROVE CacheInv'
  OBVIOUS
<1>1. CASE UNCHANGED vars
  BY <1>1 DEF vars, flags, history, CacheInv, TypeOK, MutexOK, Counted, Unreset, Answers
<1>2. CASE Next
  <2>1. PICK t \in Threads :
           \/ is_cache_used(t) \/ CheckAndReport(t) \/ _get_cache(t) \/ _initialize_cache(t)
           \/ CreateCache(t) \/ ReturnCache(t) \/ reset_cache(t) \/ ResetFlags(t)
    BY <1>2 DEF Next
  <2>2. TypeOK'
    BY <2>1, TypeStep DEF CacheInv
  <2>3. MutexOK' /\ Counted'
    BY <2>1, CountStep
  <2>4. Unreset' /\ Answers'
    BY <2>1, UnresetStep
  <2> QED
    BY <2>2, <2>3, <2>4 DEF CacheInv
<1> QED
  BY <1>1, <1>2

\* The adoption metrics are reported at most once between two resets
\* (is_cache_used).
THEOREM ReportsBounded == Spec => []ReportedOncePerReset
<1>1. CacheInv => ReportedOncePerReset
  BY DEF CacheInv, TypeOK, Counted, One, ReportedOncePerReset
<1> QED
  BY <1>1, CacheInit, CacheNext, PTL DEF Spec

\* At most one cache is created between two resets (_initialize_cache).
THEOREM CreationsBounded == Spec => []CreatedOncePerReset
<1>1. CacheInv => CreatedOncePerReset
  BY DEF CacheInv, TypeOK, Counted, One, CreatedOncePerReset
<1> QED
  BY <1>1, CacheInit, CacheNext, PTL DEF Spec

\* Until the cache is reset or its creation fails, every thread that asks for
\* an enabled cache gets it, and none runs into the assertion of
\* _initialize_cache (_get_cache, _initialize_cache).
THEOREM CacheForAll == Spec => []CacheIsThereForAll
<1>1. CacheInv => CacheIsThereForAll
  BY DEF CacheInv, Unreset, CacheIsThereForAll, EnabledCacheIsReturned, NeverInitializedTwice
<1> QED
  BY <1>1, CacheInit, CacheNext, PTL DEF Spec

-----------------------------------------------------------------------------

\* A step of a thread inside a call is a step of the module state, or leaves
\* it alone.
LEMMA ThreadUsesCache ==
    ASSUME NEW t \in Threads, ThreadStep(t)
    PROVE  [Next]_vars
<1>1. CASE CacheStep(t)
  BY <1>1 DEF CacheStep, Next
<1>2. CASE BeginRead(t)
  BY <1>2 DEF BeginRead, Next
<1>3. CASE Compile(t)
  <2>1. CASE _get_cache(t)
    BY <2>1 DEF Next
  <2>2. CASE UNCHANGED vars
    BY <2>2
  <2> QED
    BY <1>3, <2>1, <2>2 DEF Compile
<1>4. CASE CompileUncached(t) \/ EndRead(t) \/ CompileRaises(t) \/ EndWrite(t) \/ Share(t)
  BY <1>4 DEF CompileUncached, EndRead, CompileRaises, EndWrite, Share
<1> QED
  BY <1>1, <1>2, <1>3, <1>4 DEF ThreadStep

\* So is every step of the whole system: other processes and lost files do not
\* touch the module state.
LEMMA StepUsesCache == [ShareNext]_allVars => [Next]_vars
<1> SUFFICES ASSUME [ShareNext]_allVars PROVE [Next]_vars
  OBVIOUS
<1>1. CASE UNCHANGED allVars
  BY <1>1 DEF allVars
<1>2. ASSUME NEW t \in Threads, ThreadStep(t) PROVE [Next]_vars
  BY <1>2, ThreadUsesCache
<1>3. ASSUME NEW t \in Threads, Reset(t) PROVE [Next]_vars
  BY <1>3 DEF Reset, Next
<1>4. ASSUME NEW t \in Threads, NEW k \in Keys, Begin(t, k) PROVE [Next]_vars
  BY <1>4 DEF Begin, Next
<1>5. ASSUME NEW i \in Peers, PeerRead(i) \/ PeerGet(i) \/ PeerTimesOut(i) PROVE [Next]_vars
  BY <1>5 DEF PeerRead, PeerGet, PeerTimesOut
<1>6. ASSUME NEW k \in Keys, Evict(k) PROVE [Next]_vars
  BY <1>6 DEF Evict
<1> QED
  BY <1>1, <1>2, <1>3, <1>4, <1>5, <1>6 DEF ShareNext

\* compile_or_get_cached implements the protocol of the module state.
THEOREM SharingUsesCache == ShareSpec => Spec
<1>1. ShareInit => Init
  BY DEF ShareInit
<1> QED
  BY <1>1, StepUsesCache, PTL DEF ShareSpec, Spec

\* Also while executables are compiled and shared, the adoption metrics are
\* reported at most once between two resets (is_cache_used).
THEOREM SharingReportsOnce == ShareSpec => []ReportedOncePerReset
  BY SharingUsesCache, ReportsBounded, PTL

\* Also while executables are compiled and shared, at most one cache is created
\* between two resets (_initialize_cache).
THEOREM SharingCreatesOnce == ShareSpec => []CreatedOncePerReset
  BY SharingUsesCache, CreationsBounded, PTL

\* Also while executables are compiled and shared, nobody is denied the cache
\* (_get_cache, _initialize_cache).
THEOREM SharingFindsCache == ShareSpec => []CacheIsThereForAll
  BY SharingUsesCache, CacheForAll, PTL

-----------------------------------------------------------------------------

\* The types of what compile_or_get_cached adds to the module state.
ShareTypes ==
    /\ share \in BOOLEAN
    /\ files \in [Keys -> Nat] /\ modules_cache \in [Keys -> Nat] /\ kv \in [Keys -> Nat]
    /\ stage \in [Threads -> {"ended", "uncached", "key", "read", "compile", "write", "share"}]
    /\ key \in [Threads -> Keys] /\ executable \in [Threads -> Nat]
    /\ peer \in [Peers -> [key : Keys, at : {"read", "wait", "returned", "raised"},
                           executable : Nat]]
    /\ compiled \in Nat /\ faults \in Nat /\ compilations \in [Keys -> Nat]

\* A thread that reads the persistent cache was told that it is used, and has
\* been answered by _get_cache when it is back from it.
Reading ==
    \A t \in Threads : stage[t] = "read" =>
        /\ Enabled
        /\ pc[t] \in {"idle", "initialize", "create", "return"}
        /\ pc[t] = "idle" => ret[t] \in {"cache", "None", "AssertionError", "RuntimeError"}

\* The case AllRunTheSameExecutable is about.
Smooth(k) == share /\ compilations[k] <= 1 /\ faults = 0 /\ failures = 0 /\ resets = 0

\* The executables of a key that can still be run or handed on.
Candidates(k) ==
    {files[k], modules_cache[k], kv[k]}
        \union {executable[t] : t \in {t \in Threads : key[t] = k /\ stage[t] # "uncached"}}
        \union {peer[i].executable : i \in {i \in Peers : peer[i].key = k}}

\* There is at most one, 0 standing for none.
OneCandidate == \A k \in Keys : Smooth(k) => \E e \in Nat : Candidates(k) \subseteq {0, e}

\* Before the first compilation the only one is the file of an earlier job, and
\* a thread that is about to compile found no such file.
Untouched ==
    \A k \in Keys : Smooth(k) /\ compilations[k] = 0 =>
        /\ Candidates(k) \subseteq {0, files[k]}
        /\ ~HasDir => files[k] = 0
        /\ \A t \in Threads : key[t] = k /\ stage[t] = "compile" => files[k] = 0

ShareInv == ShareTypes /\ Reading /\ OneCandidate /\ Untouched

\* The invariant holds when the job starts.
LEMMA ShareStart == ShareInit => ShareInv
<1> SUFFICES ASSUME ShareInit PROVE ShareInv
  OBVIOUS
<1>1. PICK old \in SUBSET Keys :
         /\ files = [k \in Keys |-> IF k \in old THEN 1 ELSE 0]
         /\ ~HasDir => old = {}
  BY DEF ShareInit
<1>2. PICK ks \in [Peers -> Keys] :
         peer = [i \in Peers |-> [key |-> ks[i], at |-> "read", executable |-> 0]]
  BY DEF ShareInit
<1>3. /\ share \in BOOLEAN /\ key \in [Threads -> Keys]
      /\ modules_cache = [k \in Keys |-> 0] /\ kv = [k \in Keys |-> 0]
      /\ stage = [t \in Threads |-> "ended"] /\ executable = [t \in Threads |-> 0]
      /\ compiled = 1 /\ faults = 0 /\ compilations = [k \in Keys |-> 0]
  BY DEF ShareInit
<1>4. ShareTypes
  BY <1>1, <1>2, <1>3 DEF ShareTypes
<1>5. Reading
  BY <1>3 DEF Reading
<1>6. ASSUME NEW k \in Keys
      PROVE  /\ Candidates(k) \subseteq {0, files[k]} /\ files[k] \in Nat
             /\ ~HasDir => files[k] = 0
  <2>1. files[k] \in Nat /\ modules_cache[k] = 0 /\ kv[k] = 0
    BY <1>1, <1>3
  <2>2. \A t \in Threads : executable[t] = 0
    BY <1>3
  <2>3. \A i \in Peers : peer[i].executable = 0
    BY <1>2
  <2>4. ~HasDir => files[k] = 0
    BY <1>1
  <2> QED
    BY <2>1, <2>2, <2>3, <2>4 DEF Candidates
<1>7. OneCandidate
  BY <1>6 DEF OneCandidate
<1>8. Untouched
  BY <1>3, <1>6 DEF Untouched
<1> QED
  BY <1>4, <1>5, <1>7, <1>8 DEF ShareInv

\* A step that brings in no new executable of a key, and lets nobody go on to
\* compile beside a file, keeps the two invariants about executables.
LEMMA NothingNew ==
    ASSUME OneCandidate, Untouched,
           \A k \in Keys : Smooth(k)' =>
              /\ Smooth(k)
              /\ Candidates(k)' \subseteq Candidates(k) \union {0}
              /\ compilations'[k] = 0 =>
                    /\ compilations[k] = 0
                    /\ files'[k] = files[k]
                    /\ \A t \in Threads : key'[t] = k /\ stage'[t] = "compile" =>
                          files[k] = 0 \/ (key[t] = k /\ stage[t] = "compile")
    PROVE  OneCandidate' /\ Untouched'
<1>1. OneCandidate'
  <2> SUFFICES ASSUME NEW k \in Keys, Smooth(k)'
               PROVE  \E e \in Nat : Candidates(k)' \subseteq {0, e}
    BY DEF OneCandidate
  <2>1. PICK e \in Nat : Candidates(k) \subseteq {0, e}
    BY DEF OneCandidate
  <2>2. Candidates(k)' \subseteq {0, e}
    BY <2>1
  <2> QED
    BY <2>2
<1>2. Untouched'
  <2> SUFFICES ASSUME NEW k \in Keys, Smooth(k)', compilations'[k] = 0
               PROVE  /\ Candidates(k)' \subseteq {0, files'[k]}
                      /\ ~HasDir => files'[k] = 0
                      /\ \A t \in Threads :
                            key'[t] = k /\ stage'[t] = "compile" => files'[k] = 0
    BY DEF Untouched
  <2>1. /\ Smooth(k) /\ compilations[k] = 0 /\ files'[k] = files[k]
        /\ Candidates(k)' \subseteq Candidates(k) \union {0}
    OBVIOUS
  <2>2. /\ Candidates(k) \subseteq {0, files[k]}
        /\ ~HasDir => files[k] = 0
        /\ \A t \in Threads : key[t] = k /\ stage[t] = "compile" => files[k] = 0
    BY <2>1 DEF Untouched
  <2> QED
    BY <2>1, <2>2
<1> QED
  BY <1>1, <1>2

\* Failures and resets are never forgotten.
LEMMA NeverForgotten ==
    ASSUME TypeOK, [Next]_vars
    PROVE  (failures' = 0 => failures = 0) /\ (resets' = 0 => resets = 0)
<1>0. failures \in Nat /\ resets \in Nat
  BY DEF TypeOK
<1>1. CASE UNCHANGED vars
  BY <1>1 DEF vars, history
<1>2. CASE Next
  BY <1>0, <1>2 DEF Next, is_cache_used, CheckAndReport, _get_cache, _initialize_cache,
        CreateCache, ReturnCache, reset_cache, ResetFlags, history
<1> QED
  BY <1>1, <1>2

\* The steps of threads keep the types.
LEMMA ThreadTypes ==
    ASSUME ShareTypes, NEW t \in Threads,
           \/ ThreadStep(t) \/ Reset(t) \/ \E k \in Keys : Begin(t, k)
    PROVE  ShareTypes'
<1> USE DEF ShareTypes, shareVars, shared, Stage, Returned, Fault, backend_compile_and_load
<1>1. CASE CacheStep(t) \/ Reset(t)
  BY <1>1 DEF CacheStep, Reset
<1>2. CASE \E k \in Keys : Begin(t, k)
  BY <1>2 DEF Begin
<1>3. CASE CompileUncached(t)
  BY <1>3 DEF CompileUncached
<1>4. CASE BeginRead(t)
  BY <1>4 DEF BeginRead
<1>5. CASE EndRead(t)
  BY <1>5 DEF EndRead
<1>6. CASE Compile(t)
  BY <1>6 DEF Compile
<1>7. CASE CompileRaises(t)
  BY <1>7 DEF CompileRaises
<1>8. CASE EndWrite(t)
  BY <1>8 DEF EndWrite, Put
<1>9. CASE Share(t)
  BY <1>9 DEF Share, ShareKey
<1> QED
  BY <1>1, <1>2, <1>3, <1>4, <1>5, <1>6, <1>7, <1>8, <1>9 DEF ThreadStep

\* So do other processes and evictions.
LEMMA OtherTypes ==
    ASSUME ShareTypes,
           \/ \E i \in Peers : PeerRead(i) \/ PeerGet(i) \/ PeerTimesOut(i)
           \/ \E k \in Keys : Evict(k)
    PROVE  ShareTypes'
<1> USE DEF ShareTypes, shared, SetPeer, Fault
<1>1. ASSUME NEW i \in Peers, PeerRead(i) PROVE ShareTypes'
  <2>1. files[peer[i].key] \in Nat /\ compiled + 1 \in Nat
    BY <1>1
  <2>2. \E at \in {"wait", "returned"}, e \in Nat : SetPeer(i, at, e)
    BY <1>1, <2>1 DEF PeerRead
  <2>3. peer' \in [Peers -> [key : Keys, at : {"read", "wait", "returned", "raised"},
                            executable : Nat]]
    <3>1. PICK at \in {"wait", "returned"}, e \in Nat : SetPeer(i, at, e)
      BY <2>2
    <3>2. peer' = [peer EXCEPT ![i] = [peer[i] EXCEPT !.at = at, !.executable = e]]
      BY <3>1
    <3>3. [peer[i] EXCEPT !.at = at, !.executable = e] \in
             [key : Keys, at : {"read", "wait", "returned", "raised"}, executable : Nat]
      BY <1>1
    <3> QED
      BY <3>2, <3>3
  <2>4. compiled' \in Nat /\ faults' \in Nat
        /\ UNCHANGED <<shared, stage, key, executable, compilations>>
    BY <1>1 DEF PeerRead
  <2> QED
    BY <2>3, <2>4
<1>2. ASSUME NEW i \in Peers, PeerGet(i) PROVE ShareTypes'
  BY <1>2 DEF PeerGet
<1>3. ASSUME NEW i \in Peers, PeerTimesOut(i) PROVE ShareTypes'
  BY <1>3 DEF PeerTimesOut
<1>4. ASSUME NEW k \in Keys, Evict(k) PROVE ShareTypes'
  BY <1>4 DEF Evict, NoPersistedExecutable
<1> QED
  BY <1>1, <1>2, <1>3, <1>4

\* A thread comes back from _get_cache with an answer.
LEMMA ReadingStep ==
    ASSUME CacheInv, ShareTypes, Reading, [ShareNext]_allVars
    PROVE  Reading'
<1>0. /\ pc \in [Threads -> {"idle", "check", "initialize", "create", "return", "reset"}]
      /\ DOMAIN ret = Threads /\ DOMAIN stage = Threads
      /\ \A t \in Threads : ret[t] = "used" => Enabled
  BY DEF CacheInv, TypeOK, Answers, ShareTypes
<1> USE <1>0 DEF Reading, shareVars, shared, Stage, Returned, Goto, Returns
<1>1. CASE UNCHANGED allVars
  BY <1>1 DEF allVars, vars
<1>2. ASSUME NEW t \in Threads, CacheStep(t) PROVE Reading'
  BY <1>2 DEF CacheStep, CheckAndReport, _initialize_cache, CreateCache, ReturnCache, ResetFlags
<1>3. ASSUME NEW t \in Threads, Reset(t) PROVE Reading'
  BY <1>3 DEF Reset, NoCall, reset_cache
<1>4. ASSUME NEW t \in Threads, NEW k \in Keys, Begin(t, k) PROVE Reading'
  BY <1>4 DEF Begin, NoCall, is_cache_used
<1>5. ASSUME NEW t \in Threads, BeginRead(t) PROVE Reading'
  BY <1>5 DEF BeginRead, _get_cache
<1>6. ASSUME NEW t \in Threads, Compile(t) PROVE Reading'
  BY <1>6 DEF Compile, _get_cache, vars
<1>7. ASSUME NEW t \in Threads,
             CompileUncached(t) \/ EndRead(t) \/ CompileRaises(t) \/ EndWrite(t) \/ Share(t)
      PROVE  Reading'
  BY <1>7 DEF CompileUncached, EndRead, CompileRaises, EndWrite, Share, vars
<1>8. ASSUME NEW i \in Peers, PeerRead(i) \/ PeerGet(i) \/ PeerTimesOut(i) PROVE Reading'
  BY <1>8 DEF PeerRead, PeerGet, PeerTimesOut, vars
<1>9. ASSUME NEW k \in Keys, Evict(k) PROVE Reading'
  BY <1>9 DEF Evict, vars
<1> QED
  BY <1>1, <1>2, <1>3, <1>4, <1>5, <1>6, <1>7, <1>8, <1>9 DEF ShareNext, ThreadStep

\* No step of a thread but a compilation brings in an executable.
LEMMA ThreadBringsNothingNew ==
    ASSUME CacheInv, ShareInv, [Next]_vars, NEW t \in Threads,
           \/ CompileUncached(t) \/ BeginRead(t) \/ EndRead(t) \/ CompileRaises(t)
           \/ EndWrite(t) \/ Share(t) \/ \E k \in Keys : Begin(t, k),
           NEW k \in Keys, Smooth(k)'
    PROVE  /\ Smooth(k)
           /\ Candidates(k)' \subseteq Candidates(k) \union {0}
           /\ compilations'[k] = 0 =>
                 /\ compilations[k] = 0
                 /\ files'[k] = files[k]
                 /\ \A u \in Threads : key'[u] = k /\ stage'[u] = "compile" =>
                       files[k] = 0 \/ (key[u] = k /\ stage[u] = "compile")
<1>0. /\ files \in [Keys -> Nat] /\ modules_cache \in [Keys -> Nat] /\ kv \in [Keys -> Nat]
      /\ DOMAIN stage = Threads /\ key \in [Threads -> Keys] /\ executable \in [Threads -> Nat]
      /\ faults \in Nat /\ compilations \in [Keys -> Nat]
  BY DEF ShareInv, ShareTypes
<1>1. (failures' = 0 => failures = 0) /\ (resets' = 0 => resets = 0)
  BY NeverForgotten DEF CacheInv
<1>2. share' /\ compilations'[k] <= 1 /\ faults' = 0 /\ failures' = 0 /\ resets' = 0
  BY DEF Smooth
<1>f. ~Fault
  BY <1>0, <1>2 DEF Fault
<1> DEFINE Member(x) ==
        \/ x = files[k] \/ x = modules_cache[k] \/ x = kv[k]
        \/ \E u \in Threads : key[u] = k /\ stage[u] # "uncached" /\ x = executable[u]
        \/ \E i \in Peers : peer[i].key = k /\ x = peer[i].executable
<1>3. \A x : x \in Candidates(k) <=> Member(x)
  BY DEF Candidates
<1>4. \A x : x \in Candidates(k)' <=>
        \/ x = files'[k] \/ x = modules_cache'[k] \/ x = kv'[k]
        \/ \E u \in Threads : key'[u] = k /\ stage'[u] # "uncached" /\ x = executable'[u]
        \/ \E i \in Peers : peer'[i].key = k /\ x = peer'[i].executable
  BY DEF Candidates
<1> USE DEF shared, Stage, Returned, backend_compile_and_load
<1>5. CASE CompileUncached(t)
  BY <1>0, <1>1, <1>2, <1>3, <1>4, <1>5 DEF CompileUncached, Smooth
<1>6. CASE BeginRead(t)
  BY <1>0, <1>1, <1>2, <1>3, <1>4, <1>6 DEF BeginRead, Smooth
<1>7. CASE EndRead(t)
  <2>1. /\ faults' = faults /\ UNCHANGED <<shared, key, peer, compilations>>
        /\ \/ Hit(t) /\ Returned(t, files[key[t]])
           \/ share /\ Returned(t, modules_cache[key[t]])
           \/ ~Hit(t) /\ stage' = [stage EXCEPT ![t] = "compile"] /\ UNCHANGED executable
    BY <1>f, <1>7 DEF EndRead
  <2>2. Smooth(k)
    BY <1>1, <1>2, <2>1 DEF Smooth
  <2>3. Candidates(k)' \subseteq Candidates(k) \union {0}
    BY <1>0, <1>3, <1>4, <1>7, <2>1 DEF EndRead
  <2>4. compilations[k] = 0 /\ key[t] = k /\ ~Hit(t) => files[k] = 0
    <3>1. stage[t] = "read" /\ pc[t] = "idle" /\ failures = 0 /\ resets = 0
      BY <1>1, <1>2, <1>7 DEF EndRead
    <3>2. Enabled /\ ret[t] \in {"cache", "None", "AssertionError", "RuntimeError"}
      BY <3>1 DEF ShareInv, Reading
    <3>3. HasDir => ret[t] = "cache"
      BY <3>1, <3>2 DEF CacheInv, Unreset, Answers
    <3>4. ~HasDir /\ compilations[k] = 0 => files[k] = 0
      BY <2>2 DEF ShareInv, Untouched
    <3> QED
      BY <3>3, <3>4 DEF Hit, NoPersistedExecutable
  <2>5. \A u \in Threads : compilations[k] = 0 /\ key'[u] = k /\ stage'[u] = "compile" =>
           files[k] = 0 \/ (key[u] = k /\ stage[u] = "compile")
    BY <1>0, <2>1, <2>4
  <2> QED
    BY <2>1, <2>2, <2>3, <2>5
<1>8. CASE CompileRaises(t)
  BY <1>f, <1>8 DEF CompileRaises
<1>9. CASE EndWrite(t)
  <2>1. /\ faults' = faults /\ UNCHANGED <<share, modules_cache, kv, key, executable, peer, compilations>>
        /\ files' = files \/ Put(key[t], executable[t])
        /\ stage[t] = "write" /\ stage' = [stage EXCEPT ![t] = "share"]
    BY <1>f, <1>9 DEF EndWrite
  <2>2. Smooth(k)
    BY <1>1, <1>2, <2>1 DEF Smooth
  <2>3. Candidates(k)' \subseteq Candidates(k) \union {0}
    BY <1>0, <1>3, <1>4, <2>1 DEF Put
  <2>4. compilations[k] = 0 /\ key[t] = k => executable[t] \in {0, files[k]}
    <3>1. key[t] = k => executable[t] \in Candidates(k)
      BY <1>3, <2>1
    <3> QED
      BY <2>2, <3>1 DEF ShareInv, Untouched
  <2>5. compilations[k] = 0 => files'[k] = files[k]
    BY <1>0, <2>1, <2>4 DEF Put, NoPersistedExecutable
  <2> QED
    BY <1>0, <2>1, <2>2, <2>3, <2>5
<1>10. CASE Share(t)
  <2>1. /\ UNCHANGED <<share, files, key, peer, faults, compilations>>
        /\ stage[t] = "share" /\ stage' = [stage EXCEPT ![t] = "ended"]
        /\ \/ UNCHANGED <<modules_cache, kv>> /\ executable' = executable
           \/ UNCHANGED <<modules_cache, kv>> /\ executable' = [executable EXCEPT ![t] = 0]
           \/ /\ kv' = [kv EXCEPT ![key[t]] = executable[t]]
              /\ modules_cache' = [modules_cache EXCEPT ![key[t]] = executable[t]]
              /\ executable' = executable
    <3>1. [executable EXCEPT ![t] = executable[t]] = executable
      BY <1>0
    <3> QED
      BY <1>10, <3>1 DEF Share, ShareKey
  <2>2. Smooth(k)
    BY <1>1, <1>2, <2>1 DEF Smooth
  <2>3. Candidates(k)' \subseteq Candidates(k) \union {0}
    BY <1>0, <1>3, <1>4, <2>1
  <2> QED
    BY <1>0, <2>1, <2>2, <2>3
<1>11. CASE \E q \in Keys : Begin(t, q)
  BY <1>0, <1>1, <1>2, <1>3, <1>4, <1>11 DEF Begin, Smooth
<1> QED
  BY <1>5, <1>6, <1>7, <1>8, <1>9, <1>10, <1>11

\* The first compilation of a key finds no executable of it; after a second one
\* nothing is claimed.
LEMMA CompileBringsTheFirst ==
    ASSUME CacheInv, ShareInv, [Next]_vars, NEW t \in Threads, Compile(t),
           NEW k \in Keys, Smooth(k)'
    PROVE  /\ \E e \in Nat : Candidates(k)' \subseteq {0, e}
           /\ compilations'[k] = 0 =>
                 /\ Candidates(k)' \subseteq {0, files'[k]}
                 /\ ~HasDir => files'[k] = 0
                 /\ \A u \in Threads : key'[u] = k /\ stage'[u] = "compile" => files'[k] = 0
<1>0. /\ files \in [Keys -> Nat] /\ DOMAIN stage = Threads /\ key \in [Threads -> Keys]
      /\ executable \in [Threads -> Nat] /\ compilations \in [Keys -> Nat] /\ compiled \in Nat
  BY DEF ShareInv, ShareTypes
<1>1. (failures' = 0 => failures = 0) /\ (resets' = 0 => resets = 0)
  BY NeverForgotten DEF CacheInv
<1>2. share' /\ compilations'[k] <= 1 /\ faults' = 0 /\ failures' = 0 /\ resets' = 0
  BY DEF Smooth
<1>3. /\ stage[t] = "compile" /\ UNCHANGED <<shared, key, peer, faults>>
      /\ compilations' = [compilations EXCEPT ![key[t]] = @ + 1]
      /\ executable' = [executable EXCEPT ![t] = compiled + 1]
      /\ \/ stage' = [stage EXCEPT ![t] = "write"]
         \/ stage' = [stage EXCEPT ![t] = "share"]
  BY DEF Compile, backend_compile_and_load, Stage
<1>4. Smooth(k)
  BY <1>0, <1>1, <1>2, <1>3 DEF Smooth, shared
<1>5. \A x : x \in Candidates(k) <=>
        \/ x = files[k] \/ x = modules_cache[k] \/ x = kv[k]
        \/ \E u \in Threads : key[u] = k /\ stage[u] # "uncached" /\ x = executable[u]
        \/ \E i \in Peers : peer[i].key = k /\ x = peer[i].executable
  BY DEF Candidates
<1>6. \A x : x \in Candidates(k)' <=>
        \/ x = files'[k] \/ x = modules_cache'[k] \/ x = kv'[k]
        \/ \E u \in Threads : key'[u] = k /\ stage'[u] # "uncached" /\ x = executable'[u]
        \/ \E i \in Peers : peer'[i].key = k /\ x = peer'[i].executable
  BY DEF Candidates
<1>7. CASE key[t] = k
  <2>1. compilations[k] = 0 /\ compilations'[k] = 1
    BY <1>0, <1>2, <1>3, <1>7
  <2>2. Candidates(k) \subseteq {0}
    BY <1>3, <1>4, <1>7, <2>1 DEF ShareInv, Untouched
  <2>3. Candidates(k)' \subseteq {0, compiled + 1}
    <3>1. \A u \in Threads :
             \/ executable'[u] = compiled + 1
             \/ executable'[u] = executable[u] /\ stage'[u] = stage[u]
      BY <1>0, <1>3
    <3>2. UNCHANGED <<files, modules_cache, kv, key, peer>>
      BY <1>3 DEF shared
    <3>3. \A x \in Candidates(k)' : x = compiled + 1 \/ x \in Candidates(k)
      BY <1>5, <1>6, <3>1, <3>2
    <3> QED
      BY <2>2, <3>3
  <2> QED
    BY <1>0, <2>1, <2>3
<1>8. CASE key[t] # k
  <2>1. Candidates(k)' \subseteq Candidates(k)
    BY <1>0, <1>3, <1>5, <1>6, <1>8 DEF shared
  <2>2. PICK e \in Nat : Candidates(k) \subseteq {0, e}
    BY <1>4 DEF ShareInv, OneCandidate
  <2>3. compilations'[k] = compilations[k] /\ files' = files
    BY <1>0, <1>3, <1>8 DEF shared
  <2>4. compilations[k] = 0 =>
           /\ Candidates(k) \subseteq {0, files[k]}
           /\ ~HasDir => files[k] = 0
           /\ \A u \in Threads : key[u] = k /\ stage[u] = "compile" => files[k] = 0
    BY <1>4 DEF ShareInv, Untouched
  <2>5. \A u \in Threads : key'[u] = k /\ stage'[u] = "compile" =>
           key[u] = k /\ stage[u] = "compile"
    BY <1>0, <1>3
  <2> QED
    BY <2>1, <2>2, <2>3, <2>4, <2>5
<1> QED
  BY <1>7, <1>8

\* A process that waits is handed an executable that was already there.
LEMMA PeerBringsNothingNew ==
    ASSUME ShareInv, NEW i \in Peers, PeerRead(i) \/ PeerGet(i) \/ PeerTimesOut(i),
           NEW k \in Keys, Smooth(k)'
    PROVE  Smooth(k) /\ Candidates(k)' \subseteq Candidates(k) \union {0}
<1>0. /\ DOMAIN peer = Peers /\ faults \in Nat
      /\ \A j \in Peers : peer[j] \in [key : Keys, at : {"read", "wait", "returned", "raised"},
                                       executable : Nat]
  BY DEF ShareInv, ShareTypes
<1>1. share' /\ faults' = 0
  BY DEF Smooth
<1>2. ~Fault
  BY <1>0, <1>1 DEF Fault
<1>3. /\ UNCHANGED <<vars, shared, stage, key, executable, faults, compilations>>
      /\ \/ peer' = [peer EXCEPT ![i].at = "returned", ![i].executable = files[peer[i].key]]
         \/ peer' = [peer EXCEPT ![i].at = "returned", ![i].executable = kv[peer[i].key]]
         \/ peer' = [peer EXCEPT ![i].at = "wait", ![i].executable = 0]
         \/ peer' = [peer EXCEPT ![i].at = "raised", ![i].executable = 0]
  <2>1. CASE PeerRead(i)
    BY <1>1, <1>2, <2>1 DEF PeerRead, SetPeer, MustWait, shared
  <2>2. CASE PeerGet(i)
    BY <2>2 DEF PeerGet, SetPeer
  <2>3. CASE PeerTimesOut(i)
    BY <2>3 DEF PeerTimesOut, SetPeer
  <2> QED
    BY <2>1, <2>2, <2>3
<1>4. /\ \A j \in Peers : peer'[j].key = peer[j].key
      /\ \A j \in Peers : j # i => peer'[j].executable = peer[j].executable
      /\ peer'[i].executable \in {files[peer[i].key], kv[peer[i].key], 0}
  BY <1>0, <1>3
<1>5. Candidates(k)' \subseteq Candidates(k) \union {0}
  <2>1. files' = files /\ modules_cache' = modules_cache /\ kv' = kv /\ stage' = stage
        /\ key' = key /\ executable' = executable
    BY <1>3 DEF shared
  <2> QED
    BY <1>4, <2>1 DEF Candidates
<1>6. Smooth(k)
  BY <1>3 DEF Smooth, vars, history, shared
<1> QED
  BY <1>5, <1>6

\* Every step keeps the two invariants about executables.
LEMMA ExecutablesStep ==
    ASSUME CacheInv, ShareInv, [ShareNext]_allVars
    PROVE  OneCandidate' /\ Untouched'
<1>0. [Next]_vars /\ OneCandidate /\ Untouched
  BY StepUsesCache DEF ShareInv
<1>1. CASE UNCHANGED shareVars
  <2>1. (failures' = 0 => failures = 0) /\ (resets' = 0 => resets = 0)
    BY <1>0, NeverForgotten DEF CacheInv
  <2>2. UNCHANGED <<share, files, modules_cache, kv, stage, key, executable, peer, faults,
                    compilations>>
    BY <1>1 DEF shareVars, shared
  <2>3. \A k \in Keys : Smooth(k)' => Smooth(k)
    BY <2>1, <2>2 DEF Smooth
  <2>4. \A k \in Keys : Candidates(k)' = Candidates(k)
    BY <2>2 DEF Candidates
  <2> QED
    BY <1>0, <2>2, <2>3, <2>4, NothingNew
<1>2. ASSUME NEW t \in Threads,
             \/ CompileUncached(t) \/ BeginRead(t) \/ EndRead(t) \/ CompileRaises(t)
             \/ EndWrite(t) \/ Share(t) \/ \E k \in Keys : Begin(t, k)
      PROVE  OneCandidate' /\ Untouched'
  BY <1>0, <1>2, ThreadBringsNothingNew, NothingNew
<1>3. ASSUME NEW t \in Threads, Compile(t) PROVE OneCandidate' /\ Untouched'
  BY <1>0, <1>3, CompileBringsTheFirst DEF OneCandidate, Untouched
<1>4. ASSUME NEW i \in Peers, PeerRead(i) \/ PeerGet(i) \/ PeerTimesOut(i)
      PROVE  OneCandidate' /\ Untouched'
  <2>1. UNCHANGED <<files, key, stage, compilations>>
    BY <1>4 DEF PeerRead, PeerGet, PeerTimesOut, shared
  <2> QED
    BY <1>0, <1>4, <2>1, PeerBringsNothingNew, NothingNew
<1>5. ASSUME NEW k \in Keys, Evict(k) PROVE OneCandidate' /\ Untouched'
  <2>1. faults' # 0
    BY <1>5 DEF Evict, Fault, ShareInv, ShareTypes
  <2> QED
    BY <2>1 DEF OneCandidate, Untouched, Smooth
<1>6. ASSUME NEW t \in Threads, CacheStep(t) \/ Reset(t) PROVE UNCHANGED shareVars
  BY <1>6 DEF CacheStep, Reset
<1> QED
  BY <1>1, <1>2, <1>3, <1>4, <1>5, <1>6 DEF ShareNext, ThreadStep, allVars

\* Every step keeps the invariant.
LEMMA ShareStep ==
    ASSUME CacheInv, ShareInv, [ShareNext]_allVars
    PROVE  ShareInv'
<1>1. ShareTypes'
  <2>1. CASE UNCHANGED allVars
    BY <2>1 DEF allVars, shareVars, shared, ShareInv, ShareTypes
  <2>2. CASE ShareNext
    BY <2>2, ThreadTypes, OtherTypes DEF ShareNext, ShareInv
  <2> QED
    BY <2>1, <2>2
<1>2. Reading'
  BY ReadingStep DEF ShareInv
<1> QED
  BY <1>1, <1>2, ExecutablesStep DEF ShareInv

\* With sharing, all processes run the same executable of a key, provided that
\* process 0 compiled it once, had its cache all the time, and nothing was lost
\* (compile_or_get_cached, _compile_and_share_module).
THEOREM SameExecutable == ShareSpec => []AllRunTheSameExecutable
<1>1. ShareInv => AllRunTheSameExecutable
  <2> SUFFICES ASSUME ShareInv, NEW k \in Keys, Smooth(k)
               PROVE  LET others == {peer[j].executable : j \in {j \in Peers : peer[j].key = k}}
                          own == {executable[u] : u \in {u \in Threads :
                                      key[u] = k /\ stage[u] = "ended"}}
                      IN  Cardinality((others \union own) \ {0}) <= 1
    BY DEF AllRunTheSameExecutable, Smooth
  <2> DEFINE others == {peer[j].executable : j \in {j \in Peers : peer[j].key = k}}
             own == {executable[u] : u \in {u \in Threads : key[u] = k /\ stage[u] = "ended"}}
             run == (others \union own) \ {0}
  <2>1. PICK e \in Nat : Candidates(k) \subseteq {0, e}
    BY DEF ShareInv, OneCandidate
  <2>2. run \subseteq {e}
    BY <2>1 DEF Candidates
  <2>3. IsFiniteSet({e}) /\ Cardinality({e}) = 1
    BY FS_Singleton
  <2>4. Cardinality(run) <= 1
    BY <2>2, <2>3, FS_Subset
  <2> QED
    BY <2>4
<1>2. ShareSpec => []CacheInv
  BY SharingUsesCache, CacheInit, CacheNext, PTL DEF Spec
<1>3. CacheInv /\ ShareInv /\ [ShareNext]_allVars => ShareInv'
  BY ShareStep
<1> QED
  BY <1>1, <1>2, <1>3, ShareStart, PTL DEF ShareSpec
=============================================================================
