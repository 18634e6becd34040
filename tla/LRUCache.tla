------------------------------ MODULE LRUCache ------------------------------
(***************************************************************************)
(* The file cache of compiled executables (jax/_src/lru_cache.py) in one   *)
(* directory that several processes share.                                 *)
(*                                                                         *)
(* An entry is two files, "<key>-cache" and "<key>-atime".  With eviction  *)
(* (max_size # -1) every operation runs under a lock file, which the       *)
(* operating system releases when its holder dies; without, there is no    *)
(* lock.  write_bytes creates or truncates a file before it fills it.      *)
(***************************************************************************)
EXTENDS Integers, FiniteSets

CONSTANTS
    Procs,
    Keys,
    NoKey,
    Size,      \* len(value) of each key's value
    MaxSizes,  \* values of max_size; -1: no limit
    Free,      \* nobody holds the lock file
    Crashes,   \* how many crashes may happen
    MaxTime    \* bound on the time stamps

ASSUME CacheAssumption ==
    /\ Size \in [Keys -> Nat \ {0}] /\ MaxSizes \subseteq Nat \cup {-1}
    /\ Free \notin Procs /\ NoKey \notin Keys /\ Crashes \in Nat /\ MaxTime \in Nat

VARIABLES
    max_size,   \* the same for all processes
    cacheFile,  \* per key: "absent", "partial" (being written) or "whole"
    atimeFile,  \* per key: the time stamp in the file, 0 for an empty file, Absent
    lockHolder,
    pc, op,     \* what a process does
    h,          \* the keys in the priority queue of _evict_if_needed
    victim,     \* the key it popped
    result,     \* of the last operation of a process
    now,        \* time.time_ns, as the number of stamps taken
    lastUse,    \* history: when a key was last got or put
    crashed     \* history: number of crashes

files == <<cacheFile, atimeFile>>
vars == <<max_size, files, lockHolder, pc, op, h, victim, result, now, lastUse, crashed>>

Absent == -1
eviction_enabled == max_size # -1

Init ==
    /\ max_size \in MaxSizes
    /\ cacheFile = [k \in Keys |-> "absent"]
    /\ atimeFile = [k \in Keys |-> Absent]
    /\ lockHolder = Free
    /\ pc = [p \in Procs |-> "idle"]
    /\ op = [p \in Procs |-> [op |-> "none", key |-> NoKey]]
    /\ h = [p \in Procs |-> {}]
    /\ victim = [p \in Procs |-> NoKey]
    /\ result = [p \in Procs |-> "none"]
    /\ now = 0
    /\ lastUse = [k \in Keys |-> 0]
    /\ crashed = 0

\* The keys with a "-cache" file, and the bytes in those files.
Present == {k \in Keys : cacheFile[k] # "absent"}
file_size(k) == IF cacheFile[k] = "whole" THEN Size[k] ELSE 0
stored == UNION {{k} \X (1 .. file_size(k)) : k \in Present}
dir_size == Cardinality(stored)

Goto(p, where) == pc' = [pc EXCEPT ![p] = where]

\* The operation ends with result r; finally: release the lock.
Finish(p, r) ==
    /\ Goto(p, "idle")
    /\ result' = [result EXCEPT ![p] = r]
    /\ lockHolder' = IF eviction_enabled THEN Free ELSE lockHolder

-----------------------------------------------------------------------------

\* Mutant: a get does not need the lock.
FirstStepMutant(o) == IF eviction_enabled /\ o = "put" THEN "acquire" ELSE "locked"

FirstStep(o) == IF eviction_enabled THEN "acquire" ELSE "locked"

Begin(p, o, k) ==
    /\ pc[p] = "idle" /\ now < MaxTime
    /\ op' = [op EXCEPT ![p] = [op |-> o, key |-> k]]
    /\ result' = [result EXCEPT ![p] = "none"]
    /\ h' = [h EXCEPT ![p] = {}]
    /\ Goto(p, FirstStep(o))
    /\ UNCHANGED <<victim, files, lockHolder, now, lastUse, crashed>>

get(p, k) == Begin(p, "get", k)

\* put refuses, with a warning, a value that can never fit.
put(p, k) ==
    \/ ~(eviction_enabled /\ Size[k] > max_size) /\ Begin(p, "put", k)
    \/ /\ eviction_enabled /\ Size[k] > max_size
       /\ pc[p] = "idle" /\ result[p] # "too_large"
       /\ result' = [result EXCEPT ![p] = "too_large"]
       /\ UNCHANGED <<victim, files, lockHolder, pc, op, h, now, lastUse, crashed>>

\* Mutant: the lock does not exclude others.
LockIsFreeMutant == TRUE

LockIsFree == lockHolder = Free

\* lock.acquire(timeout=...): get the lock, or give up while another holds it.
AcquireLock(p) ==
    /\ pc[p] = "acquire"
    /\ \/ /\ LockIsFree
          /\ lockHolder' = p
          /\ Goto(p, "locked")
          /\ UNCHANGED result
       \/ /\ ~LockIsFree
          /\ Goto(p, "idle")
          /\ result' = [result EXCEPT ![p] = "Timeout"]
          /\ UNCHANGED lockHolder
    /\ UNCHANGED <<victim, files, op, h, now, lastUse, crashed>>

\* cache_path.exists()
Exists(k) == cacheFile[k] # "absent"

\* get: `if not cache_path.exists(): return None`.
GetExists(p) ==
    /\ pc[p] = "locked" /\ op[p].op = "get"
    /\ \/ /\ ~Exists(op[p].key)
          /\ Finish(p, "None")
       \/ /\ Exists(op[p].key)
          /\ Goto(p, "read")
          /\ UNCHANGED <<result, lockHolder>>
    /\ UNCHANGED <<victim, files, op, h, now, lastUse, crashed>>

\* read_bytes; get returns this, after the time stamp if there is one.
ReadBytes(p) ==
    /\ pc[p] = "read"
    /\ IF eviction_enabled
       THEN /\ result' = [result EXCEPT ![p] = cacheFile[op[p].key]]
            /\ Goto(p, "stamp")
            /\ UNCHANGED lockHolder
       ELSE Finish(p, cacheFile[op[p].key])
    /\ UNCHANGED <<victim, files, op, h, now, lastUse, crashed>>

\* Mutant: the stamp of the key is not renewed by get.
NewStampMutant(p) == IF op[p].op = "get" THEN atimeFile[op[p].key] ELSE now + 1

\* time.time_ns()
NewStamp(p) == now + 1

\* Write the time stamp, the last thing get and put do.
WriteAtime(p) ==
    LET k == op[p].key IN
    /\ pc[p] = "stamp"
    /\ now' = now + 1
    /\ atimeFile' = [atimeFile EXCEPT ![k] = NewStamp(p)]
    /\ lastUse' = [lastUse EXCEPT ![k] = now + 1]
    /\ Finish(p, IF op[p].op = "put" THEN "stored" ELSE result[p])
    /\ UNCHANGED <<victim, cacheFile, op, h, crashed>>

-----------------------------------------------------------------------------

\* put: `if cache_path.exists(): return`, and the scan of _evict_if_needed,
\* which fails where an entry has no "-atime" file.
PutExistsAndScan(p) ==
    LET k == op[p].key IN
    /\ pc[p] = "locked" /\ op[p].op = "put"
    /\ \/ /\ Exists(k)
          /\ Finish(p, "exists")
          /\ UNCHANGED h
       \/ /\ ~Exists(k)
          /\ eviction_enabled /\ \E j \in Present : atimeFile[j] = Absent
          /\ Finish(p, "FileNotFoundError")
          /\ UNCHANGED h
       \/ /\ ~Exists(k)
          /\ eviction_enabled => \A j \in Present : atimeFile[j] # Absent
          /\ h' = [h EXCEPT ![p] = IF eviction_enabled THEN Present ELSE {}]
          /\ Goto(p, IF eviction_enabled THEN "evict" ELSE "write")
          /\ UNCHANGED <<result, lockHolder>>
    /\ UNCHANGED <<victim, files, op, now, lastUse, crashed>>

\* Mutant: the new entry is not taken into account.
MustEvictIgnoresNew(p) == dir_size > max_size

\* dir_size > max_size - additional_size
MustEvict(p) == dir_size > max_size - Size[op[p].key]

\* One turn of the loop: pop the entry with the smallest stamp, delete its
\* "-cache" file ...
UnlinkCache(p) ==
    /\ pc[p] = "evict"
    /\ \/ /\ MustEvict(p)
          /\ \E k \in h[p] :
                /\ \A j \in h[p] : atimeFile[k] <= atimeFile[j]
                /\ cacheFile' = [cacheFile EXCEPT ![k] = "absent"]
                /\ h' = [h EXCEPT ![p] = @ \ {k}]
                /\ victim' = [victim EXCEPT ![p] = k]
          /\ Goto(p, "unlink")
       \/ /\ ~MustEvict(p)
          /\ Goto(p, "write")
          /\ UNCHANGED <<cacheFile, h, victim>>
    /\ UNCHANGED <<atimeFile, lockHolder, op, result, now, lastUse, crashed>>

\* ... and its "-atime" file.
UnlinkAtime(p) ==
    /\ pc[p] = "unlink"
    /\ atimeFile' = [atimeFile EXCEPT ![victim[p]] = Absent]
    /\ Goto(p, "evict")
    /\ UNCHANGED <<victim, cacheFile, lockHolder, op, h, result, now, lastUse, crashed>>

\* cache_path.write_bytes: the file is there before its contents.
OpenFile(p) ==
    /\ pc[p] = "write"
    /\ cacheFile' = [cacheFile EXCEPT ![op[p].key] = "partial"]
    /\ Goto(p, "fill")
    /\ UNCHANGED <<victim, atimeFile, lockHolder, op, h, result, now, lastUse, crashed>>

WriteContents(p) ==
    /\ pc[p] = "fill"
    /\ cacheFile' = [cacheFile EXCEPT ![op[p].key] = "whole"]
    /\ IF eviction_enabled
       THEN Goto(p, "stamp") /\ UNCHANGED <<result, lockHolder>>
       ELSE Finish(p, "stored")
    /\ UNCHANGED <<victim, atimeFile, op, h, now, lastUse, crashed>>

-----------------------------------------------------------------------------

\* A process dies, perhaps after it emptied the "-atime" file; another takes
\* its place.
Crash(p) ==
    /\ crashed < Crashes /\ pc[p] # "idle"
    /\ crashed' = crashed + 1
    /\ Goto(p, "idle")
    /\ result' = [result EXCEPT ![p] = "none"]
    /\ h' = [h EXCEPT ![p] = {}]
    /\ lockHolder' = IF lockHolder = p THEN Free ELSE lockHolder
    /\ \/ UNCHANGED atimeFile
       \/ pc[p] = "stamp" /\ atimeFile' = [atimeFile EXCEPT ![op[p].key] = 0]
    /\ UNCHANGED <<victim, cacheFile, op, now, lastUse>>

Next ==
    /\ UNCHANGED max_size
    /\ \E p \in Procs :
        \/ \E k \in Keys : get(p, k) \/ put(p, k)
        \/ AcquireLock(p) \/ GetExists(p) \/ ReadBytes(p) \/ WriteAtime(p)
        \/ PutExistsAndScan(p) \/ UnlinkCache(p) \/ UnlinkAtime(p)
        \/ OpenFile(p) \/ WriteContents(p)
        \/ Crash(p)

Spec == Init /\ [][Next]_vars

-----------------------------------------------------------------------------

\* The types of the files and of the state of the processes; no operation reads a
\* file that is not there (result would be "absent").
TypeOK ==
    /\ max_size \in MaxSizes
    /\ cacheFile \in [Keys -> {"absent", "partial", "whole"}]
    /\ atimeFile \in [Keys -> Nat \cup {Absent}]
    /\ lockHolder \in Procs \cup {Free}
    /\ pc \in [Procs -> {"idle", "acquire", "locked", "read", "stamp", "evict", "unlink",
                         "write", "fill"}]
    /\ op \in [Procs -> [op : {"none", "get", "put"}, key : Keys \cup {NoKey}]]
    /\ h \in [Procs -> SUBSET Keys] /\ victim \in [Procs -> Keys \cup {NoKey}]
    /\ result \in [Procs -> {"none", "None", "partial", "whole", "stored", "exists",
                             "too_large", "Timeout", "FileNotFoundError"}]
    /\ now \in Nat /\ lastUse \in [Keys -> Nat] /\ crashed \in Nat

\* The cache never exceeds max_size, whatever the processes do and wherever
\* they die.
SizeBounded == eviction_enabled => dir_size <= max_size

\* Only a least recently used entry is evicted, unless a process died before it
\* had written the new time.
EvictsLeastRecentlyUsed ==
    [][\A k \in Keys :
          crashed = 0 /\ cacheFile[k] = "whole" /\ cacheFile'[k] = "absent"
            => \A j \in Keys : cacheFile'[j] # "absent" => lastUse[k] <= lastUse[j]]_vars

\* Under the lock, get returns None or the whole value, never a part of it, as
\* long as no process has died.
GetReturnsWholeValue ==
    eviction_enabled /\ crashed = 0
        => \A p \in Procs : op[p].op = "get" => result[p] # "partial"

\* "Adds a new entry to the cache." (the docstring of put): a put that gets the
\* lock does not fail, unless a process died: every entry that it finds in the
\* directory has both its files.
PutFailsOnlyAfterCrash ==
    crashed = 0 => \A p \in Procs : result[p] # "FileNotFoundError"

\* No turn of the eviction loop finds the queue empty (heappop would raise).
QueueSuffices ==
    \A p \in Procs : pc[p] = "evict" /\ MustEvict(p) => h[p] # {}

\* Eviction (_evict_if_needed) makes room for every value that is stored, and
\* never looks for more entries than there are.
EvictionMakesRoom == TypeOK /\ SizeBounded /\ QueueSuffices
=============================================================================
