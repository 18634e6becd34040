--------------------------- MODULE LRUCacheProofs ---------------------------
(***************************************************************************)
(* The file cache never exceeds its limit, eviction always finds what it   *)
(* needs and takes the least recently used entries, and only a crash lets  *)
(* a get see a part of a value or a put fail.  All of it rests on the lock *)
(* file: one process at a time is in its critical section.                 *)
(***************************************************************************)
EXTENDS LRUCache, FiniteSetTheorems, TLAPS

\* Process p is past lock.acquire and not back yet.
InSection(p) == pc[p] \in {"locked", "read", "stamp", "evict", "unlink", "write", "fill"}

\* With eviction, who is in its critical section holds the lock file.
Exclusive == eviction_enabled => \A p \in Procs : InSection(p) <=> lockHolder = p

\* What a process is doing, and what it knows while it does so.
Operations ==
    \A p \in Procs :
        /\ pc[p] # "idle" => op[p].op \in {"get", "put"} /\ op[p].key \in Keys
        /\ pc[p] \in {"acquire", "stamp", "evict", "unlink"} => eviction_enabled
        /\ pc[p] = "read" => op[p].op = "get" /\ cacheFile[op[p].key] # "absent"
        /\ pc[p] \in {"evict", "unlink", "write", "fill"} => op[p].op = "put"
        /\ pc[p] = "unlink" => victim[p] \in Keys
        /\ pc[p] # "idle" /\ eviction_enabled /\ op[p].op = "put" => Size[op[p].key] <= max_size

\* Between the scan and the time stamp of a put, the directory is as the put
\* believes: its queue holds all entries, its own is not there, and when it
\* writes there is room.
Room ==
    eviction_enabled => \A p \in Procs :
        /\ pc[p] \in {"evict", "unlink"} => h[p] = Present
        /\ pc[p] = "unlink" => cacheFile[victim[p]] = "absent"
        /\ pc[p] \in {"evict", "unlink", "write"} => cacheFile[op[p].key] = "absent"
        /\ pc[p] = "fill" => cacheFile[op[p].key] = "partial"
        /\ pc[p] \in {"write", "fill"} => dir_size + Size[op[p].key] <= max_size

\* There are finitely many bytes, no more than the limit.
Sized == IsFiniteSet(stored) /\ SizeBounded

\* As long as no process died: an entry that is not whole, or has no time
\* stamp, is being written, a time stamp tells the last use, and nobody has met
\* anything else.
Uncrashed ==
    crashed = 0 =>
        /\ eviction_enabled => \A k \in Keys :
              /\ cacheFile[k] = "partial" => \E p \in Procs : pc[p] = "fill" /\ op[p].key = k
              /\ cacheFile[k] # "absent" /\ atimeFile[k] = Absent =>
                    \E p \in Procs : pc[p] \in {"fill", "stamp"} /\ op[p].key = k
              /\ atimeFile[k] \in {Absent, lastUse[k]}
        /\ eviction_enabled => \A p \in Procs : op[p].op = "get" => result[p] # "partial"
        /\ \A p \in Procs : result[p] # "FileNotFoundError"

IInv == TypeOK /\ Exclusive /\ Operations /\ Room /\ Sized /\ Uncrashed

-----------------------------------------------------------------------------

\* What the provers need of the types in most of the steps.
LEMMA Types ==
    ASSUME TypeOK
    PROVE  /\ DOMAIN cacheFile = Keys /\ DOMAIN atimeFile = Keys /\ DOMAIN lastUse = Keys
           /\ DOMAIN pc = Procs /\ DOMAIN op = Procs /\ DOMAIN h = Procs
           /\ DOMAIN victim = Procs /\ DOMAIN result = Procs
           /\ now \in Nat /\ crashed \in Nat /\ max_size \in Int
           /\ lockHolder \in Procs \cup {Free} /\ Free \notin Procs
           /\ \A k \in Keys : /\ cacheFile[k] \in {"absent", "partial", "whole"}
                              /\ atimeFile[k] \in Nat \cup {Absent}
                              /\ lastUse[k] \in Nat /\ Size[k] \in Nat
<1>1. max_size \in Int
  BY CacheAssumption DEF TypeOK
<1> QED
  BY <1>1, CacheAssumption DEF TypeOK

\* The bytes of the directory are those of the whole files.
LEMMA StoredMembers ==
    ASSUME NEW b
    PROVE  b \in stored <=>
              \E k \in Keys : cacheFile[k] = "whole" /\ b \in {k} \X (1 .. Size[k])
<1>1. ASSUME NEW k \in Present, cacheFile[k] # "whole" PROVE 1 .. file_size(k) = {}
  BY <1>1 DEF file_size
<1> QED
  BY <1>1 DEF stored, Present, file_size

\* The same of the next state.
LEMMA StoredMembersNext ==
    ASSUME NEW b
    PROVE  b \in stored' <=>
              \E k \in Keys : cacheFile'[k] = "whole" /\ b \in {k} \X (1 .. Size[k])
<1>1. ASSUME NEW k \in Present', cacheFile'[k] # "whole" PROVE 1 .. file_size(k)' = {}
  BY <1>1 DEF file_size
<1> QED
  BY <1>1 DEF stored, Present, file_size

\* A step that leaves the files of entries alone leaves their sizes alone.
LEMMA SameSize ==
    ASSUME cacheFile' = cacheFile
    PROVE  Present' = Present /\ stored' = stored /\ dir_size' = dir_size
<1>1. Present' = Present /\ \A k : file_size(k)' = file_size(k)
  BY DEF Present, file_size
<1>2. stored' = stored
  BY <1>1 DEF stored
<1> QED
  BY <1>1, <1>2 DEF dir_size

\* A step that makes no file whole does not add bytes.
LEMMA NoMoreBytes ==
    ASSUME IsFiniteSet(stored), \A k \in Keys : cacheFile'[k] = "whole" => cacheFile[k] = "whole"
    PROVE  IsFiniteSet(stored') /\ dir_size' <= dir_size /\ dir_size' \in Nat
<1>1. stored' \subseteq stored
  BY StoredMembers, StoredMembersNext
<1>2. IsFiniteSet(stored') /\ Cardinality(stored') <= Cardinality(stored)
  BY <1>1, FS_Subset
<1> QED
  BY <1>2, FS_CardinalityType DEF dir_size

\* A file that becomes whole adds at most the size of its value.
LEMMA OneMoreFile ==
    ASSUME IsFiniteSet(stored), NEW k \in Keys,
           \A j \in Keys : cacheFile'[j] = "whole" => cacheFile[j] = "whole" \/ j = k
    PROVE  IsFiniteSet(stored') /\ dir_size' <= dir_size + Size[k] /\ dir_size' \in Nat
<1> DEFINE part == {k} \X (1 .. Size[k])
<1>1. Size[k] \in Nat
  BY CacheAssumption
<1>2. IsFiniteSet(1 .. Size[k]) /\ Cardinality(1 .. Size[k]) = Size[k]
  BY <1>1, FS_Interval
<1>3. IsFiniteSet({k}) /\ Cardinality({k}) = 1
  BY FS_Singleton
<1>4. IsFiniteSet(part) /\ Cardinality(part) = Size[k]
  <2>1. IsFiniteSet(part) /\ Cardinality(part) = Cardinality({k}) * Cardinality(1 .. Size[k])
    BY <1>2, <1>3, FS_Product
  <2> QED
    BY <1>1, <1>2, <1>3, <2>1
<1>5. stored' \subseteq stored \cup part
  <2> SUFFICES ASSUME NEW b \in stored' PROVE b \in stored \cup part
    OBVIOUS
  <2>1. PICK j \in Keys : cacheFile'[j] = "whole" /\ b \in {j} \X (1 .. Size[j])
    BY StoredMembersNext
  <2>2. CASE j = k
    BY <2>1, <2>2
  <2>3. CASE j # k
    BY <2>1, <2>3, StoredMembers
  <2> QED
    BY <2>2, <2>3
<1> HIDE DEF part
<1>6. /\ IsFiniteSet(stored \cup part)
      /\ Cardinality(stored \cup part) =
            Cardinality(stored) + Cardinality(part) - Cardinality(stored \cap part)
  BY <1>4, FS_Union
<1>7. IsFiniteSet(stored \cap part)
  BY <1>4, FS_Subset
<1>8. Cardinality(stored) \in Nat /\ Cardinality(stored \cap part) \in Nat
  BY <1>7, FS_CardinalityType
<1>9. IsFiniteSet(stored') /\ Cardinality(stored') <= Cardinality(stored \cup part)
  BY <1>5, <1>6, FS_Subset
<1> QED
  BY <1>1, <1>4, <1>6, <1>8, <1>9, FS_CardinalityType DEF dir_size

\* The invariant holds for an empty directory.
LEMMA InitInv == Init => IInv
<1> SUFFICES ASSUME Init PROVE IInv
  OBVIOUS
<1>1. TypeOK
  BY CacheAssumption DEF Init, TypeOK, Absent
<1>2. Exclusive /\ Operations /\ Room /\ Uncrashed
  BY CacheAssumption DEF Init, Exclusive, InSection, Operations, Room, Uncrashed, Absent
<1>3. stored = {}
  BY StoredMembers DEF Init
<1>4. IsFiniteSet(stored) /\ dir_size = 0
  BY <1>3, FS_EmptySet DEF dir_size
<1>5. eviction_enabled => 0 <= max_size
  BY CacheAssumption DEF Init, eviction_enabled
<1> QED
  BY <1>1, <1>2, <1>4, <1>5 DEF IInv, Sized, SizeBounded

-----------------------------------------------------------------------------

\* Every step of a process keeps the types.
LEMMA TypeStep ==
    ASSUME IInv, UNCHANGED max_size, NEW p \in Procs,
           \/ \E k \in Keys : get(p, k) \/ put(p, k)
           \/ AcquireLock(p) \/ GetExists(p) \/ ReadBytes(p) \/ WriteAtime(p)
           \/ PutExistsAndScan(p) \/ UnlinkCache(p) \/ UnlinkAtime(p)
           \/ OpenFile(p) \/ WriteContents(p) \/ Crash(p)
    PROVE  TypeOK'
<1>0. TypeOK /\ (pc[p] # "idle" => op[p].key \in Keys) /\ now + 1 \in Nat /\ crashed + 1 \in Nat
      /\ (pc[p] = "read" => cacheFile[op[p].key] # "absent")
  BY DEF IInv, TypeOK, Operations
<1> USE <1>0 DEF TypeOK, files, Goto, Finish, Begin
<1>1. ASSUME NEW k \in Keys, get(p, k) \/ put(p, k) PROVE TypeOK'
  <2>1. ASSUME NEW o \in {"get", "put"}, Begin(p, o, k) PROVE TypeOK'
    <3>1. [op |-> o, key |-> k] \in [op : {"none", "get", "put"}, key : Keys \cup {NoKey}]
      OBVIOUS
    <3>2. FirstStep(o) \in {"acquire", "locked"}
      BY DEF FirstStep
    <3> QED
      BY <2>1, <3>1, <3>2
  <2>2. CASE UNCHANGED <<victim, files, lockHolder, pc, op, h, now, lastUse, crashed>>
             /\ result' = [result EXCEPT ![p] = "too_large"]
    BY <2>2
  <2> QED
    BY <1>1, <2>1, <2>2 DEF get, put
<1>2. CASE AcquireLock(p)
  BY <1>2 DEF AcquireLock
<1>3. CASE GetExists(p)
  BY <1>3 DEF GetExists
<1>4. CASE ReadBytes(p)
  <2>1. cacheFile[op[p].key] \in {"partial", "whole"}
    BY <1>4 DEF ReadBytes
  <2>2. /\ result' \in [Procs -> {"none", "None", "partial", "whole", "stored", "exists",
                                  "too_large", "Timeout", "FileNotFoundError"}]
        /\ pc' = [pc EXCEPT ![p] = "stamp"] \/ pc' = [pc EXCEPT ![p] = "idle"]
        /\ lockHolder' \in Procs \cup {Free}
    BY <1>4, <2>1 DEF ReadBytes
  <2>3. UNCHANGED <<victim, files, op, h, now, lastUse, crashed>>
    BY <1>4 DEF ReadBytes
  <2> QED
    BY <2>2, <2>3
<1>5. CASE WriteAtime(p)
  BY <1>5 DEF WriteAtime, NewStamp
<1>6. CASE PutExistsAndScan(p)
  <2>1. /\ h' = h \/ \E keys \in SUBSET Keys : h' = [h EXCEPT ![p] = keys]
        /\ UNCHANGED <<victim, files, op, now, lastUse, crashed>>
    BY <1>6 DEF PutExistsAndScan, Present
  <2>2. /\ \/ result' = result
           \/ result' = [result EXCEPT ![p] = "exists"]
           \/ result' = [result EXCEPT ![p] = "FileNotFoundError"]
        /\ \E where \in {"idle", "evict", "write"} : pc' = [pc EXCEPT ![p] = where]
        /\ lockHolder' \in Procs \cup {Free}
    BY <1>6 DEF PutExistsAndScan
  <2>3. /\ h' \in [Procs -> SUBSET Keys]
        /\ result' \in [Procs -> {"none", "None", "partial", "whole", "stored", "exists",
                                  "too_large", "Timeout", "FileNotFoundError"}]
        /\ pc' \in [Procs -> {"idle", "acquire", "locked", "read", "stamp", "evict", "unlink",
                              "write", "fill"}]
    <3>1. h' \in [Procs -> SUBSET Keys]
      BY <2>1
    <3>2. result' \in [Procs -> {"none", "None", "partial", "whole", "stored", "exists",
                                 "too_large", "Timeout", "FileNotFoundError"}]
      BY <2>2
    <3>3. PICK where \in {"idle", "evict", "write"} : pc' = [pc EXCEPT ![p] = where]
      BY <2>2
    <3>4. pc' \in [Procs -> {"idle", "acquire", "locked", "read", "stamp", "evict", "unlink",
                             "write", "fill"}]
      BY <3>3
    <3> QED
      BY <3>1, <3>2, <3>4
  <2> QED
    BY <2>1, <2>2, <2>3
<1>7. CASE UnlinkCache(p)
  <2>1. CASE MustEvict(p)
    <3>1. PICK k \in h[p] :
             /\ cacheFile' = [cacheFile EXCEPT ![k] = "absent"]
             /\ h' = [h EXCEPT ![p] = @ \ {k}]
             /\ victim' = [victim EXCEPT ![p] = k]
      BY <1>7, <2>1 DEF UnlinkCache
    <3>2. /\ k \in Keys /\ pc' = [pc EXCEPT ![p] = "unlink"]
          /\ UNCHANGED <<atimeFile, lockHolder, op, result, now, lastUse, crashed>>
      BY <1>7, <2>1 DEF UnlinkCache
    <3>3. /\ cacheFile' \in [Keys -> {"absent", "partial", "whole"}]
          /\ h' \in [Procs -> SUBSET Keys] /\ victim' \in [Procs -> Keys \cup {NoKey}]
      BY <3>1, <3>2
    <3> QED
      BY <3>2, <3>3
  <2>2. CASE ~MustEvict(p)
    BY <1>7, <2>2 DEF UnlinkCache
  <2> QED
    BY <2>1, <2>2
<1>8. CASE UnlinkAtime(p)
  BY <1>8 DEF UnlinkAtime
<1>9. CASE OpenFile(p)
  BY <1>9 DEF OpenFile
<1>10. CASE WriteContents(p)
  BY <1>10 DEF WriteContents
<1>11. CASE Crash(p)
  BY <1>11 DEF Crash
<1> QED
  BY <1>1, <1>2, <1>3, <1>4, <1>5, <1>6, <1>7, <1>8, <1>9, <1>10, <1>11

\* Every step of a process keeps the lock exclusive.
LEMMA ExclusiveStep ==
    ASSUME IInv, UNCHANGED max_size, NEW p \in Procs,
           \/ \E k \in Keys : get(p, k) \/ put(p, k)
           \/ AcquireLock(p) \/ GetExists(p) \/ ReadBytes(p) \/ WriteAtime(p)
           \/ PutExistsAndScan(p) \/ UnlinkCache(p) \/ UnlinkAtime(p)
           \/ OpenFile(p) \/ WriteContents(p) \/ Crash(p)
    PROVE  Exclusive'
<1> SUFFICES ASSUME eviction_enabled PROVE \A q \in Procs : InSection(q)' <=> lockHolder' = q
  BY DEF Exclusive, eviction_enabled
<1>0. /\ DOMAIN pc = Procs /\ lockHolder \in Procs \cup {Free} /\ Free \notin Procs
      /\ \A q \in Procs : InSection(q) <=> lockHolder = q
  BY Types DEF IInv, Exclusive
<1> USE <1>0 DEF InSection, Goto, Finish, Begin
<1>1. ASSUME NEW k \in Keys, get(p, k) \/ put(p, k)
      PROVE  \A q \in Procs : InSection(q)' <=> lockHolder' = q
  BY <1>1 DEF get, put, FirstStep
<1>2. CASE AcquireLock(p)
  BY <1>2 DEF AcquireLock, LockIsFree
<1>3. CASE GetExists(p)
  BY <1>3 DEF GetExists
<1>4. CASE ReadBytes(p)
  BY <1>4 DEF ReadBytes
<1>5. CASE WriteAtime(p)
  BY <1>5 DEF WriteAtime
<1>6. CASE PutExistsAndScan(p)
  BY <1>6 DEF PutExistsAndScan
<1>7. CASE UnlinkCache(p)
  BY <1>7 DEF UnlinkCache
<1>8. CASE UnlinkAtime(p)
  BY <1>8 DEF UnlinkAtime
<1>9. CASE OpenFile(p)
  BY <1>9 DEF OpenFile
<1>10. CASE WriteContents(p)
  BY <1>10 DEF WriteContents
<1>11. CASE Crash(p)
  BY <1>11 DEF Crash
<1> QED
  BY <1>1, <1>2, <1>3, <1>4, <1>5, <1>6, <1>7, <1>8, <1>9, <1>10, <1>11

\* With eviction, nobody else is in its section while p is.
LEMMA Alone ==
    ASSUME IInv, eviction_enabled, NEW p \in Procs, InSection(p)
    PROVE  \A q \in Procs : q # p => ~InSection(q)
  BY DEF IInv, Exclusive

-----------------------------------------------------------------------------

\* A put or get that begins knows nothing of the directory yet; one that is
\* refused changes nothing but its result.
LEMMA BeginStep ==
    ASSUME IInv, UNCHANGED max_size, NEW p \in Procs, NEW k \in Keys, get(p, k) \/ put(p, k)
    PROVE  Operations' /\ Room' /\ Sized' /\ Uncrashed'
<1>0. /\ DOMAIN pc = Procs /\ DOMAIN op = Procs /\ DOMAIN h = Procs /\ DOMAIN result = Procs
      /\ Size[k] \in Nat /\ max_size \in Int
  BY Types DEF IInv
<1>1. /\ UNCHANGED <<cacheFile, atimeFile, victim, lastUse, crashed>> /\ pc[p] = "idle"
      /\ \A q \in Procs : q # p =>
            pc'[q] = pc[q] /\ op'[q] = op[q] /\ h'[q] = h[q] /\ result'[q] = result[q]
      /\ result'[p] \in {"none", "too_large"}
      /\ \/ pc'[p] = "idle" /\ op'[p] = op[p]
         \/ /\ pc'[p] = IF eviction_enabled THEN "acquire" ELSE "locked"
            /\ op'[p].op \in {"get", "put"} /\ op'[p].key = k
            /\ eviction_enabled /\ op'[p].op = "put" => ~(Size[k] > max_size)
  BY <1>0 DEF get, put, Begin, Goto, FirstStep, files
<1>2. Present' = Present /\ stored' = stored /\ dir_size' = dir_size
      /\ (eviction_enabled' <=> eviction_enabled)
  BY <1>1, SameSize DEF eviction_enabled
<1>3. Operations'
  BY <1>0, <1>1, <1>2 DEF IInv, Operations
<1>4. Room'
  BY <1>1, <1>2 DEF IInv, Room
<1>5. Sized'
  BY <1>2 DEF IInv, Sized, SizeBounded
<1>6. Uncrashed'
  BY <1>1, <1>2 DEF IInv, Uncrashed
<1> QED
  BY <1>3, <1>4, <1>5, <1>6

\* So it is while a process waits for the lock file, gets it or gives up.
LEMMA AcquireStep ==
    ASSUME IInv, UNCHANGED max_size, NEW p \in Procs, AcquireLock(p)
    PROVE  Operations' /\ Room' /\ Sized' /\ Uncrashed'
<1>0. DOMAIN pc = Procs /\ DOMAIN result = Procs
  BY Types DEF IInv
<1>1. /\ UNCHANGED <<cacheFile, atimeFile, op, h, victim, lastUse, crashed>> /\ pc[p] = "acquire"
      /\ \A q \in Procs : q # p => pc'[q] = pc[q] /\ result'[q] = result[q]
      /\ \/ pc'[p] = "locked" /\ result'[p] = result[p]
         \/ pc'[p] = "idle" /\ result'[p] = "Timeout"
  BY <1>0 DEF AcquireLock, Goto, files
<1>2. Present' = Present /\ stored' = stored /\ dir_size' = dir_size
      /\ (eviction_enabled' <=> eviction_enabled)
  BY <1>1, SameSize DEF eviction_enabled
<1>3. Operations'
  BY <1>1, <1>2 DEF IInv, Operations
<1>4. Room'
  BY <1>1, <1>2 DEF IInv, Room
<1>5. Sized'
  BY <1>2 DEF IInv, Sized, SizeBounded
<1>6. Uncrashed'
  BY <1>1, <1>2 DEF IInv, Uncrashed
<1> QED
  BY <1>3, <1>4, <1>5, <1>6

\* A get that finds a file finds it until it has read it, and, as long as no
\* process died, finds it whole: who writes one is in its section.
LEMMA GetStep ==
    ASSUME IInv, UNCHANGED max_size, NEW p \in Procs, GetExists(p) \/ ReadBytes(p)
    PROVE  Operations' /\ Room' /\ Sized' /\ Uncrashed'
<1>0. DOMAIN pc = Procs /\ DOMAIN result = Procs
      /\ \A k \in Keys : cacheFile[k] \in {"absent", "partial", "whole"}
  BY Types DEF IInv
<1>1. /\ UNCHANGED <<cacheFile, atimeFile, op, h, victim, lastUse, crashed>>
      /\ pc[p] \in {"locked", "read"} /\ op[p].op = "get"
      /\ \A q \in Procs : q # p => pc'[q] = pc[q] /\ result'[q] = result[q]
      /\ \/ pc'[p] = "idle" /\ result'[p] = "None"
         \/ pc'[p] = "read" /\ result'[p] = result[p] /\ cacheFile[op[p].key] # "absent"
         \/ /\ pc[p] = "read" /\ result'[p] = cacheFile[op[p].key]
            /\ pc'[p] = IF eviction_enabled THEN "stamp" ELSE "idle"
  BY <1>0 DEF GetExists, ReadBytes, Exists, Goto, Finish, files, IInv, Operations
<1>2. Present' = Present /\ stored' = stored /\ dir_size' = dir_size
      /\ (eviction_enabled' <=> eviction_enabled)
  BY <1>1, SameSize DEF eviction_enabled
<1>3. Operations'
  BY <1>1, <1>2 DEF IInv, Operations
<1>4. Room'
  BY <1>1, <1>2 DEF IInv, Room
<1>5. Sized'
  BY <1>2 DEF IInv, Sized, SizeBounded
<1>6. op[p].key \in Keys
  BY <1>1 DEF IInv, Operations
<1>7. eviction_enabled /\ crashed = 0 => cacheFile[op[p].key] # "partial"
  BY <1>1, <1>6, Alone DEF IInv, Uncrashed, InSection
<1>8. eviction_enabled => pc[p] \notin {"fill", "stamp"}
  BY <1>1
<1>9. Uncrashed'
  <2> SUFFICES ASSUME crashed = 0 PROVE Uncrashed'
    BY <1>1 DEF Uncrashed
  <2>1. \A q \in Procs : result'[q] # "FileNotFoundError"
    BY <1>0, <1>1, <1>6 DEF IInv, Uncrashed
  <2>2. eviction_enabled => \A q \in Procs : op[q].op = "get" => result'[q] # "partial"
    BY <1>0, <1>1, <1>7 DEF IInv, Uncrashed
  <2>3. \A q \in Procs : pc[q] \in {"fill", "stamp"} => pc'[q] = pc[q]
    BY <1>1
  <2> QED
    BY <1>1, <1>2, <2>1, <2>2, <2>3 DEF IInv, Uncrashed
<1> QED
  BY <1>3, <1>4, <1>5, <1>9

\* The time stamp completes the entry, and tells its last use.
LEMMA StampStep ==
    ASSUME IInv, UNCHANGED max_size, NEW p \in Procs, WriteAtime(p)
    PROVE  Operations' /\ Room' /\ Sized' /\ Uncrashed'
<1>0. /\ DOMAIN pc = Procs /\ DOMAIN result = Procs /\ now \in Nat
      /\ DOMAIN atimeFile = Keys /\ DOMAIN lastUse = Keys
  BY Types DEF IInv
<1>1. /\ UNCHANGED <<cacheFile, op, h, victim, crashed>>
      /\ pc[p] = "stamp" /\ pc'[p] = "idle" /\ result'[p] \in {"stored", result[p]}
      /\ op[p].op = "get" => result'[p] = result[p]
      /\ \A q \in Procs : q # p => pc'[q] = pc[q] /\ result'[q] = result[q]
      /\ atimeFile' = [atimeFile EXCEPT ![op[p].key] = now + 1]
      /\ lastUse' = [lastUse EXCEPT ![op[p].key] = now + 1]
  BY <1>0 DEF WriteAtime, NewStamp, Goto, Finish
<1>2. Present' = Present /\ stored' = stored /\ dir_size' = dir_size
      /\ (eviction_enabled' <=> eviction_enabled)
  BY <1>1, SameSize DEF eviction_enabled
<1>3. Operations'
  BY <1>1, <1>2 DEF IInv, Operations
<1>4. Room'
  BY <1>1, <1>2 DEF IInv, Room
<1>5. Sized'
  BY <1>2 DEF IInv, Sized, SizeBounded
<1>6. op[p].key \in Keys
  BY <1>1 DEF IInv, Operations
<1>7. Uncrashed'
  <2> SUFFICES ASSUME crashed = 0 PROVE Uncrashed'
    BY <1>1 DEF Uncrashed
  <2>1. \A q \in Procs : result'[q] # "FileNotFoundError"
    BY <1>1 DEF IInv, Uncrashed
  <2>2. eviction_enabled => \A q \in Procs : op[q].op = "get" => result'[q] # "partial"
    BY <1>1 DEF IInv, Uncrashed
  <2>3. ASSUME eviction_enabled, NEW k \in Keys
        PROVE  /\ cacheFile'[k] = "partial" => \E q \in Procs : pc'[q] = "fill" /\ op'[q].key = k
               /\ cacheFile'[k] # "absent" /\ atimeFile'[k] = Absent =>
                     \E q \in Procs : pc'[q] \in {"fill", "stamp"} /\ op'[q].key = k
               /\ atimeFile'[k] \in {Absent, lastUse'[k]}
    <3>1. k = op[p].key => atimeFile'[k] = now + 1 /\ lastUse'[k] = now + 1 /\ now + 1 # Absent
      BY <1>0, <1>1 DEF Absent
    <3>2. k # op[p].key => atimeFile'[k] = atimeFile[k] /\ lastUse'[k] = lastUse[k]
      BY <1>0, <1>1
    <3> QED
      BY <1>1, <2>3, <3>1, <3>2 DEF IInv, Uncrashed
  <2> QED
    BY <1>1, <1>2, <2>1, <2>2, <2>3 DEF Uncrashed
<1> QED
  BY <1>3, <1>4, <1>5, <1>7

\* The scan puts all entries in the queue; as long as no process died, all of
\* them have a time stamp: who is about to write one is in its section.
LEMMA ScanStep ==
    ASSUME IInv, UNCHANGED max_size, NEW p \in Procs, PutExistsAndScan(p)
    PROVE  Operations' /\ Room' /\ Sized' /\ Uncrashed'
<1>0. DOMAIN pc = Procs /\ DOMAIN result = Procs /\ DOMAIN h = Procs
  BY Types DEF IInv
<1>1. /\ UNCHANGED <<cacheFile, atimeFile, op, victim, lastUse, crashed>>
      /\ pc[p] = "locked" /\ op[p].op = "put"
      /\ \A q \in Procs : q # p => pc'[q] = pc[q] /\ result'[q] = result[q] /\ h'[q] = h[q]
      /\ \/ pc'[p] = "idle" /\ result'[p] = "exists"
         \/ /\ eviction_enabled /\ \E j \in Present : atimeFile[j] = Absent
            /\ pc'[p] = "idle" /\ result'[p] = "FileNotFoundError"
         \/ /\ cacheFile[op[p].key] = "absent" /\ result'[p] = result[p]
            /\ IF eviction_enabled THEN pc'[p] = "evict" /\ h'[p] = Present
               ELSE pc'[p] = "write"
  BY <1>0 DEF PutExistsAndScan, Exists, Goto, Finish, files
<1>2. Present' = Present /\ stored' = stored /\ dir_size' = dir_size
      /\ (eviction_enabled' <=> eviction_enabled)
  BY <1>1, SameSize DEF eviction_enabled
<1>3. Operations'
  BY <1>1, <1>2 DEF IInv, Operations
<1>4. Room'
  BY <1>1, <1>2 DEF IInv, Room
<1>5. Sized'
  BY <1>2 DEF IInv, Sized, SizeBounded
<1>6. eviction_enabled /\ crashed = 0 => \A j \in Present : atimeFile[j] # Absent
  BY <1>1, Alone DEF IInv, Uncrashed, InSection, Present
<1>7. Uncrashed'
  <2> SUFFICES ASSUME crashed = 0 PROVE Uncrashed'
    BY <1>1 DEF Uncrashed
  <2>1. \A q \in Procs : result'[q] # "FileNotFoundError"
    BY <1>1, <1>6 DEF IInv, Uncrashed
  <2>2. eviction_enabled => \A q \in Procs : op[q].op = "get" => result'[q] # "partial"
    BY <1>1 DEF IInv, Uncrashed
  <2>3. \A q \in Procs : pc[q] \in {"fill", "stamp"} => pc'[q] = pc[q]
    BY <1>1
  <2> QED
    BY <1>1, <1>2, <2>1, <2>2, <2>3 DEF IInv, Uncrashed
<1> QED
  BY <1>3, <1>4, <1>5, <1>7

\* A turn of the eviction loop takes an entry out of the queue and out of the
\* directory; the loop ends when there is room.
LEMMA UnlinkCacheStep ==
    ASSUME IInv, UNCHANGED max_size, NEW p \in Procs, UnlinkCache(p)
    PROVE  Operations' /\ Room' /\ Sized' /\ Uncrashed'
<1>0. /\ DOMAIN pc = Procs /\ DOMAIN h = Procs /\ DOMAIN victim = Procs
      /\ DOMAIN cacheFile = Keys /\ max_size \in Int
      /\ h[p] \subseteq Keys
  BY Types DEF IInv, TypeOK
<1>1. /\ pc[p] = "evict" /\ eviction_enabled /\ eviction_enabled'
      /\ op[p].op = "put" /\ op[p].key \in Keys /\ Size[op[p].key] <= max_size
      /\ h[p] = Present /\ cacheFile[op[p].key] = "absent"
  BY DEF UnlinkCache, IInv, Operations, Room, eviction_enabled
<1>2. \A q \in Procs : q # p => ~InSection(q)
  BY <1>1, Alone DEF InSection
<1>3. UNCHANGED <<atimeFile, lockHolder, op, result, now, lastUse, crashed>>
  BY DEF UnlinkCache
<1>4. IsFiniteSet(stored) /\ dir_size <= max_size /\ dir_size \in Nat /\ Size[op[p].key] \in Nat
  BY <1>1, FS_CardinalityType, CacheAssumption DEF IInv, Sized, SizeBounded, dir_size
<1>5. CASE MustEvict(p)
  <2>1. PICK k \in h[p] :
           /\ cacheFile' = [cacheFile EXCEPT ![k] = "absent"]
           /\ h' = [h EXCEPT ![p] = @ \ {k}]
           /\ victim' = [victim EXCEPT ![p] = k]
    BY <1>5 DEF UnlinkCache
  <2>2. /\ pc'[p] = "unlink" /\ k \in Keys /\ cacheFile'[k] = "absent"
        /\ \A j \in Keys : j # k => cacheFile'[j] = cacheFile[j]
        /\ victim'[p] = k /\ h'[p] = h[p] \ {k}
        /\ \A q \in Procs : q # p => pc'[q] = pc[q] /\ victim'[q] = victim[q]
    BY <1>0, <1>5, <2>1 DEF UnlinkCache, Goto
  <2>3. IsFiniteSet(stored') /\ dir_size' <= dir_size /\ dir_size' \in Nat
    BY <1>4, <2>2, NoMoreBytes
  <2>4. Present' = Present \ {k}
    BY <2>2 DEF Present
  <2>5. Operations'
    BY <1>1, <1>2, <1>3, <2>2 DEF IInv, Operations, InSection, eviction_enabled
  <2>6. Room'
    BY <1>1, <1>2, <1>3, <2>2, <2>4 DEF Room, InSection
  <2>7. Sized'
    <3>1. dir_size' <= max_size
      BY <1>0, <1>4, <2>3
    <3> QED
      BY <2>3, <3>1 DEF Sized, SizeBounded
  <2>8. Uncrashed'
    BY <1>1, <1>2, <1>3, <2>2 DEF IInv, Uncrashed, InSection
  <2> QED
    BY <2>5, <2>6, <2>7, <2>8
<1>6. CASE ~MustEvict(p)
  <2>1. /\ pc'[p] = "write" /\ UNCHANGED <<cacheFile, h, victim>>
        /\ \A q \in Procs : q # p => pc'[q] = pc[q]
    BY <1>0, <1>6 DEF UnlinkCache, Goto
  <2>2. Present' = Present /\ stored' = stored /\ dir_size' = dir_size
    BY <2>1, SameSize
  <2>3. dir_size + Size[op[p].key] <= max_size
    BY <1>0, <1>4, <1>6 DEF MustEvict
  <2>4. Operations'
    BY <1>1, <1>3, <2>1 DEF IInv, Operations, eviction_enabled
  <2>5. Room'
    BY <1>1, <1>2, <1>3, <2>1, <2>2, <2>3 DEF Room, InSection
  <2>6. Sized'
    BY <1>4, <2>2 DEF Sized, SizeBounded
  <2>7. Uncrashed'
    BY <1>1, <1>3, <2>1 DEF IInv, Uncrashed, eviction_enabled
  <2> QED
    BY <2>4, <2>5, <2>6, <2>7
<1> QED
  BY <1>5, <1>6

\* The time stamp of an evicted entry goes after its file.
LEMMA UnlinkAtimeStep ==
    ASSUME IInv, UNCHANGED max_size, NEW p \in Procs, UnlinkAtime(p)
    PROVE  Operations' /\ Room' /\ Sized' /\ Uncrashed'
<1>0. DOMAIN pc = Procs /\ DOMAIN atimeFile = Keys
  BY Types DEF IInv
<1>1. /\ UNCHANGED <<cacheFile, op, h, victim, result, lastUse, crashed>>
      /\ pc[p] = "unlink" /\ pc'[p] = "evict"
      /\ \A q \in Procs : q # p => pc'[q] = pc[q]
      /\ atimeFile' = [atimeFile EXCEPT ![victim[p]] = Absent]
  BY <1>0 DEF UnlinkAtime, Goto
<1>2. Present' = Present /\ stored' = stored /\ dir_size' = dir_size
      /\ (eviction_enabled' <=> eviction_enabled)
  BY <1>1, SameSize DEF eviction_enabled
<1>3. eviction_enabled /\ victim[p] \in Keys /\ cacheFile[victim[p]] = "absent"
  BY <1>1 DEF IInv, Operations, Room
<1>4. Operations'
  BY <1>1, <1>2 DEF IInv, Operations
<1>5. Room'
  BY <1>1, <1>2 DEF IInv, Room
<1>6. Sized'
  BY <1>2 DEF IInv, Sized, SizeBounded
<1>7. Uncrashed'
  <2>1. \A k \in Keys : k # victim[p] => atimeFile'[k] = atimeFile[k]
    BY <1>0, <1>1
  <2>2. atimeFile'[victim[p]] = Absent
    BY <1>0, <1>1, <1>3
  <2>3. \A q \in Procs : pc[q] \in {"fill", "stamp"} => pc'[q] = pc[q]
    BY <1>1
  <2> QED
    BY <1>1, <1>2, <1>3, <2>1, <2>2, <2>3 DEF IInv, Uncrashed
<1> QED
  BY <1>4, <1>5, <1>6, <1>7

\* The file of an entry is there before its contents.
LEMMA OpenStep ==
    ASSUME IInv, UNCHANGED max_size, NEW p \in Procs, OpenFile(p)
    PROVE  Operations' /\ Room' /\ Sized' /\ Uncrashed'
<1>0. DOMAIN pc = Procs /\ DOMAIN cacheFile = Keys /\ max_size \in Int
      /\ \A k \in Keys : Size[k] \in Nat
  BY Types DEF IInv
<1>1. PICK k \in Keys : k = op[p].key
  BY DEF OpenFile, IInv, Operations
<1>2. /\ UNCHANGED <<atimeFile, op, h, victim, result, lastUse, crashed>>
      /\ pc[p] = "write" /\ pc'[p] = "fill"
      /\ \A q \in Procs : q # p => pc'[q] = pc[q]
      /\ cacheFile'[k] = "partial" /\ \A j \in Keys : j # k => cacheFile'[j] = cacheFile[j]
      /\ (eviction_enabled' <=> eviction_enabled)
  BY <1>0, <1>1 DEF OpenFile, Goto, eviction_enabled
<1>3. IsFiniteSet(stored) /\ dir_size \in Nat /\ (eviction_enabled => dir_size <= max_size)
  BY FS_CardinalityType DEF IInv, Sized, SizeBounded, dir_size
<1>4. IsFiniteSet(stored') /\ dir_size' <= dir_size /\ dir_size' \in Nat
  BY <1>2, <1>3, NoMoreBytes
<1>5. eviction_enabled => \A q \in Procs : q # p => ~InSection(q)
  BY <1>2, Alone DEF InSection
<1>6. Operations'
  BY <1>1, <1>2 DEF IInv, Operations
<1>7. Room'
  <2> SUFFICES ASSUME eviction_enabled PROVE Room'
    BY <1>2 DEF Room
  <2>1. dir_size + Size[k] <= max_size
    BY <1>1, <1>2 DEF IInv, Room
  <2>2. dir_size' + Size[k] <= max_size
    BY <1>0, <1>3, <1>4, <2>1
  <2> QED
    BY <1>1, <1>2, <1>5, <2>2 DEF Room, InSection
<1>8. Sized'
  <2>1. eviction_enabled => dir_size' <= max_size
    BY <1>0, <1>3, <1>4
  <2> QED
    BY <1>2, <1>4, <2>1 DEF Sized, SizeBounded
<1>9. Uncrashed'
  <2>1. \A q \in Procs : pc[q] \in {"fill", "stamp"} => pc'[q] = pc[q]
    BY <1>2
  <2> QED
    BY <1>1, <1>2, <2>1 DEF IInv, Uncrashed
<1> QED
  BY <1>6, <1>7, <1>8, <1>9

\* The contents fit, since the eviction made room for them.
LEMMA ContentsStep ==
    ASSUME IInv, UNCHANGED max_size, NEW p \in Procs, WriteContents(p)
    PROVE  Operations' /\ Room' /\ Sized' /\ Uncrashed'
<1>0. DOMAIN pc = Procs /\ DOMAIN cacheFile = Keys /\ DOMAIN result = Procs /\ max_size \in Int
      /\ \A k \in Keys : Size[k] \in Nat
  BY Types DEF IInv
<1>1. PICK k \in Keys : k = op[p].key
  BY DEF WriteContents, IInv, Operations
<1>2. /\ UNCHANGED <<atimeFile, op, h, victim, lastUse, crashed>>
      /\ pc[p] = "fill" /\ op[p].op = "put"
      /\ \A q \in Procs : q # p => pc'[q] = pc[q] /\ result'[q] = result[q]
      /\ cacheFile'[k] = "whole" /\ \A j \in Keys : j # k => cacheFile'[j] = cacheFile[j]
      /\ \/ eviction_enabled /\ pc'[p] = "stamp" /\ result'[p] = result[p]
         \/ ~eviction_enabled /\ pc'[p] = "idle" /\ result'[p] = "stored"
      /\ (eviction_enabled' <=> eviction_enabled)
  BY <1>0, <1>1 DEF WriteContents, Goto, Finish, eviction_enabled, IInv, Operations
<1>3. IsFiniteSet(stored) /\ dir_size \in Nat
      /\ (eviction_enabled => dir_size + Size[k] <= max_size)
  BY <1>1, <1>2, FS_CardinalityType DEF IInv, Sized, Room, dir_size
<1>4. IsFiniteSet(stored') /\ dir_size' <= dir_size + Size[k] /\ dir_size' \in Nat
  BY <1>2, <1>3, OneMoreFile
<1>5. eviction_enabled => \A q \in Procs : q # p => ~InSection(q)
  BY <1>2, Alone DEF InSection
<1>6. Operations'
  BY <1>1, <1>2 DEF IInv, Operations
<1>7. Room'
  BY <1>1, <1>2, <1>5 DEF Room, InSection
<1>8. Sized'
  <2>1. eviction_enabled => dir_size' <= max_size
    BY <1>0, <1>3, <1>4
  <2> QED
    BY <1>2, <1>4, <2>1 DEF Sized, SizeBounded
<1>9. Uncrashed'
  BY <1>1, <1>2 DEF IInv, Uncrashed
<1> QED
  BY <1>6, <1>7, <1>8, <1>9

\* A process that dies leaves the files as they are, but for a time stamp.
LEMMA CrashStep ==
    ASSUME IInv, UNCHANGED max_size, NEW p \in Procs, Crash(p)
    PROVE  Operations' /\ Room' /\ Sized' /\ Uncrashed'
<1>0. DOMAIN pc = Procs /\ DOMAIN h = Procs /\ crashed \in Nat
  BY Types DEF IInv
<1>1. /\ UNCHANGED <<cacheFile, op, victim>> /\ pc'[p] = "idle" /\ crashed' # 0
      /\ \A q \in Procs : q # p => pc'[q] = pc[q] /\ h'[q] = h[q]
  BY <1>0 DEF Crash, Goto
<1>2. Present' = Present /\ stored' = stored /\ dir_size' = dir_size
      /\ (eviction_enabled' <=> eviction_enabled)
  BY <1>1, SameSize DEF eviction_enabled
<1>3. Operations'
  BY <1>1, <1>2 DEF IInv, Operations
<1>4. Room'
  BY <1>1, <1>2 DEF IInv, Room
<1>5. Sized'
  BY <1>2 DEF IInv, Sized, SizeBounded
<1>6. Uncrashed'
  BY <1>1 DEF Uncrashed
<1> QED
  BY <1>3, <1>4, <1>5, <1>6

\* Every step keeps the invariant.
LEMMA StepInv == IInv /\ [Next]_vars => IInv'
<1> SUFFICES ASSUME IInv, [Next]_vars PROVE IInv'
  OBVIOUS
<1>1. CASE UNCHANGED vars
  <2>1. Present' = Present /\ stored' = stored /\ dir_size' = dir_size
        /\ (eviction_enabled' <=> eviction_enabled)
    BY <1>1, SameSize DEF vars, files, eviction_enabled
  <2>2. TypeOK'
    BY <1>1 DEF vars, files, IInv, TypeOK
  <2>3. Exclusive' /\ Operations' /\ Room'
    BY <1>1, <2>1 DEF vars, files, IInv, Exclusive, InSection, Operations, Room
  <2>4. Sized' /\ Uncrashed'
    BY <1>1, <2>1 DEF vars, files, IInv, Sized, SizeBounded, Uncrashed
  <2> QED
    BY <2>2, <2>3, <2>4 DEF IInv
<1>2. CASE Next
  <2>1. UNCHANGED max_size
    BY <1>2 DEF Next
  <2>2. PICK p \in Procs :
           \/ \E k \in Keys : get(p, k) \/ put(p, k)
           \/ AcquireLock(p) \/ GetExists(p) \/ ReadBytes(p) \/ WriteAtime(p)
           \/ PutExistsAndScan(p) \/ UnlinkCache(p) \/ UnlinkAtime(p)
           \/ OpenFile(p) \/ WriteContents(p) \/ Crash(p)
    BY <1>2 DEF Next
  <2>3. TypeOK' /\ Exclusive'
    BY <2>1, <2>2, TypeStep, ExclusiveStep
  <2>4. Operations' /\ Room' /\ Sized' /\ Uncrashed'
    BY <2>1, <2>2, BeginStep, AcquireStep, GetStep, StampStep, ScanStep, UnlinkCacheStep,
       UnlinkAtimeStep, OpenStep, ContentsStep, CrashStep
  <2> QED
    BY <2>3, <2>4 DEF IInv
<1> QED
  BY <1>1, <1>2

-----------------------------------------------------------------------------

\* The directory never exceeds max_size, wherever processes die, and the
\* eviction loop never pops an empty queue (_evict_if_needed).
THEOREM RoomIsMade == Spec => []EvictionMakesRoom
<1>1. IInv => EvictionMakesRoom
  <2> SUFFICES ASSUME IInv PROVE QueueSuffices
    BY DEF IInv, Sized, EvictionMakesRoom
  <2> SUFFICES ASSUME NEW p \in Procs, pc[p] = "evict", MustEvict(p), h[p] = {} PROVE FALSE
    BY DEF QueueSuffices
  <2>1. Present = {} /\ op[p].key \in Keys /\ Size[op[p].key] <= max_size
    BY DEF IInv, Operations, Room
  <2>2. stored = {}
    BY <2>1, StoredMembers DEF Present
  <2>3. dir_size = 0
    BY <2>2, FS_EmptySet DEF dir_size
  <2>4. max_size \in Int /\ Size[op[p].key] \in Nat
    BY <2>1, Types DEF IInv
  <2> QED
    BY <2>1, <2>3, <2>4 DEF MustEvict
<1> QED
  BY <1>1, InitInv, StepInv, PTL DEF Spec

\* Under the lock and as long as no process died, get never returns a part of a
\* value (LRUCache.get).
THEOREM GetsAreWhole == Spec => []GetReturnsWholeValue
<1>1. IInv => GetReturnsWholeValue
  BY DEF IInv, Uncrashed, GetReturnsWholeValue
<1> QED
  BY <1>1, InitInv, StepInv, PTL DEF Spec

\* As long as no process died, no put finds an entry without a time stamp
\* (LRUCache.put, _evict_if_needed).
THEOREM PutsSucceed == Spec => []PutFailsOnlyAfterCrash
<1>1. IInv => PutFailsOnlyAfterCrash
  BY DEF IInv, Uncrashed, PutFailsOnlyAfterCrash
<1> QED
  BY <1>1, InitInv, StepInv, PTL DEF Spec

\* As long as no process died, an entry that is evicted was last used before
\* every entry that stays (_evict_if_needed).
THEOREM LeastRecentlyUsedGoes == Spec => EvictsLeastRecentlyUsed
<1> DEFINE Evicts ==
        \A k \in Keys :
            crashed = 0 /\ cacheFile[k] = "whole" /\ cacheFile'[k] = "absent"
              => \A j \in Keys : cacheFile'[j] # "absent" => lastUse[k] <= lastUse[j]
<1>1. IInv /\ [Next]_vars => [Evicts]_vars
  <2> SUFFICES ASSUME IInv, Next, NEW k \in Keys,
                      crashed = 0, cacheFile[k] = "whole", cacheFile'[k] = "absent",
                      NEW j \in Keys, cacheFile'[j] # "absent"
               PROVE  lastUse[k] <= lastUse[j]
    OBVIOUS
  <2>0. /\ DOMAIN cacheFile = Keys
        /\ atimeFile[k] \in Nat \cup {Absent} /\ atimeFile[j] \in Nat \cup {Absent}
        /\ lastUse[k] \in Nat /\ lastUse[j] \in Nat
    BY Types DEF IInv
  <2>1. PICK p \in Procs : UnlinkCache(p)
    <3>1. ASSUME NEW p \in Procs, OpenFile(p) \/ WriteContents(p) PROVE FALSE
      BY <2>0, <3>1 DEF OpenFile, WriteContents
    <3>2. ASSUME NEW p \in Procs, NEW q \in Keys, get(p, q) \/ put(p, q) PROVE FALSE
      BY <3>2 DEF get, put, Begin, files
    <3>3. ASSUME NEW p \in Procs,
                 \/ AcquireLock(p) \/ GetExists(p) \/ ReadBytes(p) \/ WriteAtime(p)
                 \/ PutExistsAndScan(p) \/ UnlinkAtime(p) \/ Crash(p)
          PROVE  FALSE
      BY <3>3 DEF AcquireLock, GetExists, ReadBytes, WriteAtime, PutExistsAndScan,
            UnlinkAtime, Crash, files
    <3> QED
      BY <3>1, <3>2, <3>3 DEF Next
  <2>2. PICK v \in h[p] : /\ \A i \in h[p] : atimeFile[v] <= atimeFile[i]
                          /\ cacheFile' = [cacheFile EXCEPT ![v] = "absent"]
    BY <2>1 DEF UnlinkCache
  <2>3. /\ pc[p] = "evict" /\ eviction_enabled /\ h[p] = Present
        /\ \A q \in Procs : q # p => ~InSection(q)
    BY <2>1, Alone DEF UnlinkCache, IInv, Operations, Room, InSection
  <2>4. v = k
    BY <2>0, <2>2
  <2>5. v \in Keys /\ k \in Present /\ j \in Present
    BY <2>0, <2>2, <2>3 DEF Present
  <2>6. atimeFile[k] <= atimeFile[j]
    BY <2>2, <2>3, <2>4, <2>5
  <2>7. atimeFile[k] = lastUse[k] /\ atimeFile[j] = lastUse[j]
    <3>1. \A q \in Procs : pc[q] \notin {"fill", "stamp"}
      BY <2>3 DEF InSection
    <3> QED
      BY <2>3, <2>5, <3>1 DEF IInv, Uncrashed, Present
  <2> QED
    BY <2>6, <2>7
<1>2. Spec => [][Evicts]_vars
  BY <1>1, InitInv, StepInv, PTL DEF Spec
<1> QED
  BY <1>2 DEF EvictsLeastRecentlyUsed
=============================================================================
