----------------------------- MODULE RaceProofs -----------------------------
(***************************************************************************)
(* The race detection of the TPU interpreter, in two parts.                *)
(*                                                                         *)
(* Detector (interpret/race_detection_state.py): its verdict about the     *)
(* accesses it was told of is exact, for every number of threads, buffers, *)
(* clocks and ranges and for logs of any length.                           *)
(*                                                                         *)
(* Clocks (interpret/shared_memory.py): the vector clocks that it is given *)
(* represent happens-before, for every number of devices, cores,           *)
(* semaphores and DMAs and every size of the clocks: exactly for the       *)
(* accesses of cores, and without false positives for those of DMAs.       *)
(***************************************************************************)
EXTENDS RaceDetectionState, SharedMemoryClocks, WellFoundedInduction, TLAPS

-----------------------------------------------------------------------------
(* The detector.                                                           *)

USE DEF FirstIndex, CapturedReads

\* Ranges overlap symmetrically, so it does not matter which of two accesses
\* finds the other one in the log (_ranges_overlap).
LEMMA OverlapSymmetric ==
    ASSUME NEW r1 \in Ranges, NEW r2 \in Ranges
    PROVE  _ranges_overlap(r1, r2) <=> _ranges_overlap(r2, r1)
<1> DEFINE Dims(a, b) == 1 .. (IF Len(a) >= Len(b) THEN Len(a) ELSE Len(b))
<1>1. Len(r1) \in Nat /\ Len(r2) \in Nat
  BY RangesAssumption
<1>2. Dims(r1, r2) = Dims(r2, r1)
  BY <1>1
<1>3. ASSUME NEW s1, NEW s2
      PROVE  _slices_overlap(s1, s2) <=> _slices_overlap(s2, s1)
  BY DEF _slices_overlap, _is_empty_slice
<1> QED
  BY <1>2, <1>3 DEF _ranges_overlap

\* Conflicts does not depend on the order of the two accesses.
LEMMA ConflictsSymmetric ==
    ASSUME NEW e \in Entry, NEW f \in Entry
    PROVE  Conflicts(e, f) <=> Conflicts(f, e)
<1>1. ordered(e.clock, f.clock) <=> ordered(f.clock, e.clock)
  BY DEF ordered
<1>2. e.rnge \in Ranges /\ f.rnge \in Ranges
  BY DEF Entry
<1> QED
  BY <1>1, <1>2, OverlapSymmetric DEF Conflicts

-----------------------------------------------------------------------------

\* Every step keeps the types (check_read, check_write and their loops).
LEMMA TypeStep == DetectorTypeOK /\ [DetectorNext]_detectorVars => DetectorTypeOK'
<1> SUFFICES ASSUME DetectorTypeOK, [DetectorNext]_detectorVars PROVE DetectorTypeOK'
  OBVIOUS
<1> USE DEF DetectorTypeOK
<1>1. ASSUME NEW t \in Threads, NEW k \in BufferKeys, NEW e \in Entry,
             check_read(t, k, e)
      PROVE  DetectorTypeOK'
  BY <1>1 DEF check_read, LoggedAccess
<1>2. ASSUME NEW t \in Threads, NEW k \in BufferKeys, NEW e \in Entry,
             check_write(t, k, e)
      PROVE  DetectorTypeOK'
  BY <1>2 DEF check_write, LoggedAccess
<1>3. ASSUME NEW t \in Threads, ScanWrite(t) PROVE DetectorTypeOK'
  <2> DEFINE C == Conflicts(writes[access[t].key][idx[t]], access[t].entry)
  <2>1. CASE C
    BY <1>3, <2>1 DEF ScanWrite
  <2>2. CASE ~C
    <3>1. idx' \in [Threads -> Nat \ {0}]
      BY <1>3, <2>2 DEF ScanWrite
    <3> QED
      BY <1>3, <2>2, <3>1 DEF ScanWrite
  <2> QED
    BY <2>1, <2>2
<1>4. ASSUME NEW t \in Threads, EndWrites(t) PROVE DetectorTypeOK'
  BY <1>4 DEF EndWrites
<1>5. ASSUME NEW t \in Threads, FlagWriteRace(t) PROVE DetectorTypeOK'
  BY <1>5 DEF FlagWriteRace
<1>6. ASSUME NEW t \in Threads, ScanRead(t) PROVE DetectorTypeOK'
  <2> DEFINE C == Conflicts(reads[access[t].key][idx[t]], access[t].entry)
  <2>1. CASE C
    BY <1>6, <2>1 DEF ScanRead
  <2>2. CASE ~C
    <3>1. idx' \in [Threads -> Nat \ {0}]
      BY <1>6, <2>2 DEF ScanRead
    <3> QED
      BY <1>6, <2>2, <3>1 DEF ScanRead
  <2> QED
    BY <2>1, <2>2
<1>7. ASSUME NEW t \in Threads, EndReads(t) PROVE DetectorTypeOK'
  BY <1>7 DEF EndReads
<1>8. ASSUME NEW t \in Threads, FlagReadRace(t) PROVE DetectorTypeOK'
  BY <1>8 DEF FlagReadRace
<1>9. CASE UNCHANGED detectorVars
  BY <1>9 DEF detectorVars
<1> QED
  BY <1>1, <1>2, <1>3, <1>4, <1>5, <1>6, <1>7, <1>8, <1>9 DEF DetectorNext, Entry

\* The state the interpreter creates the detector in has its type.
LEMMA DetectorInitType == DetectorInit => DetectorTypeOK
<1> SUFFICES ASSUME DetectorInit PROVE DetectorTypeOK
  OBVIOUS
<1>1. reads \in [BufferKeys -> Seq(Entry)] /\ writes \in [BufferKeys -> Seq(Entry)]
  BY DEF DetectorInit
<1>2. access \in [Threads -> LoggedAccess \cup {NoAccess}]
  BY DEF DetectorInit
<1>3. idx \in [Threads -> Nat \ {0}] /\ num_writes \in [Threads -> Nat]
      /\ num_reads \in [Threads -> Nat]
  BY DEF DetectorInit
<1> QED
  BY <1>1, <1>2, <1>3 DEF DetectorInit, DetectorTypeOK

\* The detector's state always has its type.
THEOREM TypeCorrect == DetectorSpec => []DetectorTypeOK
  BY DetectorInitType, TypeStep, PTL DEF DetectorSpec

-----------------------------------------------------------------------------

\* l is a prefix of m: the relation between a log and its later value.
Grown(l, m) == Len(l) <= Len(m) /\ \A a \in DOMAIN l : a \in DOMAIN m /\ m[a] = l[a]

LogsGrow == \A k \in BufferKeys : Grown(writes[k], writes'[k]) /\ Grown(reads[k], reads'[k])

\* Only the first steps of check_read and check_write touch a log, and they
\* append to it; a captured prefix never changes.
LEMMA LogStep == DetectorTypeOK /\ [DetectorNext]_detectorVars => LogsGrow
<1> SUFFICES ASSUME DetectorTypeOK, [DetectorNext]_detectorVars PROVE LogsGrow
  OBVIOUS
<1>0. ASSUME NEW l \in Seq(Entry), NEW e \in Entry
      PROVE  Grown(l, l) /\ Grown(l, Append(l, e))
  BY DEF Grown
<1>1. ASSUME NEW t \in Threads, NEW k \in BufferKeys, NEW e \in Entry,
             check_read(t, k, e)
      PROVE  LogsGrow
  BY <1>0, <1>1 DEF check_read, LogsGrow, DetectorTypeOK
<1>2. ASSUME NEW t \in Threads, NEW k \in BufferKeys, NEW e \in Entry,
             check_write(t, k, e)
      PROVE  LogsGrow
  BY <1>0, <1>2 DEF check_write, LogsGrow, DetectorTypeOK
<1>3. CASE UNCHANGED <<reads, writes>>
  BY <1>3 DEF LogsGrow, Grown, DetectorTypeOK
<1> QED
  BY <1>1, <1>2, <1>3
  DEF DetectorNext, detectorVars, Entry, ScanWrite, EndWrites, FlagWriteRace, ScanRead, EndReads,
      FlagReadRace

\* A race in the logs stays there.
LEMMA RaceStep == DetectorTypeOK /\ DetectorTypeOK' /\ LogsGrow /\ LoggedConflict => LoggedConflict'
<1> SUFFICES ASSUME DetectorTypeOK, DetectorTypeOK', LogsGrow, LoggedConflict PROVE LoggedConflict'
  OBVIOUS
<1>1. PICK k \in BufferKeys :
        \/ \E a \in DOMAIN writes[k], b \in DOMAIN writes[k] :
              a < b /\ Conflicts(writes[k][a], writes[k][b])
        \/ \E a \in DOMAIN writes[k], b \in DOMAIN reads[k] :
              Conflicts(writes[k][a], reads[k][b])
  BY DEF LoggedConflict
<1> QED
  BY <1>1 DEF LoggedConflict, LogsGrow, Grown

\* A call keeps its place in the logs while other threads append to them.
LEMMA InLogStable ==
    ASSUME DetectorTypeOK, DetectorTypeOK', LogsGrow, NEW t \in Threads, InLog(t),
           UNCHANGED <<access[t], num_writes[t], num_reads[t]>>,
           access[t].kind = "read" => at'[t] \notin {"scan_reads", "race_with_read"}
    PROVE  InLog(t)'
<1> DEFINE k == access[t].key
<1>1. k \in BufferKeys
  BY DEF InLog, LoggedAccess
<1>2. Grown(writes[k], writes'[k]) /\ Grown(reads[k], reads'[k])
  BY <1>1 DEF LogsGrow
<1>3. Len(writes[k]) \in Nat /\ Len(writes'[k]) \in Nat
      /\ Len(reads[k]) \in Nat /\ Len(reads'[k]) \in Nat
  BY <1>1 DEF DetectorTypeOK
<1>4. num_writes[t] \in Nat /\ num_reads[t] \in Nat
  BY DEF DetectorTypeOK
<1>5. access'[t] = access[t] /\ num_writes'[t] = num_writes[t]
      /\ num_reads'[t] = num_reads[t]
  OBVIOUS
<1>6. access[t] \in LoggedAccess /\ num_writes[t] <= Len(writes'[k])
      /\ num_reads[t] <= Len(reads'[k])
  BY <1>2, <1>3, <1>4 DEF InLog, Grown
<1>7. ASSUME access[t].kind = "write"
      PROVE  /\ num_writes[t] + 1 \in DOMAIN writes'[k]
             /\ writes'[k][num_writes[t] + 1] = access[t].entry
  BY <1>2, <1>7 DEF InLog, Grown
<1>8. ASSUME access[t].kind = "read"
      PROVE  \E b \in DOMAIN reads'[k] : reads'[k][b] = access[t].entry
  BY <1>2, <1>8 DEF InLog, Grown
<1> QED
  BY <1>5, <1>6, <1>7, <1>8 DEF InLog

\* The accesses of running calls are in the logs (CallInLog is inductive).
LEMMA CallStep ==
    DetectorTypeOK /\ DetectorTypeOK' /\ LogsGrow /\ CallInLog /\ [DetectorNext]_detectorVars => CallInLog'
<1> SUFFICES ASSUME DetectorTypeOK, DetectorTypeOK', LogsGrow, CallInLog, [DetectorNext]_detectorVars,
                    NEW u \in Threads, at'[u] # "idle"
             PROVE  InLog(u)'
  BY DEF CallInLog
<1>1. ASSUME NEW t \in Threads, NEW k \in BufferKeys, NEW e \in Entry,
             check_read(t, k, e)
      PROVE  InLog(u)'
  <2>1. CASE u = t
    <3>1. access'[t] = [kind |-> "read", key |-> k, entry |-> e]
          /\ num_writes'[t] = Len(writes[k]) /\ num_reads'[t] = 0
          /\ at'[t] = "scan_writes" /\ writes' = writes
          /\ reads'[k] = Append(reads[k], e)
      BY <1>1 DEF check_read, DetectorTypeOK
    <3>2. reads[k] \in Seq(Entry) /\ writes[k] \in Seq(Entry)
      BY DEF DetectorTypeOK
    <3>3. Len(reads[k]) + 1 \in DOMAIN reads'[k] /\ reads'[k][Len(reads[k]) + 1] = e
      BY <3>1, <3>2
    <3>4. access'[t] \in LoggedAccess
      BY <3>1 DEF LoggedAccess
    <3>5. num_writes'[t] <= Len(writes'[k]) /\ num_reads'[t] <= Len(reads'[k])
      BY <3>1, <3>2
    <3> QED
      BY <2>1, <3>1, <3>3, <3>4, <3>5 DEF InLog
  <2>2. CASE u # t
    <3>1. UNCHANGED <<access[u], num_writes[u], num_reads[u], at[u]>>
      BY <1>1, <2>2 DEF check_read, DetectorTypeOK
    <3> QED
      BY <3>1, InLogStable DEF CallInLog, InLog
  <2> QED
    BY <2>1, <2>2
<1>2. ASSUME NEW t \in Threads, NEW k \in BufferKeys, NEW e \in Entry,
             check_write(t, k, e)
      PROVE  InLog(u)'
  <2>1. CASE u = t
    <3>1. access'[t] = [kind |-> "write", key |-> k, entry |-> e]
          /\ num_writes'[t] = Len(writes[k]) /\ num_reads'[t] = Len(reads[k])
          /\ at'[t] = "scan_writes" /\ reads' = reads
          /\ writes'[k] = Append(writes[k], e)
      BY <1>2 DEF check_write, DetectorTypeOK
    <3>2. reads[k] \in Seq(Entry) /\ writes[k] \in Seq(Entry)
      BY DEF DetectorTypeOK
    <3>3. Len(writes[k]) + 1 \in DOMAIN writes'[k]
          /\ writes'[k][Len(writes[k]) + 1] = e
      BY <3>1, <3>2
    <3>4. access'[t] \in LoggedAccess
      BY <3>1 DEF LoggedAccess
    <3>5. num_writes'[t] <= Len(writes'[k]) /\ num_reads'[t] <= Len(reads'[k])
      BY <3>1, <3>2
    <3> QED
      BY <2>1, <3>1, <3>3, <3>4, <3>5 DEF InLog
  <2>2. CASE u # t
    <3>1. UNCHANGED <<access[u], num_writes[u], num_reads[u], at[u]>>
      BY <1>2, <2>2 DEF check_write, DetectorTypeOK
    <3> QED
      BY <3>1, InLogStable DEF CallInLog, InLog
  <2> QED
    BY <2>1, <2>2
<1>3. CASE UNCHANGED detectorVars
  <2>1. UNCHANGED <<access[u], num_writes[u], num_reads[u], at[u]>>
    BY <1>3 DEF detectorVars
  <2> QED
    BY <2>1, InLogStable DEF CallInLog, InLog
<1>4. ASSUME NEW t \in Threads,
             \/ ScanWrite(t) \/ EndWrites(t) \/ FlagWriteRace(t)
             \/ ScanRead(t) \/ EndReads(t) \/ FlagReadRace(t)
      PROVE  InLog(u)'
  <2>1. UNCHANGED <<access[u], num_writes[u], num_reads[u]>>
    BY <1>4 DEF ScanWrite, EndWrites, FlagWriteRace, ScanRead, EndReads, FlagReadRace
  <2>2. at[u] # "idle"
    BY <1>4 DEF ScanWrite, EndWrites, FlagWriteRace, ScanRead, EndReads, FlagReadRace,
                DetectorTypeOK
  <2>3. InLog(u)
    BY <2>2 DEF CallInLog
  <2>4. ASSUME access[u].kind = "read"
        PROVE  at'[u] \notin {"scan_reads", "race_with_read"}
    <3>1. at[u] \notin {"scan_reads", "race_with_read"}
      BY <2>3, <2>4 DEF InLog
    <3> QED
      BY <1>4, <2>4, <3>1
      DEF ScanWrite, EndWrites, FlagWriteRace, ScanRead, EndReads, FlagReadRace, DetectorTypeOK
  <2> QED
    BY <2>1, <2>3, <2>4, InLogStable
<1> QED
  BY <1>1, <1>2, <1>3, <1>4 DEF DetectorNext, Entry

-----------------------------------------------------------------------------

\* An alarm has its race in the log (AlarmInLog is inductive).
LEMMA AlarmStep ==
    /\ DetectorTypeOK /\ DetectorTypeOK' /\ LogsGrow /\ CallInLog
    /\ AlarmInLog /\ [DetectorNext]_detectorVars
    => AlarmInLog'
<1> SUFFICES ASSUME DetectorTypeOK, DetectorTypeOK', LogsGrow, CallInLog, AlarmInLog, [DetectorNext]_detectorVars,
                    races_found' \/ \E t \in Threads : Flagging(t)'
             PROVE  LoggedConflict'
  BY DEF AlarmInLog
<1>1. CASE races_found \/ \E t \in Threads : Flagging(t)
  BY <1>1, RaceStep DEF AlarmInLog
<1>2. ASSUME ~races_found, \A t \in Threads : ~Flagging(t),
             NEW t \in Threads, ScanWrite(t)
      PROVE  LoggedConflict
  <2> DEFINE k == access[t].key
             e == access[t].entry
             n == num_writes[t]
  <2>1. Conflicts(writes[k][idx[t]], e) /\ idx[t] <= n
    BY <1>2 DEF ScanWrite, Flagging, DetectorTypeOK
  <2>2. InLog(t)
    BY <1>2 DEF ScanWrite, CallInLog
  <2>3. k \in BufferKeys /\ access[t].kind \in {"read", "write"}
    BY <2>2 DEF InLog, LoggedAccess
  <2>4. writes[k] \in Seq(Entry) /\ n \in Nat /\ idx[t] \in Nat \ {0}
    BY <2>3 DEF DetectorTypeOK
  <2>5. idx[t] \in DOMAIN writes[k]
    BY <2>1, <2>2, <2>4 DEF InLog
  <2>6. CASE access[t].kind = "write"
    <3>1. idx[t] < n + 1
      BY <2>1, <2>4
    <3>2. n + 1 \in DOMAIN writes[k] /\ writes[k][n + 1] = e
      BY <2>2, <2>6 DEF InLog
    <3> QED
      BY <2>1, <2>3, <2>5, <3>1, <3>2 DEF LoggedConflict
  <2>7. CASE access[t].kind = "read"
    <3>1. \E b \in DOMAIN reads[k] : reads[k][b] = e
      BY <2>2, <2>7 DEF InLog
    <3> QED
      BY <2>1, <2>3, <2>5, <3>1 DEF LoggedConflict
  <2> QED
    BY <2>3, <2>6, <2>7
<1>3. ASSUME ~races_found, \A t \in Threads : ~Flagging(t),
             NEW t \in Threads, ScanRead(t)
      PROVE  LoggedConflict
  <2> DEFINE k == access[t].key
             e == access[t].entry
             n == num_writes[t]
  <2>1. Conflicts(reads[k][idx[t]], e) /\ idx[t] <= num_reads[t]
    BY <1>3 DEF ScanRead, Flagging, DetectorTypeOK
  <2>2. InLog(t) /\ at[t] = "scan_reads"
    BY <1>3 DEF ScanRead, CallInLog
  <2>3. k \in BufferKeys /\ access[t].kind = "write" /\ e \in Entry
    BY <2>2 DEF InLog, LoggedAccess
  <2>4. /\ reads[k] \in Seq(Entry)
        /\ num_reads[t] \in Nat /\ idx[t] \in Nat \ {0}
    BY <2>3 DEF DetectorTypeOK
  <2>5. idx[t] \in DOMAIN reads[k] /\ reads[k][idx[t]] \in Entry
    BY <2>1, <2>2, <2>4 DEF InLog
  <2>6. Conflicts(e, reads[k][idx[t]])
    BY <2>1, <2>3, <2>5, ConflictsSymmetric
  <2>7. n + 1 \in DOMAIN writes[k] /\ writes[k][n + 1] = e
    BY <2>2, <2>3 DEF InLog
  <2> QED
    BY <2>3, <2>5, <2>6, <2>7 DEF LoggedConflict
<1>4. ASSUME ~races_found, \A t \in Threads : ~Flagging(t)
      PROVE  \E t \in Threads : ScanWrite(t) \/ ScanRead(t)
  <2> DEFINE Quiet == ~races_found' /\ \A u \in Threads : ~Flagging(u)'
  <2>1. ASSUME NEW t \in Threads, NEW k \in BufferKeys, NEW e \in Entry,
               check_read(t, k, e) \/ check_write(t, k, e)
        PROVE  Quiet
    BY <1>4, <2>1 DEF check_read, check_write, Flagging, DetectorTypeOK
  <2>2. ASSUME NEW t \in Threads, EndWrites(t) \/ EndReads(t)
        PROVE  Quiet
    BY <1>4, <2>2 DEF EndWrites, EndReads, Flagging, DetectorTypeOK
  <2>3. ASSUME NEW t \in Threads, FlagWriteRace(t) \/ FlagReadRace(t)
        PROVE  FALSE
    BY <1>4, <2>3 DEF FlagWriteRace, FlagReadRace, Flagging
  <2>4. CASE UNCHANGED detectorVars
    BY <1>4, <2>4 DEF detectorVars, Flagging
  <2> QED
    BY <2>1, <2>2, <2>3, <2>4 DEF DetectorNext, Entry
<1> QED
  BY <1>1, <1>2, <1>3, <1>4, RaceStep

\* The pairs of RaceSeen for given logs and calls.
AllAhead ==
    \A k \in BufferKeys : \A a \in DOMAIN writes[k] :
        /\ \A b \in DOMAIN writes[k] :
              a < b /\ Conflicts(writes[k][a], writes[k][b]) =>
                 \E t \in Threads : WillCompareWrite(t, k, writes[k][b], a)
        /\ \A b \in DOMAIN reads[k] :
              Conflicts(writes[k][a], reads[k][b]) =>
                 \E t \in Threads : \/ WillCompareWrite(t, k, reads[k][b], a)
                                    \/ WillCompareRead(t, k, writes[k][a], b)

\* A logged race is reported or its comparison is still to come (RaceSeen is
\* inductive): an access is compared with everything logged before it.
LEMMA SeenStep ==
    /\ DetectorTypeOK /\ DetectorTypeOK' /\ CallInLog /\ RaceSeen /\ [DetectorNext]_detectorVars
    => RaceSeen'
<1> SUFFICES ASSUME DetectorTypeOK, DetectorTypeOK', CallInLog, RaceSeen, [DetectorNext]_detectorVars,
                    ~races_found', \A t \in Threads : ~Flagging(t)'
             PROVE  AllAhead'
  BY DEF RaceSeen, AllAhead
<1>0. AllAhead
  <2> DEFINE Keeps == /\ races_found => races_found'
                      /\ \A u \in Threads : Flagging(u) => races_found' \/ Flagging(u)'
  <2>1. ASSUME NEW t \in Threads, NEW k \in BufferKeys, NEW e \in Entry,
               check_read(t, k, e) \/ check_write(t, k, e)
        PROVE  Keeps
    BY <2>1 DEF check_read, check_write, Flagging, DetectorTypeOK
  <2>2. ASSUME NEW t \in Threads, ScanWrite(t) \/ ScanRead(t)
        PROVE  Keeps
    BY <2>2 DEF ScanWrite, ScanRead, Flagging, DetectorTypeOK
  <2>3. ASSUME NEW t \in Threads, EndWrites(t) \/ EndReads(t)
        PROVE  Keeps
    BY <2>3 DEF EndWrites, EndReads, Flagging, DetectorTypeOK
  <2>4. ASSUME NEW t \in Threads, FlagWriteRace(t) \/ FlagReadRace(t)
        PROVE  Keeps
    BY <2>4 DEF FlagWriteRace, FlagReadRace
  <2>5. ASSUME UNCHANGED detectorVars PROVE Keeps
    BY <2>5 DEF detectorVars, Flagging
  <2> HIDE DEF Keeps
  <2>6. Keeps
    BY <2>1, <2>2, <2>3, <2>4, <2>5 DEF DetectorNext, Entry
  <2>7. ~races_found /\ \A u \in Threads : ~Flagging(u)
    BY <2>6, Zenon DEF Keeps
  <2> QED
    BY <2>7, Zenon DEF RaceSeen, AllAhead
<1>9. ASSUME NEW k \in BufferKeys
      PROVE  DOMAIN writes[k] \subseteq Nat \ {0} /\ DOMAIN reads[k] \subseteq Nat \ {0}
  BY DEF DetectorTypeOK
<1>1. ASSUME NEW t \in Threads, NEW k0 \in BufferKeys, NEW e \in Entry,
             check_read(t, k0, e)
      PROVE  AllAhead'
  <2>1. ASSUME NEW u \in Threads, NEW k \in BufferKeys, NEW f, NEW n
        PROVE  /\ WillCompareWrite(u, k, f, n) => WillCompareWrite(u, k, f, n)'
               /\ WillCompareRead(u, k, f, n) => WillCompareRead(u, k, f, n)'
    BY <1>1 DEF check_read, WillCompareWrite, WillCompareRead, DetectorTypeOK
  <2>2. writes' = writes
    BY <1>1 DEF check_read
  <2>3. ASSUME NEW k \in BufferKeys, NEW b \in DOMAIN reads'[k]
        PROVE  \/ b \in DOMAIN reads[k] /\ reads'[k][b] = reads[k][b]
               \/ k = k0 /\ reads'[k][b] = e
    BY <1>1 DEF check_read, DetectorTypeOK
  <2>4. ASSUME NEW a \in DOMAIN writes[k0]
        PROVE  WillCompareWrite(t, k0, e, a)'
    BY <1>1, <1>9 DEF check_read, WillCompareWrite, DetectorTypeOK
  <2> QED
    BY <1>0, <2>1, <2>2, <2>3, <2>4 DEF AllAhead
<1>2. ASSUME NEW t \in Threads, NEW k0 \in BufferKeys, NEW e \in Entry,
             check_write(t, k0, e)
      PROVE  AllAhead'
  <2>1. ASSUME NEW u \in Threads, NEW k \in BufferKeys, NEW f, NEW n
        PROVE  /\ WillCompareWrite(u, k, f, n) => WillCompareWrite(u, k, f, n)'
               /\ WillCompareRead(u, k, f, n) => WillCompareRead(u, k, f, n)'
    BY <1>2 DEF check_write, WillCompareWrite, WillCompareRead, DetectorTypeOK
  <2>2. reads' = reads
    BY <1>2 DEF check_write
  <2>3. ASSUME NEW k \in BufferKeys, NEW a \in DOMAIN writes'[k]
        PROVE  \/ a \in DOMAIN writes[k] /\ writes'[k][a] = writes[k][a]
               \/ k = k0 /\ writes'[k][a] = e /\ a = Len(writes[k0]) + 1
    BY <1>2 DEF check_write, DetectorTypeOK
  <2>4. ASSUME NEW a \in DOMAIN writes'[k0], a < Len(writes[k0]) + 1
        PROVE  WillCompareWrite(t, k0, e, a)'
    BY <1>2, <2>4 DEF check_write, WillCompareWrite, DetectorTypeOK
  <2>5. ASSUME NEW b \in DOMAIN reads[k0]
        PROVE  WillCompareRead(t, k0, e, b)'
    BY <1>2 DEF check_write, WillCompareRead, DetectorTypeOK
  <2>6. ASSUME NEW k \in BufferKeys, NEW a \in DOMAIN writes'[k], NEW b \in DOMAIN writes'[k],
               a < b, Conflicts(writes'[k][a], writes'[k][b])
        PROVE  \E u \in Threads : WillCompareWrite(u, k, writes[k][b], a)'
    <3>1. CASE b \in DOMAIN writes[k] /\ writes'[k][b] = writes[k][b]
      <4>1. a \in DOMAIN writes[k] /\ writes'[k][a] = writes[k][a]
        BY <2>3, <2>6, <3>1, <1>9, SMTT(30) DEF DetectorTypeOK
      <4> QED
        BY <1>0, <2>1, <2>6, <3>1, <4>1 DEF AllAhead
    <3>2. CASE k = k0 /\ writes'[k][b] = e /\ b = Len(writes[k0]) + 1
      BY <2>4, <2>6, <3>2
    <3> QED
      BY <2>3, <3>1, <3>2
  <2>7. ASSUME NEW k \in BufferKeys, NEW a \in DOMAIN writes'[k], NEW b \in DOMAIN reads[k],
               Conflicts(writes'[k][a], reads[k][b])
        PROVE  \E u \in Threads : \/ WillCompareWrite(u, k, reads[k][b], a)'
                                  \/ WillCompareRead(u, k, writes[k][a], b)'
    BY <1>0, <2>1, <2>2, <2>3, <2>5, <2>7 DEF AllAhead
  <2> QED
    BY <2>2, <2>6, <2>7 DEF AllAhead
<1>3. ASSUME NEW t \in Threads, ScanWrite(t) PROVE AllAhead'
  <2>1. ASSUME NEW u \in Threads \ {t}, NEW k \in BufferKeys, NEW f, NEW n
        PROVE  /\ WillCompareWrite(u, k, f, n) => WillCompareWrite(u, k, f, n)'
               /\ WillCompareRead(u, k, f, n) => WillCompareRead(u, k, f, n)'
    BY <1>3 DEF ScanWrite, WillCompareWrite, WillCompareRead, DetectorTypeOK
  <2>2. ~Conflicts(writes[access[t].key][idx[t]], access[t].entry)
    BY <1>3 DEF ScanWrite, Flagging, DetectorTypeOK
  <2>3. ASSUME NEW k \in BufferKeys, NEW f, NEW n \in Nat \ {0}
        PROVE  /\ WillCompareWrite(t, k, f, n) /\ Conflicts(writes[k][n], f)
                  => WillCompareWrite(t, k, f, n)'
               /\ WillCompareRead(t, k, f, n) => WillCompareRead(t, k, f, n)'
    BY <1>3, <2>2 DEF ScanWrite, WillCompareWrite, WillCompareRead, DetectorTypeOK
  <2>4. UNCHANGED <<reads, writes>>
    BY <1>3 DEF ScanWrite
  <2> QED
    BY <1>0, <1>9, <2>1, <2>3, <2>4 DEF AllAhead
<1>4. ASSUME NEW t \in Threads, EndWrites(t) PROVE AllAhead'
  <2>1. ASSUME NEW u \in Threads \ {t}, NEW k \in BufferKeys, NEW f, NEW n
        PROVE  /\ WillCompareWrite(u, k, f, n) => WillCompareWrite(u, k, f, n)'
               /\ WillCompareRead(u, k, f, n) => WillCompareRead(u, k, f, n)'
    BY <1>4 DEF EndWrites, WillCompareWrite, WillCompareRead, DetectorTypeOK
  <2>2. ASSUME NEW k \in BufferKeys, NEW f, NEW n \in Nat \ {0}
        PROVE  /\ ~WillCompareWrite(t, k, f, n)
               /\ WillCompareRead(t, k, f, n) => WillCompareRead(t, k, f, n)'
    BY <1>4 DEF EndWrites, WillCompareWrite, WillCompareRead, DetectorTypeOK
  <2>3. UNCHANGED <<reads, writes>>
    BY <1>4 DEF EndWrites
  <2> QED
    BY <1>0, <1>9, <2>1, <2>2, <2>3 DEF AllAhead
<1>5. ASSUME NEW t \in Threads, ScanRead(t) PROVE AllAhead'
  <2>1. ASSUME NEW u \in Threads \ {t}, NEW k \in BufferKeys, NEW f, NEW n
        PROVE  /\ WillCompareWrite(u, k, f, n) => WillCompareWrite(u, k, f, n)'
               /\ WillCompareRead(u, k, f, n) => WillCompareRead(u, k, f, n)'
    BY <1>5 DEF ScanRead, WillCompareWrite, WillCompareRead, DetectorTypeOK
  <2>2. ~Conflicts(reads[access[t].key][idx[t]], access[t].entry)
    BY <1>5 DEF ScanRead, Flagging, DetectorTypeOK
  <2>3. ASSUME NEW k \in BufferKeys, NEW f, NEW n \in Nat \ {0}
        PROVE  /\ ~WillCompareWrite(t, k, f, n)
               /\ WillCompareRead(t, k, f, n) /\ Conflicts(reads[k][n], f)
                  => WillCompareRead(t, k, f, n)'
    BY <1>5, <2>2 DEF ScanRead, WillCompareWrite, WillCompareRead, DetectorTypeOK
  <2>4. UNCHANGED <<reads, writes>>
    BY <1>5 DEF ScanRead
  <2>5. ASSUME NEW k \in BufferKeys, NEW a \in DOMAIN writes[k], NEW b \in DOMAIN reads[k]
        PROVE  Conflicts(writes[k][a], reads[k][b]) <=> Conflicts(reads[k][b], writes[k][a])
    BY ConflictsSymmetric DEF DetectorTypeOK
  <2> QED
    BY <1>0, <1>9, <2>1, <2>3, <2>4, <2>5 DEF AllAhead
<1>6. ASSUME NEW t \in Threads, EndReads(t) PROVE AllAhead'
  <2>1. ASSUME NEW u \in Threads \ {t}, NEW k \in BufferKeys, NEW f, NEW n
        PROVE  /\ WillCompareWrite(u, k, f, n) => WillCompareWrite(u, k, f, n)'
               /\ WillCompareRead(u, k, f, n) => WillCompareRead(u, k, f, n)'
    BY <1>6 DEF EndReads, WillCompareWrite, WillCompareRead, DetectorTypeOK
  <2>2. ASSUME NEW k \in BufferKeys, NEW f, NEW n \in Nat \ {0}
        PROVE  ~WillCompareWrite(t, k, f, n) /\ ~WillCompareRead(t, k, f, n)
    BY <1>6 DEF EndReads, WillCompareWrite, WillCompareRead, DetectorTypeOK
  <2>3. UNCHANGED <<reads, writes>>
    BY <1>6 DEF EndReads
  <2> QED
    BY <1>0, <1>9, <2>1, <2>2, <2>3 DEF AllAhead
<1>7. ASSUME NEW t \in Threads, FlagWriteRace(t) \/ FlagReadRace(t) PROVE FALSE
  BY <1>7 DEF FlagWriteRace, FlagReadRace
<1>8. CASE UNCHANGED detectorVars
  BY <1>0, <1>8 DEF detectorVars, AllAhead, WillCompareRead, WillCompareWrite
<1> QED
  BY <1>1, <1>2, <1>3, <1>4, <1>5, <1>6, <1>7, <1>8 DEF DetectorNext, Entry

-----------------------------------------------------------------------------

\* The detector is exact: whenever no call is running, races_found says
\* whether the logs hold two conflicting accesses with unordered clocks, for
\* every interleaving of the loops of check_read and check_write.
THEOREM VerdictExact == DetectorSpec => []QuiescentVerdict
<1>1. DetectorInit => DetectorInv
  <2> SUFFICES ASSUME DetectorInit PROVE DetectorInv
    OBVIOUS
  <2>1. DetectorTypeOK
    BY DetectorInitType
  <2>2. CallInLog
    BY DEF DetectorInit, CallInLog
  <2>3. AlarmInLog
    BY DEF DetectorInit, AlarmInLog, Flagging
  <2>4. RaceSeen
    BY DEF DetectorInit, RaceSeen
  <2> QED
    BY <2>1, <2>2, <2>3, <2>4 DEF DetectorInv
<1>2. DetectorInv /\ [DetectorNext]_detectorVars => DetectorInv'
  BY TypeStep, LogStep, CallStep, AlarmStep, SeenStep DEF DetectorInv
<1>3. DetectorInv => QuiescentVerdict
  <2> SUFFICES ASSUME DetectorInv, \A t \in Threads : at[t] = "idle"
               PROVE  races_found <=> LoggedRace
    BY DEF QuiescentVerdict
  <2>1. races_found => LoggedConflict
    BY DEF DetectorInv, AlarmInLog
  <2>2. LoggedConflict => races_found
    BY DEF DetectorInv, RaceSeen, LoggedConflict, Flagging, WillCompareRead, WillCompareWrite
  <2>3. LoggedConflict <=> LoggedRace
    <3>1. ASSUME NEW e \in Entry, NEW f \in Entry PROVE Conflicts(e, f) <=> Races(e, f)
      BY OverlapSymmetric DEF Conflicts, Races, Entry
    <3>2. ASSUME NEW k \in BufferKeys
          PROVE  /\ \A a \in DOMAIN writes[k] : writes[k][a] \in Entry
                 /\ \A b \in DOMAIN reads[k] : reads[k][b] \in Entry
      BY DEF DetectorInv, DetectorTypeOK
    <3> QED
      BY <3>1, <3>2 DEF LoggedConflict, LoggedRace
  <2> QED
    BY <2>1, <2>2, <2>3 DEF DetectorInv, DetectorTypeOK
<1> QED
  BY <1>1, <1>2, <1>3, PTL DEF DetectorSpec

-----------------------------------------------------------------------------
(* Arithmetic of cores and clocks.                                         *)

\* The entries of the cores and the virtual ones are entries of a clock.
LEMMA CoreEntries ==
    /\ num_cores \in Nat \ {0} /\ ClockSize \in Nat
    /\ Cores \subseteq Entries /\ VirtualIds \subseteq Entries
    /\ \A v \in VirtualIds : v \notin Cores
    /\ \A c \in Cores : c \in Nat
<1>1. num_cores \in Nat \ {0}
  BY SizesAssumption DEF num_cores
<1> QED
  BY <1>1, SizesAssumption, ClockSizeAssumption DEF Cores, VirtualIds, Entries

\* The cores of a device are an interval of the cores (get_global_core_ids).
LEMMA DeviceCores ==
    ASSUME NEW d \in Devices
    PROVE  \E lo \in Nat, hi \in Nat :
              lo <= hi /\ get_global_core_ids(d) = lo .. hi /\ lo .. hi \subseteq Cores
<1> DEFINE N == NumCoresPerDevice
           lo == d * N
           hi == (d + 1) * N - 1
<1>1. N \in Nat \ {0} /\ NumDevices \in Nat \ {0} /\ d \in Nat /\ d + 1 <= NumDevices
  BY SizesAssumption DEF Devices
<1>2. lo \in Nat /\ (d + 1) * N = lo + N
  BY <1>1
<1>3. PICK r \in Nat : NumDevices = d + 1 + r
  BY <1>1
<1>4. NumDevices * N = (d + 1) * N + r * N /\ r * N \in Nat
  BY <1>1, <1>3
<1>5. hi \in Nat /\ lo <= hi /\ hi <= NumDevices * N - 1
  BY <1>1, <1>2, <1>4
<1> HIDE DEF lo, hi
<1>6. lo .. hi \subseteq Cores
  BY <1>1, <1>2, <1>5 DEF Cores, num_cores
<1> QED
  BY <1>2, <1>5, <1>6 DEF get_global_core_ids, lo, hi

\* A function takes its largest value somewhere on a non-empty interval: the
\* length of a shortest interval without a largest value would be positive,
\* and dropping its last element would leave a shorter one.
LEMMA IntervalMax ==
    ASSUME NEW S, NEW f \in [S -> Nat], NEW lo \in Nat, NEW hi \in Nat, lo <= hi,
           lo .. hi \subseteq S
    PROVE  \E x \in lo .. hi : \A y \in lo .. hi : f[y] <= f[x]
<1> DEFINE HasMax(n) == \E x \in lo .. (lo + n) : \A y \in lo .. (lo + n) : f[y] <= f[x]
           Bad == {n \in Nat : lo + n <= hi /\ ~HasMax(n)}
<1>1. SUFFICES Bad = {}
  <2>1. hi - lo \in Nat /\ lo + (hi - lo) = hi
    OBVIOUS
  <2>2. ASSUME NEW n \in Nat, lo + n <= hi PROVE HasMax(n)
    <3>1. n \notin Bad
      BY <1>1, Zenon
    <3> HIDE DEF HasMax
    <3> QED
      BY <2>2, <3>1
  <2>3. HasMax(hi - lo)
    <3> HIDE DEF HasMax
    <3> QED
      BY <2>1, <2>2
  <2> QED
    BY <2>1, <2>3
<1>2. SUFFICES ASSUME Bad # {} PROVE FALSE
  OBVIOUS
<1>3. PICK n \in Bad : \A m \in Bad : ~(<<m, n>> \in OpToRel(<, Nat))
  <2>1. Bad \subseteq Nat
    OBVIOUS
  <2> HIDE DEF Bad
  <2> QED
    BY <1>2, <2>1, NatLessThanWellFounded, WFMin
<1>4. n \in Nat /\ lo + n <= hi /\ ~HasMax(n)
  OBVIOUS
<1>5. \A m \in Nat : m < n => HasMax(m)
  <2> SUFFICES ASSUME NEW m \in Nat, m < n, ~HasMax(m) PROVE FALSE
    OBVIOUS
  <2>1. m \in Bad
    BY <1>4
  <2>2. <<m, n>> \in OpToRel(<, Nat)
    BY <1>4 DEF OpToRel
  <2> QED
    BY <1>3, <2>1, <2>2
<1>6. CASE n = 0
  <2>1. lo .. (lo + n) = {lo} /\ f[lo] \in Nat
    BY <1>6
  <2> QED
    BY <1>4, <2>1
<1>7. CASE n # 0
  <2>1. n - 1 \in Nat /\ n - 1 < n
    BY <1>4, <1>7
  <2>2. PICK x \in lo .. (lo + (n - 1)) : \A y \in lo .. (lo + (n - 1)) : f[y] <= f[x]
    BY <1>5, <2>1
  <2> DEFINE l == lo + n
  <2>3. l \in lo .. (lo + n) /\ x \in lo .. (lo + n)
        /\ \A y \in lo .. (lo + n) : y = l \/ y \in lo .. (lo + (n - 1))
    BY <1>4, <2>1
  <2>4. \A y \in lo .. (lo + n) : f[y] \in Nat
    BY <1>4
  <2>5. CASE f[l] <= f[x]
    <3>1. \A y \in lo .. (lo + n) : f[y] <= f[x]
      BY <2>2, <2>3, <2>5
    <3> QED
      BY <1>4, <2>3, <3>1
  <2>6. CASE ~(f[l] <= f[x])
    <3>1. \A y \in lo .. (lo + n) : f[y] <= f[l]
      BY <2>2, <2>3, <2>4, <2>6
    <3> QED
      BY <1>4, <2>3, <3>1
  <2> QED
    BY <2>5, <2>6
<1> QED
  BY <1>6, <1>7

-----------------------------------------------------------------------------
(* What preserves Faithful.                                                *)

\* update_vector_clock gives a clock above both of its arguments.
LEMMA UpdateClock ==
    ASSUME NEW V \in VectorClocks, NEW W \in VectorClocks
    PROVE  /\ update_vector_clock(V, W) \in VectorClocks
           /\ \A i \in Entries : LET u == update_vector_clock(V, W)[i] IN
                 V[i] <= u /\ W[i] <= u /\ (u = V[i] \/ u = W[i])
  BY DEF update_vector_clock, VectorClocks, MaxEntry

\* inc_vector_clock adds one to one entry.
LEMMA IncClock ==
    ASSUME NEW V \in VectorClocks, NEW j \in Entries
    PROVE  /\ inc_vector_clock(V, j) \in VectorClocks
           /\ inc_vector_clock(V, j)[j] = V[j] + 1
           /\ \A i \in Entries : i # j => inc_vector_clock(V, j)[i] = V[i]
           /\ lt(V, inc_vector_clock(V, j))
  BY DEF inc_vector_clock, VectorClocks, lt, LeqAll

\* A merged clock knows what its parts know (Semaphore.signal, Semaphore.wait).
LEMMA MergeFaithful ==
    ASSUME NEW E \in SUBSET Accesses, NEW own \in [Cores -> VectorClocks],
           NEW V \in VectorClocks, NEW K, Faithful(V, K, E, own),
           NEW W \in VectorClocks, NEW L, Faithful(W, L, E, own)
    PROVE  Faithful(update_vector_clock(V, W), K \cup L, E, own)
<1> DEFINE u == update_vector_clock(V, W)
<1>1. /\ u \in VectorClocks
      /\ \A i \in Entries : V[i] <= u[i] /\ W[i] <= u[i] /\ (u[i] = V[i] \/ u[i] = W[i])
  BY UpdateClock
<1> HIDE DEF u
<1>2. K \cup L \subseteq E
  BY DEF Faithful
<1>3. ASSUME NEW e \in K \cup L PROVE LeqAll(e.clock, u)
  <2>1. e.clock \in VectorClocks
    BY <1>2 DEF Accesses
  <2> QED
    BY <1>1, <1>3, <2>1 DEF Faithful, LeqAll, VectorClocks
<1>4. ASSUME NEW e \in E, e.by \in Cores, e.clock[e.by] <= u[e.by] PROVE e \in K \cup L
  BY <1>1, <1>4, CoreEntries DEF Faithful
<1>5. ASSUME NEW c \in Cores PROVE u[c] <= own[c][c]
  BY <1>1, CoreEntries DEF Faithful
<1> QED
  BY <1>2, <1>3, <1>4, <1>5 DEF Faithful, u

\* Clocks stay faithful when cores tick and new accesses are recorded: a core's
\* new access has a later entry than any clock had for that core.
LEMMA StepFaithful ==
    ASSUME NEW E \in SUBSET Accesses, NEW F \in SUBSET Accesses,
           NEW own \in [Cores -> VectorClocks], NEW own2 \in [Cores -> VectorClocks],
           E \subseteq F,
           \A c \in Cores : own[c][c] <= own2[c][c],
           \A a \in F \ E : a.by \in Cores => own[a.by][a.by] < a.clock[a.by],
           NEW V \in VectorClocks, NEW K, Faithful(V, K, E, own)
    PROVE  Faithful(V, K, F, own2)
<1>1. ASSUME NEW e \in F, e.by \in Cores, e.clock[e.by] <= V[e.by] PROVE e \in K
  <2>1. /\ e.by \in Entries /\ e.clock[e.by] \in Nat /\ V[e.by] \in Nat
        /\ own[e.by][e.by] \in Nat
    BY <1>1, CoreEntries DEF Accesses, VectorClocks
  <2>2. V[e.by] <= own[e.by][e.by]
    BY <1>1 DEF Faithful
  <2>3. e \in E
    BY <1>1, <2>1, <2>2
  <2> QED
    BY <1>1, <2>3 DEF Faithful
<1>2. ASSUME NEW c \in Cores PROVE V[c] <= own2[c][c]
  <2>1. V[c] \in Nat /\ own[c][c] \in Nat /\ own2[c][c] \in Nat
    BY CoreEntries DEF VectorClocks
  <2> QED
    BY <2>1 DEF Faithful
<1> QED
  BY <1>1, <1>2 DEF Faithful

\* A tick keeps a clock faithful: of a virtual entry, or of a core's own one.
LEMMA TickFaithful ==
    ASSUME NEW E \in SUBSET Accesses, NEW own \in [Cores -> VectorClocks],
           NEW own2 \in [Cores -> VectorClocks], NEW j \in Entries,
           \A c \in Cores : own[c][c] <= own2[c][c],
           EventsCounted(E, own),
           NEW V \in VectorClocks, NEW K, Faithful(V, K, E, own),
           j \in Cores => V[j] = own[j][j] /\ V[j] < own2[j][j]
    PROVE  Faithful(inc_vector_clock(V, j), K, E, own2)
<1> DEFINE u == inc_vector_clock(V, j)
<1>1. /\ u \in VectorClocks /\ u[j] = V[j] + 1
      /\ \A i \in Entries : i # j => u[i] = V[i]
  BY IncClock
<1> HIDE DEF u
<1>2. ASSUME NEW e \in K PROVE LeqAll(e.clock, u)
  <2>1. e.clock \in VectorClocks /\ LeqAll(e.clock, V)
    BY DEF Faithful, Accesses
  <2> QED
    BY <1>1, <2>1 DEF LeqAll, VectorClocks
<1>3. ASSUME NEW e \in E, e.by \in Cores, e.clock[e.by] <= u[e.by] PROVE e \in K
  <2>1. e.by \in Entries
    BY <1>3, CoreEntries
  <2>2. CASE e.by = j
    BY <1>3, <2>2 DEF EventsCounted, Faithful
  <2>3. CASE e.by # j
    BY <1>1, <1>3, <2>1, <2>3 DEF Faithful
  <2> QED
    BY <2>2, <2>3
<1>4. ASSUME NEW c \in Cores PROVE u[c] <= own2[c][c]
  <2>1. c \in Entries /\ V[c] \in Nat /\ own[c][c] \in Nat /\ own2[c][c] \in Nat
    BY CoreEntries DEF VectorClocks
  <2>2. V[c] <= own[c][c]
    BY DEF Faithful
  <2> QED
    BY <1>1, <2>1, <2>2
<1> QED
  BY <1>2, <1>3, <1>4 DEF Faithful, u

\* update_clocks gives the least clock above those of the device's cores.
LEMMA JoinClock ==
    ASSUME clocks \in [Cores -> VectorClocks], NEW d \in Devices
    PROVE  LET G == get_global_core_ids(d) IN
           /\ G \subseteq Cores
           /\ Join(G) \in VectorClocks
           /\ \A e \in Entries : /\ \A b \in G : clocks[b][e] <= Join(G)[e]
                                 /\ \E x \in G : Join(G)[e] = clocks[x][e]
<1> DEFINE G == get_global_core_ids(d)
<1>1. PICK lo \in Nat, hi \in Nat : lo <= hi /\ G = lo .. hi /\ lo .. hi \subseteq Cores
  BY DeviceCores
<1> HIDE DEF G
<1>2. ASSUME NEW e \in Entries
      PROVE  \E x \in G : \A b \in G : clocks[b][e] <= clocks[x][e]
  <2> DEFINE f == [c \in Cores |-> clocks[c][e]]
  <2>1. f \in [Cores -> Nat]
    BY DEF VectorClocks
  <2>2. \E x \in lo .. hi : \A y \in lo .. hi : f[y] <= f[x]
    <3> HIDE DEF f
    <3> QED
      BY <1>1, <2>1, IntervalMax
  <2> QED
    BY <1>1, <2>2
<1>3. ASSUME NEW e \in Entries
      PROVE  /\ \A b \in G : clocks[b][e] <= Join(G)[e]
             /\ \E x \in G : Join(G)[e] = clocks[x][e]
  <2> DEFINE m == CHOOSE c \in G : \A b \in G : clocks[b][e] <= clocks[c][e]
  <2>1. m \in G /\ \A b \in G : clocks[b][e] <= clocks[m][e]
    BY <1>2
  <2>2. Join(G)[e] = clocks[m][e]
    BY DEF Join
  <2> QED
    BY <2>1, <2>2
<1>4. Join(G) \in VectorClocks
  <2>1. \A e \in Entries : Join(G)[e] \in Nat
    BY <1>1, <1>3 DEF VectorClocks
  <2>2. Join(G) = [e \in Entries |-> Join(G)[e]]
    BY DEF Join
  <2> QED
    BY <2>1, <2>2 DEF VectorClocks
<1> QED
  BY <1>1, <1>3, <1>4 DEF G

-----------------------------------------------------------------------------
(* Types.                                                                  *)

\* The state of a new SharedMemory has its type.
LEMMA InitType == Init => TypeOK
<1> SUFFICES ASSUME Init PROVE TypeOK
  OBVIOUS
<1>1. make_vector_clock \in VectorClocks
  BY DEF make_vector_clock, VectorClocks
<1>2. call \in [Cores -> Calls]
  BY DEF Init, Calls
<1>3. dma \in [Dmas -> DmaRecords \cup {NoDma}]
  BY DEF Init
<1>4. signalled \in [Sems -> [Cores -> BOOLEAN]] /\ count \in [Sems -> [Cores -> Nat]]
  BY DEF Init
<1>5. clocks \in [Cores -> VectorClocks] /\ semClock \in [Sems -> [Cores -> VectorClocks]]
      /\ msg \in [Cores -> VectorClocks] /\ dmaClock \in [Dmas -> VectorClocks]
  BY <1>1 DEF Init
<1>6. known \in [Cores -> SUBSET Accesses] /\ msgKnown \in [Cores -> SUBSET Accesses]
      /\ semKnown \in [Sems -> [Cores -> SUBSET Accesses]]
      /\ dmaKnown \in [Dmas -> SUBSET Accesses]
  BY DEF Init
<1> QED
  BY <1>2, <1>3, <1>4, <1>5, <1>6 DEF Init, TypeOK

\* The step relation of one core, one DMA or one device.
CoreStep(c) ==
    \/ get_store_swap(c)
    \/ \E s \in Sems, target \in Cores, inc \in Increments :
          semaphore_signal(c, s, target, inc)
    \/ DoSignal(c)
    \/ \E s \in Sems, value \in Increments : semaphore_wait(c, s, value)
    \/ WaitDone(c)
    \/ MergeClock(c)
    \/ \E d \in Dmas, dst \in DmaTargets(c), vid \in VirtualIds,
          src_sem \in Sems \cup {NoSem}, dst_sem \in Sems :
          dma_start(c, d, dst, vid, src_sem, dst_sem)

\* Signal keeps the types of the semaphores.
LEMMA SignalType ==
    ASSUME TypeOK, NEW s \in Sems, NEW c \in Cores, NEW inc \in Nat,
           NEW v \in VectorClocks, NEW K, Signal(s, c, inc, v, K)
    PROVE  /\ count' \in [Sems -> [Cores -> Nat]]
           /\ semClock' \in [Sems -> [Cores -> VectorClocks]]
           /\ signalled' \in [Sems -> [Cores -> BOOLEAN]]
<1>1. semClock[s][c] \in VectorClocks /\ count[s][c] \in Nat
  BY DEF TypeOK
<1>2. update_vector_clock(semClock[s][c], v) \in VectorClocks
  BY <1>1, UpdateClock
<1> QED
  BY <1>1, <1>2 DEF Signal, TypeOK

-----------------------------------------------------------------------------
(* A new memory access.                                                    *)

\* The place that makes an access knows it afterwards.
LEMMA AddOwn ==
    ASSUME NEW E, NEW own, NEW V \in VectorClocks, NEW K, Faithful(V, K, E, own),
           NEW a, LeqAll(a.clock, V)
    PROVE  Faithful(V, K \cup {a}, E \cup {a}, own)
  BY DEF Faithful

\* Recording an access with the ticked clock of the place that makes it keeps
\* clocks and happens-before in agreement (get_buffer_content,
\* store_buffer_content, DMA.execute_read and DMA.execute_write).
LEMMA RecordStep ==
    ASSUME events \subseteq Accesses, happensBefore \subseteq (events \X events),
           HappensBeforeIsOrdered, OrderedHappensBefore, EventsCounted(events, clocks),
           clocks \in [Cores -> VectorClocks], clocks' \in [Cores -> VectorClocks],
           \A c \in Cores : clocks[c][c] <= clocks'[c][c],
           NEW V \in VectorClocks, NEW K, Faithful(V, K, events, clocks),
           NEW j \in Entries,
           j \in Cores => V = clocks[j] /\ clocks'[j][j] = V[j] + 1,
           NEW a, a = Access(j, inc_vector_clock(V, j)), RecordAccess(a, K)
    PROVE  /\ events' = events \cup {a} /\ a \in Accesses /\ events' \subseteq Accesses
           /\ happensBefore' \subseteq (events' \X events')
           /\ HappensBeforeIsOrdered' /\ OrderedHappensBefore'
           /\ EventsCounted(events', clocks')
<1> DEFINE u == inc_vector_clock(V, j)
<1>1. /\ u \in VectorClocks /\ u[j] = V[j] + 1
      /\ \A i \in Entries : i # j => u[i] = V[i]
      /\ lt(V, u)
  BY IncClock
<1>2. a.by = j /\ a.clock = u
  BY DEF Access
<1>3. a \in Accesses
  BY <1>1 DEF Accesses, Access
<1> HIDE DEF u
<1>4. events' = events \cup {a} /\ happensBefore' = happensBefore \cup (K \X {a})
  BY DEF RecordAccess
<1>5. K \subseteq events
  BY DEF Faithful
<1>6. happensBefore' \subseteq (events' \X events')
  BY <1>4, <1>5
<1>7. HappensBeforeIsOrdered'
  <2> SUFFICES ASSUME NEW p \in happensBefore' PROVE lt(p[1].clock, p[2].clock)
    BY DEF HappensBeforeIsOrdered
  <2>1. CASE p \in happensBefore
    BY <2>1 DEF HappensBeforeIsOrdered
  <2>2. CASE p \in K \X {a}
    <3>1. p[1] \in K /\ p[2] = a
      BY <2>2
    <3>2. LeqAll(p[1].clock, V) /\ p[1].clock \in VectorClocks
      BY <1>5, <3>1 DEF Faithful, Accesses
    <3>3. lt(p[1].clock, u)
      BY <1>1, <3>2 DEF lt, LeqAll, VectorClocks
    <3> QED
      BY <1>2, <3>1, <3>3
  <2> QED
    BY <1>4, <2>1, <2>2
<1>8. OrderedHappensBefore'
  <2> SUFFICES ASSUME NEW e \in events', NEW f \in events',
                      e.by \in Cores, lt(e.clock, f.clock)
               PROVE  <<e, f>> \in happensBefore'
    BY DEF OrderedHappensBefore
  <2>1. CASE e \in events /\ f \in events
    BY <1>4, <2>1 DEF OrderedHappensBefore
  <2>2. CASE e \in events /\ f = a
    <3>1. e.by \in Entries /\ e.clock[e.by] <= u[e.by]
      BY <1>2, <2>2, CoreEntries DEF lt, LeqAll
    <3>2. e \in K
      <4>1. CASE e.by = j
        <5>1. e.clock[j] <= clocks[j][j]
          BY <2>2, <4>1 DEF EventsCounted
        <5> QED
          BY <2>2, <4>1, <5>1 DEF Faithful
      <4>2. CASE e.by # j
        BY <1>1, <2>2, <3>1, <4>2 DEF Faithful
      <4> QED
        BY <4>1, <4>2
    <3> QED
      BY <1>4, <2>2, <3>2
  <2>3. CASE e = a
    <3>1. j \in Cores /\ u[j] <= f.clock[j] /\ V[j] \in Nat /\ u[j] = V[j] + 1
          /\ V = clocks[j]
      BY <1>1, <1>2, <2>3 DEF lt, LeqAll, VectorClocks
    <3>2. CASE f \in events
      <4>1. f.clock[j] <= clocks[j][j] /\ f.clock[j] \in Nat
        BY <3>1, <3>2 DEF EventsCounted, Accesses, VectorClocks
      <4> QED
        BY <3>1, <4>1
    <3>3. CASE f = a
      BY <1>1, <1>2, <2>3, <3>3 DEF lt, VectorClocks
    <3> QED
      BY <1>4, <3>2, <3>3
  <2> QED
    BY <1>4, <2>1, <2>2, <2>3
<1>9. EventsCounted(events', clocks')
  <2> SUFFICES ASSUME NEW e \in events'
               PROVE  /\ \A c \in Cores : e.clock[c] <= clocks'[c][c]
                      /\ e.by \in Cores => e.clock[e.by] >= 1
    BY DEF EventsCounted
  <2>0. ASSUME NEW c \in Cores
        PROVE  c \in Entries /\ clocks[c][c] \in Nat /\ clocks'[c][c] \in Nat /\ V[c] \in Nat
    BY CoreEntries DEF VectorClocks
  <2>1. CASE e \in events
    <3>1. ASSUME NEW c \in Cores PROVE e.clock[c] <= clocks'[c][c]
      <4>1. e.clock[c] \in Nat /\ e.clock[c] <= clocks[c][c]
        BY <2>0, <2>1 DEF EventsCounted, Accesses, VectorClocks
      <4> QED
        BY <2>0, <4>1
    <3> QED
      BY <2>1, <3>1 DEF EventsCounted
  <2>2. CASE e = a
    <3>1. ASSUME NEW c \in Cores PROVE u[c] <= clocks'[c][c]
      <4>1. CASE c = j
        BY <1>1, <2>0, <4>1
      <4>2. CASE c # j
        <5>1. V[c] <= clocks[c][c]
          BY DEF Faithful
        <5> QED
          BY <1>1, <2>0, <4>2, <5>1
      <4> QED
        BY <4>1, <4>2
    <3>2. j \in Cores => u[j] >= 1
      BY <1>1, <2>0
    <3> QED
      BY <1>2, <2>2, <3>1, <3>2
  <2> QED
    BY <1>4, <2>1, <2>2
<1> QED
  BY <1>3, <1>4, <1>6, <1>7, <1>8, <1>9
-----------------------------------------------------------------------------
(* The steps.                                                              *)

\* Ticking the clock of a core (get_vector_clock's inc_vector_clock calls).
LEMMA TickStep ==
    ASSUME IInv, NEW c \in Cores, Tick(c)
    PROVE  /\ clocks' \in [Cores -> VectorClocks]
           /\ \A b \in Cores : clocks[b][b] <= clocks'[b][b]
           /\ clocks'[c] = inc_vector_clock(clocks[c], c)
           /\ clocks'[c] \in VectorClocks
           /\ clocks'[c][c] = clocks[c][c] + 1
           /\ \A b \in Cores : b # c => clocks'[b] = clocks[b]
<1>1. clocks \in [Cores -> VectorClocks]
  BY DEF IInv, TypeOK
<1>2. c \in Entries /\ clocks[c] \in VectorClocks
  BY <1>1, CoreEntries
<1> DEFINE u == inc_vector_clock(clocks[c], c)
<1>3. u \in VectorClocks /\ u[c] = clocks[c][c] + 1
  BY <1>2, IncClock
<1>4. clocks' = [clocks EXCEPT ![c] = u]
  BY DEF Tick
<1> HIDE DEF u
<1>5. ASSUME NEW b \in Cores PROVE clocks[b][b] <= clocks'[b][b]
  <2>1. clocks[b][b] \in Nat
    BY <1>1, CoreEntries DEF VectorClocks
  <2> QED
    BY <1>1, <1>3, <1>4, <2>1
<1> QED
  BY <1>1, <1>3, <1>4, <1>5 DEF u

\* What holds of the accesses, and of every clock that does not change, after
\* a step that records no access.
LEMMA QuietStep ==
    ASSUME IInv, clocks' \in [Cores -> VectorClocks],
           \A b \in Cores : clocks[b][b] <= clocks'[b][b],
           UNCHANGED <<events, happensBefore>>
    PROVE  /\ EventsCounted(events', clocks')
           /\ HappensBeforeIsOrdered' /\ OrderedHappensBefore'
           /\ happensBefore' \subseteq (events' \X events')
           /\ events' \subseteq Accesses
           /\ \A V \in VectorClocks : \A K \in SUBSET events :
                 Faithful(V, K, events, clocks) => Faithful(V, K, events', clocks')
<1>1. /\ clocks \in [Cores -> VectorClocks] /\ events \subseteq Accesses
      /\ EventsCounted(events, clocks)
      /\ events' = events /\ happensBefore' = happensBefore
  BY DEF IInv, TypeOK
<1>2. EventsCounted(events', clocks')
  <2> SUFFICES ASSUME NEW e \in events
               PROVE  /\ \A c \in Cores : e.clock[c] <= clocks'[c][c]
                      /\ e.by \in Cores => e.clock[e.by] >= 1
    BY <1>1 DEF EventsCounted
  <2>1. ASSUME NEW c \in Cores PROVE e.clock[c] <= clocks'[c][c]
    <3>1. /\ e.clock[c] \in Nat /\ clocks[c][c] \in Nat /\ clocks'[c][c] \in Nat
          /\ e.clock[c] <= clocks[c][c]
      BY <1>1, CoreEntries DEF EventsCounted, Accesses, VectorClocks
    <3> QED
      BY <3>1
  <2> QED
    BY <1>1, <2>1 DEF EventsCounted
<1>3. HappensBeforeIsOrdered' /\ OrderedHappensBefore'
      /\ happensBefore' \subseteq (events' \X events')
  BY <1>1 DEF IInv, HappensBeforeIsOrdered, OrderedHappensBefore
<1>4. ASSUME NEW V \in VectorClocks, NEW K \in SUBSET events, Faithful(V, K, events, clocks)
      PROVE  Faithful(V, K, events', clocks')
  <2>1. Faithful(V, K, events, clocks')
    <3> HIDE DEF Faithful
    <3>1. events \in SUBSET Accesses /\ events \ events = {}
      BY <1>1
    <3> QED
      BY <1>1, <1>4, <3>1, StepFaithful
  <2> QED
    BY <1>1, <2>1
<1> QED
  BY <1>1, <1>2, <1>3, <1>4

\* The clocks the invariant speaks of, and the accesses they stand for.
LEMMA Carriers ==
    ASSUME IInv
    PROVE  /\ \A c \in Cores :
                 /\ clocks[c] \in VectorClocks /\ known[c] \in SUBSET events
                 /\ Faithful(clocks[c], known[c], events, clocks)
                 /\ msg[c] \in VectorClocks /\ msgKnown[c] \in SUBSET events
                 /\ Faithful(msg[c], msgKnown[c], events, clocks)
           /\ \A s \in Sems, c \in Cores :
                 /\ semClock[s][c] \in VectorClocks /\ semKnown[s][c] \in SUBSET events
                 /\ Faithful(semClock[s][c], semKnown[s][c], events, clocks)
           /\ \A d \in Dmas :
                 /\ dmaClock[d] \in VectorClocks /\ dmaKnown[d] \in SUBSET events
                 /\ Faithful(dmaClock[d], dmaKnown[d], events, clocks)
<1>1. TypeOK /\ ClocksFaithful
  BY DEF IInv
<1>2. \A V, K, E, own : Faithful(V, K, E, own) => K \in SUBSET E
  BY DEF Faithful
<1> QED
  BY <1>1, <1>2 DEF TypeOK, ClocksFaithful

\* After a tick by core c every clock, the ticked one of c included, is
\* faithful; the other steps of a core add to this.
LEMMA TickCarriers ==
    ASSUME IInv, NEW c \in Cores, Tick(c)
    PROVE  /\ \A b \in Cores : /\ Faithful(clocks'[b], known[b], events, clocks')
                               /\ Faithful(msg[b], msgKnown[b], events, clocks')
           /\ \A s \in Sems, b \in Cores :
                 Faithful(semClock[s][b], semKnown[s][b], events, clocks')
           /\ \A d \in Dmas : Faithful(dmaClock[d], dmaKnown[d], events, clocks')
<1>1. /\ clocks' \in [Cores -> VectorClocks]
      /\ \A b \in Cores : clocks[b][b] <= clocks'[b][b]
      /\ clocks'[c] = inc_vector_clock(clocks[c], c)
      /\ clocks'[c][c] = clocks[c][c] + 1
      /\ \A b \in Cores : b # c => clocks'[b] = clocks[b]
  BY TickStep
<1>2. \A V \in VectorClocks : \A K \in SUBSET events :
         Faithful(V, K, events, clocks) => Faithful(V, K, events, clocks')
  <2>1. clocks \in [Cores -> VectorClocks] /\ events \in SUBSET Accesses /\ events \ events = {}
    BY DEF IInv, TypeOK
  <2> QED
    BY <1>1, <2>1, StepFaithful
<1>3. Faithful(clocks'[c], known[c], events, clocks')
  <2>1. /\ events \in SUBSET Accesses /\ EventsCounted(events, clocks)
        /\ clocks \in [Cores -> VectorClocks]
    BY DEF IInv, TypeOK
  <2>2. c \in Entries /\ clocks[c] \in VectorClocks /\ clocks[c][c] \in Nat
    BY <2>1, CoreEntries DEF VectorClocks
  <2>3. Faithful(clocks[c], known[c], events, clocks)
    BY Carriers
  <2>4. clocks[c][c] < clocks'[c][c]
    BY <1>1, <2>2
  <2>5. Faithful(inc_vector_clock(clocks[c], c), known[c], events, clocks')
    BY <1>1, <2>1, <2>2, <2>3, <2>4, TickFaithful
  <2> QED
    BY <1>1, <2>1, <2>5
<1>4. ASSUME NEW b \in Cores PROVE Faithful(clocks'[b], known[b], events, clocks')
  <2>1. CASE b = c
    BY <1>3, <2>1
  <2>2. CASE b # c
    <3>1. clocks'[b] = clocks[b] /\ Faithful(clocks[b], known[b], events, clocks')
      BY <1>1, <1>2, <2>2, Carriers
    <3> QED
      BY <3>1
  <2> QED
    BY <2>1, <2>2
<1> QED
  BY <1>2, <1>4, Carriers

\* semaphore_signal copies the ticked clock.
LEMMA SignalStartStep ==
    ASSUME IInv, NEW c \in Cores, NEW s \in Sems, NEW target \in Cores,
           NEW inc \in Increments, semaphore_signal(c, s, target, inc)
    PROVE  IInv'
<1>1. Tick(c) /\ UNCHANGED <<events, happensBefore>>
  BY DEF semaphore_signal
<1>2. /\ clocks' \in [Cores -> VectorClocks]
      /\ \A b \in Cores : clocks[b][b] <= clocks'[b][b]
      /\ clocks'[c] = inc_vector_clock(clocks[c], c) /\ clocks'[c] \in VectorClocks
  BY <1>1, TickStep
<1>3. /\ EventsCounted(events', clocks') /\ HappensBeforeIsOrdered'
      /\ OrderedHappensBefore' /\ happensBefore' \subseteq (events' \X events')
      /\ events' \subseteq Accesses
  BY <1>1, <1>2, QuietStep
<1>4. TypeOK /\ CallsOK
  BY DEF IInv
<1>5. [op |-> "signal", sem |-> s, target |-> target, inc |-> inc] \in Calls
  BY DEF Calls
<1>6. /\ call' = [call EXCEPT ![c] = [op |-> "signal", sem |-> s,
                                      target |-> target, inc |-> inc]]
      /\ pc' = [pc EXCEPT ![c] = "signal"]
      /\ msg' = [msg EXCEPT ![c] = clocks'[c]]
      /\ msgKnown' = [msgKnown EXCEPT ![c] = known[c]]
      /\ UNCHANGED <<count, semClock, signalled, dmaState, dma, dmaClock, phase,
                     known, semKnown, dmaKnown>>
  BY <1>2 DEF semaphore_signal
<1>7. TypeOK'
  <2>1. msgKnown' \in [Cores -> SUBSET Accesses]
    BY <1>4, <1>6 DEF TypeOK
  <2> QED
    BY <1>2, <1>3, <1>4, <1>5, <1>6, <2>1 DEF TypeOK
<1>8. CallsOK'
  BY <1>4, <1>6 DEF TypeOK, CallsOK
<1>9. ClocksFaithful'
  <2>1. /\ \A b \in Cores : /\ Faithful(clocks'[b], known[b], events', clocks')
                            /\ Faithful(msg[b], msgKnown[b], events', clocks')
        /\ \A x \in Sems, b \in Cores :
              Faithful(semClock[x][b], semKnown[x][b], events', clocks')
        /\ \A d \in Dmas : Faithful(dmaClock[d], dmaKnown[d], events', clocks')
    BY <1>1, TickCarriers
  <2>2. ASSUME NEW b \in Cores
        PROVE  Faithful(msg'[b], msgKnown'[b], events', clocks')
    <3>1. msg \in [Cores -> VectorClocks] /\ msgKnown \in [Cores -> SUBSET Accesses]
      BY <1>4 DEF TypeOK
    <3>2. CASE b = c
      <4>1. msg'[b] = clocks'[c] /\ msgKnown'[b] = known[c]
        BY <1>6, <3>1, <3>2
      <4> QED
        BY <2>1, <4>1
    <3>3. CASE b # c
      <4>1. msg'[b] = msg[b] /\ msgKnown'[b] = msgKnown[b]
        BY <1>6, <3>1, <3>3
      <4> QED
        BY <2>1, <4>1
    <3> QED
      BY <3>2, <3>3
  <2> QED
    BY <1>6, <2>1, <2>2 DEF ClocksFaithful
<1> QED
  BY <1>3, <1>7, <1>8, <1>9 DEF IInv

\* semaphore_wait only ticks before it waits.
LEMMA WaitStartStep ==
    ASSUME IInv, NEW c \in Cores, NEW s \in Sems, NEW value \in Increments,
           semaphore_wait(c, s, value)
    PROVE  IInv'
<1>1. Tick(c) /\ UNCHANGED <<events, happensBefore>>
  BY DEF semaphore_wait
<1>2. clocks' \in [Cores -> VectorClocks] /\ \A b \in Cores : clocks[b][b] <= clocks'[b][b]
  BY <1>1, TickStep
<1>3. /\ EventsCounted(events', clocks') /\ HappensBeforeIsOrdered'
      /\ OrderedHappensBefore' /\ happensBefore' \subseteq (events' \X events')
      /\ events' \subseteq Accesses
  BY <1>1, <1>2, QuietStep
<1>4. TypeOK /\ CallsOK
  BY DEF IInv
<1>5. [op |-> "wait", sem |-> s, value |-> value] \in Calls
  BY DEF Calls
<1>6. /\ call' = [call EXCEPT ![c] = [op |-> "wait", sem |-> s, value |-> value]]
      /\ pc' = [pc EXCEPT ![c] = "wait"]
      /\ UNCHANGED <<count, semClock, signalled, msg, dmaState, dma, dmaClock, phase,
                     known, semKnown, msgKnown, dmaKnown>>
  BY DEF semaphore_wait
<1>7. TypeOK'
  BY <1>2, <1>3, <1>4, <1>5, <1>6 DEF TypeOK
<1>8. CallsOK'
  BY <1>4, <1>6 DEF TypeOK, CallsOK
<1>9. ClocksFaithful'
  <2>1. /\ \A b \in Cores : /\ Faithful(clocks'[b], known[b], events', clocks')
                            /\ Faithful(msg[b], msgKnown[b], events', clocks')
        /\ \A x \in Sems, b \in Cores :
              Faithful(semClock[x][b], semKnown[x][b], events', clocks')
        /\ \A d \in Dmas : Faithful(dmaClock[d], dmaKnown[d], events', clocks')
    BY <1>1, TickCarriers
  <2> QED
    BY <1>6, <2>1 DEF ClocksFaithful
<1> QED
  BY <1>3, <1>7, <1>8, <1>9 DEF IInv

\* Semaphore.signal with a faithful clock keeps the semaphores' clocks faithful.
LEMMA SignalFaithful ==
    ASSUME IInv, NEW s \in Sems, NEW c \in Cores, NEW inc \in Nat,
           NEW v \in VectorClocks, NEW K, Faithful(v, K, events, clocks),
           Signal(s, c, inc, v, K)
    PROVE  /\ \A x \in Sems, b \in Cores :
                 Faithful(semClock'[x][b], semKnown'[x][b], events, clocks)
           /\ semKnown' \in [Sems -> [Cores -> SUBSET Accesses]]
<1>1. /\ semClock \in [Sems -> [Cores -> VectorClocks]]
      /\ semKnown \in [Sems -> [Cores -> SUBSET Accesses]]
      /\ clocks \in [Cores -> VectorClocks] /\ events \in SUBSET Accesses
  BY DEF IInv, TypeOK
<1>2. Faithful(semClock[s][c], semKnown[s][c], events, clocks)
      /\ semClock[s][c] \in VectorClocks
  BY Carriers
<1>3. K \subseteq Accesses
  BY <1>1 DEF Faithful
<1> DEFINE u == update_vector_clock(semClock[s][c], v)
<1>4. Faithful(u, semKnown[s][c] \cup K, events, clocks)
  BY <1>1, <1>2, MergeFaithful
<1>5. /\ semClock' = [semClock EXCEPT ![s][c] = u]
      /\ semKnown' = [semKnown EXCEPT ![s][c] = @ \cup K]
  BY DEF Signal
<1> HIDE DEF u
<1>6. ASSUME NEW x \in Sems, NEW b \in Cores
      PROVE  Faithful(semClock'[x][b], semKnown'[x][b], events, clocks)
  <2>1. CASE x = s /\ b = c
    <3>1. semClock'[x][b] = u /\ semKnown'[x][b] = semKnown[s][c] \cup K
      BY <1>1, <1>5, <2>1
    <3> QED
      BY <1>4, <3>1
  <2>2. CASE ~(x = s /\ b = c)
    <3>1. semClock'[x][b] = semClock[x][b] /\ semKnown'[x][b] = semKnown[x][b]
      BY <1>1, <1>5, <2>2
    <3> QED
      BY <3>1, Carriers
  <2> QED
    BY <2>1, <2>2
<1>7. semKnown' \in [Sems -> [Cores -> SUBSET Accesses]]
  BY <1>1, <1>3, <1>5
<1> QED
  BY <1>6, <1>7

\* What a step that leaves the clocks of the cores and the accesses alone keeps.
LEMMA StillStep ==
    ASSUME IInv, UNCHANGED <<clocks, events, happensBefore>>
    PROVE  /\ EventsCounted(events', clocks') /\ HappensBeforeIsOrdered'
           /\ OrderedHappensBefore' /\ happensBefore' \subseteq (events' \X events')
  BY DEF IInv, EventsCounted, HappensBeforeIsOrdered, OrderedHappensBefore

\* The arguments of a signal and of a wait.
LEMMA CallArgs ==
    ASSUME NEW x \in Calls
    PROVE  /\ x.op = "signal" => x.sem \in Sems /\ x.target \in Cores /\ x.inc \in Nat
           /\ x.op = "wait" => x.sem \in Sems /\ x.value \in Nat
<1>1. CASE x \in [op : {"signal"}, sem : Sems, target : Cores, inc : Increments]
  BY <1>1, ConstantsAssumption
<1>2. CASE x \in [op : {"wait"}, sem : Sems, value : Increments]
  BY <1>2, ConstantsAssumption
<1>3. CASE x = [op |-> "none"]
  BY <1>3
<1> QED
  BY <1>1, <1>2, <1>3 DEF Calls

\* The second half of semaphore_signal.
LEMMA DoSignalStep ==
    ASSUME IInv, NEW c \in Cores, DoSignal(c)
    PROVE  IInv'
<1>1. TypeOK /\ CallsOK /\ pc[c] = "signal"
  BY DEF IInv, DoSignal
<1>2. call[c].sem \in Sems /\ call[c].target \in Cores /\ call[c].inc \in Nat
  <2>1. call[c] \in Calls /\ call[c].op = "signal"
    BY <1>1 DEF TypeOK, CallsOK
  <2> QED
    BY <2>1, CallArgs
<1>3. /\ Signal(call[c].sem, call[c].target, call[c].inc, msg[c], msgKnown[c])
      /\ pc' = [pc EXCEPT ![c] = "run"]
      /\ UNCHANGED <<clocks, call, msg, dmaState, dma, dmaClock, phase,
                     events, happensBefore, known, msgKnown, dmaKnown>>
  BY DEF DoSignal
<1>4. msg[c] \in VectorClocks /\ Faithful(msg[c], msgKnown[c], events, clocks)
  BY Carriers
<1>5. /\ \A x \in Sems, b \in Cores :
            Faithful(semClock'[x][b], semKnown'[x][b], events, clocks)
      /\ semKnown' \in [Sems -> [Cores -> SUBSET Accesses]]
  BY <1>2, <1>3, <1>4, SignalFaithful
<1>6. /\ count' \in [Sems -> [Cores -> Nat]]
      /\ semClock' \in [Sems -> [Cores -> VectorClocks]]
      /\ signalled' \in [Sems -> [Cores -> BOOLEAN]]
  BY <1>1, <1>2, <1>3, <1>4, SignalType
<1>7. TypeOK'
  BY <1>1, <1>3, <1>5, <1>6 DEF TypeOK
<1>8. CallsOK'
  BY <1>1, <1>3 DEF TypeOK, CallsOK
<1>9. ClocksFaithful'
  BY <1>3, <1>5, Carriers DEF ClocksFaithful
<1>10. /\ EventsCounted(events', clocks') /\ HappensBeforeIsOrdered'
       /\ OrderedHappensBefore' /\ happensBefore' \subseteq (events' \X events')
  BY <1>3, StillStep
<1> QED
  BY <1>7, <1>8, <1>9, <1>10 DEF IInv

\* Semaphore.wait copies the semaphore's clock.
LEMMA WaitDoneStep ==
    ASSUME IInv, NEW c \in Cores, WaitDone(c)
    PROVE  IInv'
<1> DEFINE s == call[c].sem
<1>1. TypeOK /\ CallsOK /\ pc[c] = "wait"
  BY DEF IInv, WaitDone
<1>2. s \in Sems /\ call[c].value \in Nat /\ call[c].op = "wait"
  <2>1. call[c] \in Calls /\ call[c].op = "wait"
    BY <1>1 DEF TypeOK, CallsOK
  <2> QED
    BY <2>1, CallArgs
<1>3. /\ count[s][c] >= call[c].value
      /\ count' = [count EXCEPT ![s][c] = @ - call[c].value]
      /\ msg' = [msg EXCEPT ![c] = semClock[s][c]]
      /\ msgKnown' = [msgKnown EXCEPT ![c] = semKnown[s][c]]
      /\ pc' = [pc EXCEPT ![c] = "merge"]
      /\ UNCHANGED <<clocks, semClock, signalled, call, dmaState, dma, dmaClock, phase,
                     events, happensBefore, known, semKnown, dmaKnown>>
  BY DEF WaitDone, Enough
<1> HIDE DEF s
<1>4. count' \in [Sems -> [Cores -> Nat]]
  <2>1. count[s][c] \in Nat /\ count[s][c] - call[c].value \in Nat
    BY <1>1, <1>2, <1>3 DEF TypeOK
  <2> QED
    BY <1>1, <1>2, <1>3, <2>1 DEF TypeOK
<1>5. semClock[s][c] \in VectorClocks /\ semKnown[s][c] \in SUBSET Accesses
      /\ Faithful(semClock[s][c], semKnown[s][c], events, clocks)
  BY <1>1, <1>2, Carriers DEF TypeOK
<1>6. msg \in [Cores -> VectorClocks] /\ msgKnown \in [Cores -> SUBSET Accesses]
  BY <1>1 DEF TypeOK
<1>7. TypeOK'
  <2>1. msg' \in [Cores -> VectorClocks] /\ msgKnown' \in [Cores -> SUBSET Accesses]
    BY <1>3, <1>5, <1>6
  <2> QED
    BY <1>1, <1>3, <1>4, <2>1 DEF TypeOK
<1>8. CallsOK'
  BY <1>1, <1>2, <1>3 DEF TypeOK, CallsOK
<1>9. ClocksFaithful'
  <2>1. ASSUME NEW b \in Cores PROVE Faithful(msg'[b], msgKnown'[b], events, clocks)
    <3>1. CASE b = c
      <4>1. msg'[b] = semClock[s][c] /\ msgKnown'[b] = semKnown[s][c]
        BY <1>3, <1>6, <3>1
      <4> QED
        BY <1>5, <4>1
    <3>2. CASE b # c
      <4>1. msg'[b] = msg[b] /\ msgKnown'[b] = msgKnown[b]
        BY <1>3, <1>6, <3>2
      <4> QED
        BY <4>1, Carriers
    <3> QED
      BY <3>1, <3>2
  <2> QED
    BY <1>3, <2>1, Carriers DEF ClocksFaithful
<1>10. /\ EventsCounted(events', clocks') /\ HappensBeforeIsOrdered'
       /\ OrderedHappensBefore' /\ happensBefore' \subseteq (events' \X events')
  BY <1>3, StillStep
<1> QED
  BY <1>7, <1>8, <1>9, <1>10 DEF IInv

\* Semaphore.wait merges the copied clock.
LEMMA MergeClockStep ==
    ASSUME IInv, NEW c \in Cores, MergeClock(c)
    PROVE  IInv'
<1>1. TypeOK /\ CallsOK
  BY DEF IInv
<1> DEFINE u == update_vector_clock(clocks[c], msg[c])
<1>2. /\ clocks' = [clocks EXCEPT ![c] = u]
      /\ known' = [known EXCEPT ![c] = @ \cup msgKnown[c]]
      /\ pc' = [pc EXCEPT ![c] = "run"]
      /\ UNCHANGED <<count, semClock, signalled, call, msg, dmaState, dma, dmaClock,
                     phase, events, happensBefore, semKnown, msgKnown, dmaKnown>>
  BY DEF MergeClock
<1>3. /\ clocks \in [Cores -> VectorClocks] /\ known \in [Cores -> SUBSET Accesses]
      /\ events \in SUBSET Accesses
  BY <1>1 DEF TypeOK
<1>4. /\ clocks[c] \in VectorClocks /\ msg[c] \in VectorClocks
      /\ Faithful(clocks[c], known[c], events, clocks)
      /\ Faithful(msg[c], msgKnown[c], events, clocks)
      /\ msgKnown[c] \in SUBSET events
  BY Carriers
<1>5. u \in VectorClocks /\ \A i \in Entries : clocks[c][i] <= u[i]
  BY <1>4, UpdateClock
<1>6. Faithful(u, known[c] \cup msgKnown[c], events, clocks)
  BY <1>3, <1>4, MergeFaithful
<1> HIDE DEF u
<1>7. /\ clocks' \in [Cores -> VectorClocks]
      /\ \A b \in Cores : clocks[b][b] <= clocks'[b][b]
  <2>1. ASSUME NEW b \in Cores PROVE clocks[b][b] <= clocks'[b][b]
    <3>1. b \in Entries /\ clocks[b][b] \in Nat
      BY <1>3, CoreEntries DEF VectorClocks
    <3> QED
      BY <1>2, <1>3, <1>5, <3>1
  <2> QED
    BY <1>2, <1>3, <1>5, <2>1
<1>8. UNCHANGED <<events, happensBefore>>
  BY <1>2
<1>9. /\ EventsCounted(events', clocks') /\ HappensBeforeIsOrdered'
      /\ OrderedHappensBefore' /\ happensBefore' \subseteq (events' \X events')
      /\ \A V \in VectorClocks : \A K \in SUBSET events :
            Faithful(V, K, events, clocks) => Faithful(V, K, events', clocks')
  BY <1>7, <1>8, QuietStep
<1>10. TypeOK'
  <2>1. known' \in [Cores -> SUBSET Accesses]
    BY <1>2, <1>3, <1>4
  <2> QED
    BY <1>1, <1>2, <1>7, <2>1 DEF TypeOK
<1>11. CallsOK'
  BY <1>1, <1>2 DEF TypeOK, CallsOK
<1>12. ClocksFaithful'
  <2>1. ASSUME NEW b \in Cores PROVE Faithful(clocks'[b], known'[b], events', clocks')
    <3>1. CASE b = c
      <4>1. clocks'[b] = u /\ known'[b] = known[c] \cup msgKnown[c]
        BY <1>2, <1>3, <3>1
      <4>2. known[c] \cup msgKnown[c] \in SUBSET events
        BY <1>4, Carriers
      <4> QED
        BY <1>5, <1>6, <1>9, <4>1, <4>2
    <3>2. CASE b # c
      <4>1. clocks'[b] = clocks[b] /\ known'[b] = known[b]
        BY <1>2, <1>3, <3>2
      <4> QED
        BY <1>9, <4>1, Carriers
    <3> QED
      BY <3>1, <3>2
  <2> QED
    BY <1>2, <1>9, <2>1, Carriers DEF ClocksFaithful
<1> QED
  BY <1>9, <1>10, <1>11, <1>12 DEF IInv

\* dma_start hands the ticked clock to the DMA.
LEMMA DmaStartStep ==
    ASSUME IInv, NEW c \in Cores, NEW d \in Dmas, NEW dst \in Cores, NEW vid \in VirtualIds,
           NEW src_sem \in Sems \cup {NoSem}, NEW dst_sem \in Sems,
           dma_start(c, d, dst, vid, src_sem, dst_sem)
    PROVE  IInv'
<1> DEFINE r == [src |-> c, dst |-> dst, vid |-> vid, src_sem |-> src_sem,
                 dst_sem |-> dst_sem]
<1>1. r \in DmaRecords
  BY DEF DmaRecords
<1>2. Tick(c) /\ UNCHANGED <<events, happensBefore>>
  BY DEF dma_start
<1>3. /\ clocks' \in [Cores -> VectorClocks]
      /\ \A b \in Cores : clocks[b][b] <= clocks'[b][b]
      /\ clocks'[c] = inc_vector_clock(clocks[c], c) /\ clocks'[c] \in VectorClocks
  BY <1>2, TickStep
<1>4. /\ dma' = [dma EXCEPT ![d] = r]
      /\ dmaClock' = [dmaClock EXCEPT ![d] = clocks'[c]]
      /\ dmaState' = [dmaState EXCEPT ![d] = "STARTED"]
      /\ dmaKnown' = [dmaKnown EXCEPT ![d] = known[c]]
      /\ UNCHANGED <<count, semClock, signalled, pc, call, msg, phase,
                     known, semKnown, msgKnown>>
  BY <1>3 DEF dma_start
<1> HIDE DEF r
<1>5. /\ EventsCounted(events', clocks') /\ HappensBeforeIsOrdered'
      /\ OrderedHappensBefore' /\ happensBefore' \subseteq (events' \X events')
      /\ events' \subseteq Accesses
  BY <1>2, <1>3, QuietStep
<1>6. TypeOK /\ CallsOK
  BY DEF IInv
<1>7. /\ dmaClock \in [Dmas -> VectorClocks] /\ dmaKnown \in [Dmas -> SUBSET Accesses]
      /\ known[c] \in SUBSET Accesses
  BY <1>6 DEF TypeOK
<1>8. TypeOK'
  <2>1. dmaClock' \in [Dmas -> VectorClocks] /\ dmaKnown' \in [Dmas -> SUBSET Accesses]
    BY <1>3, <1>4, <1>7
  <2>2. dma' \in [Dmas -> DmaRecords \cup {NoDma}]
    BY <1>1, <1>4, <1>6 DEF TypeOK
  <2> QED
    BY <1>3, <1>4, <1>5, <1>6, <2>1, <2>2 DEF TypeOK
<1>9. CallsOK'
  <2>1. \A x \in Dmas : dmaState'[x] # "unused" => dma'[x] \in DmaRecords
    BY <1>1, <1>4, <1>6 DEF TypeOK, CallsOK
  <2> QED
    BY <1>4, <1>6, <2>1 DEF CallsOK
<1>10. ClocksFaithful'
  <2>1. /\ \A b \in Cores : /\ Faithful(clocks'[b], known[b], events', clocks')
                            /\ Faithful(msg[b], msgKnown[b], events', clocks')
        /\ \A x \in Sems, b \in Cores :
              Faithful(semClock[x][b], semKnown[x][b], events', clocks')
        /\ \A x \in Dmas : Faithful(dmaClock[x], dmaKnown[x], events', clocks')
    BY <1>2, TickCarriers
  <2>2. ASSUME NEW x \in Dmas
        PROVE  Faithful(dmaClock'[x], dmaKnown'[x], events', clocks')
    <3>1. CASE x = d
      <4>1. dmaClock'[x] = clocks'[c] /\ dmaKnown'[x] = known[c]
        BY <1>4, <1>7, <3>1
      <4> QED
        BY <2>1, <4>1
    <3>2. CASE x # d
      <4>1. dmaClock'[x] = dmaClock[x] /\ dmaKnown'[x] = dmaKnown[x]
        BY <1>4, <1>7, <3>2
      <4> QED
        BY <2>1, <4>1
    <3> QED
      BY <3>1, <3>2
  <2> QED
    BY <1>4, <2>1, <2>2 DEF ClocksFaithful
<1> QED
  BY <1>5, <1>8, <1>9, <1>10 DEF IInv

\* A get, store or swap of a core.
LEMMA AccessStep ==
    ASSUME IInv, NEW c \in Cores, get_store_swap(c)
    PROVE  IInv'
<1> DEFINE u == inc_vector_clock(clocks[c], c)
           a == Access(c, u)
<1>1. /\ Tick(c) /\ RecordAccess(a, known[c])
      /\ known' = [known EXCEPT ![c] = @ \cup {a}]
      /\ UNCHANGED <<count, semClock, signalled, pc, call, msg, dmaState, dma, dmaClock,
                     phase, semKnown, msgKnown, dmaKnown>>
  BY DEF get_store_swap
<1>2. /\ clocks' \in [Cores -> VectorClocks]
      /\ \A b \in Cores : clocks[b][b] <= clocks'[b][b]
      /\ clocks'[c] = u /\ u \in VectorClocks
      /\ clocks'[c][c] = clocks[c][c] + 1
      /\ \A b \in Cores : b # c => clocks'[b] = clocks[b]
  BY <1>1, TickStep
<1>3. /\ TypeOK /\ CallsOK
      /\ events \in SUBSET Accesses /\ clocks \in [Cores -> VectorClocks]
      /\ EventsCounted(events, clocks) /\ HappensBeforeIsOrdered /\ OrderedHappensBefore
      /\ happensBefore \subseteq (events \X events)
      /\ known \in [Cores -> SUBSET Accesses]
  BY DEF IInv, TypeOK
<1>4. /\ c \in Entries /\ clocks[c] \in VectorClocks /\ clocks[c][c] \in Nat
      /\ Faithful(clocks[c], known[c], events, clocks)
  BY <1>3, CoreEntries, Carriers DEF VectorClocks
<1>5. /\ events' = events \cup {a} /\ a \in Accesses /\ events' \subseteq Accesses
      /\ happensBefore' \subseteq (events' \X events')
      /\ HappensBeforeIsOrdered' /\ OrderedHappensBefore'
      /\ EventsCounted(events', clocks')
  BY <1>1, <1>2, <1>3, <1>4, RecordStep
<1>6. a.by = c /\ a.clock = u
  BY DEF Access
<1>7. Faithful(u, known[c] \cup {a}, events', clocks')
  <2>1. c \in Cores => clocks[c][c] = clocks[c][c] /\ clocks[c][c] < clocks'[c][c]
    BY <1>2, <1>4
  <2>2. Faithful(u, known[c], events, clocks')
    BY <1>2, <1>3, <1>4, <2>1, TickFaithful
  <2> HIDE DEF u, a
  <2>3. LeqAll(a.clock, u)
    BY <1>2, <1>6 DEF LeqAll, VectorClocks
  <2>4. Faithful(u, known[c] \cup {a}, events \cup {a}, clocks')
    BY <1>2, <2>2, <2>3, AddOwn
  <2> QED
    BY <1>5, <2>4
<1> HIDE DEF u, a
<1>8. \A V \in VectorClocks : \A K \in SUBSET events :
         Faithful(V, K, events, clocks) => Faithful(V, K, events', clocks')
  <2>1. \A x \in events' \ events :
           x.by \in Cores => clocks[x.by][x.by] < x.clock[x.by]
    BY <1>2, <1>4, <1>5, <1>6
  <2>2. events' \in SUBSET Accesses /\ events \subseteq events'
    BY <1>5
  <2> QED
    BY <1>2, <1>3, <2>1, <2>2, StepFaithful
<1>9. TypeOK'
  <2>1. known' \in [Cores -> SUBSET Accesses]
    BY <1>1, <1>3, <1>5
  <2> QED
    BY <1>1, <1>2, <1>3, <1>5, <2>1 DEF TypeOK
<1>10. CallsOK'
  BY <1>1, <1>3 DEF CallsOK
<1>11. ClocksFaithful'
  <2>1. ASSUME NEW b \in Cores PROVE Faithful(clocks'[b], known'[b], events', clocks')
    <3>1. CASE b = c
      <4>1. clocks'[b] = u /\ known'[b] = known[c] \cup {a}
        BY <1>1, <1>2, <1>3, <3>1
      <4> QED
        BY <1>7, <4>1
    <3>2. CASE b # c
      <4>1. clocks'[b] = clocks[b] /\ known'[b] = known[b]
        BY <1>1, <1>2, <1>3, <3>2
      <4> QED
        BY <1>8, <4>1, Carriers
    <3> QED
      BY <3>1, <3>2
  <2> QED
    BY <1>1, <1>8, <2>1, Carriers DEF ClocksFaithful
<1> QED
  BY <1>5, <1>9, <1>10, <1>11 DEF IInv

\* The access of one half of a DMA, which also ticks the clock of a core.
LEMMA DmaAccessStep ==
    ASSUME IInv, NEW d \in Dmas, NEW from \in {"STARTED", "READ"},
           NEW to \in {"reading", "writing"}, NEW core,
           dma[d] \in DmaRecords => core \in Cores,
           DmaAccess(d, from, to, core)
    PROVE  IInv'
<1> DEFINE j == dma[d].vid
           V == dmaClock[d]
           u == inc_vector_clock(V, j)
           a == Access(j, u)
<1>1. /\ dmaState[d] = from /\ Tick(core) /\ RecordAccess(a, dmaKnown[d])
      /\ dmaState' = [dmaState EXCEPT ![d] = to]
      /\ dmaClock' = [dmaClock EXCEPT ![d] = u]
      /\ dmaKnown' = [dmaKnown EXCEPT ![d] = @ \cup {a}]
      /\ UNCHANGED <<count, semClock, signalled, pc, call, msg, dma, phase,
                     known, semKnown, msgKnown>>
  BY DEF DmaAccess
<1>2. /\ TypeOK /\ CallsOK
      /\ events \in SUBSET Accesses /\ clocks \in [Cores -> VectorClocks]
      /\ EventsCounted(events, clocks) /\ HappensBeforeIsOrdered /\ OrderedHappensBefore
      /\ happensBefore \subseteq (events \X events)
      /\ dmaClock \in [Dmas -> VectorClocks] /\ dmaKnown \in [Dmas -> SUBSET Accesses]
  BY DEF IInv, TypeOK
<1>3. dma[d] \in DmaRecords /\ core \in Cores
  BY <1>1, <1>2 DEF CallsOK
<1>4. j \in Entries /\ j \notin Cores /\ V \in VectorClocks
      /\ Faithful(V, dmaKnown[d], events, clocks)
  BY <1>3, CoreEntries, Carriers DEF DmaRecords
<1>5. /\ clocks' \in [Cores -> VectorClocks]
      /\ \A b \in Cores : clocks[b][b] <= clocks'[b][b]
  BY <1>1, <1>3, TickStep
<1>6. u \in VectorClocks
  BY <1>4, IncClock
<1>7. /\ events' = events \cup {a} /\ a \in Accesses /\ events' \subseteq Accesses
      /\ happensBefore' \subseteq (events' \X events')
      /\ HappensBeforeIsOrdered' /\ OrderedHappensBefore'
      /\ EventsCounted(events', clocks')
  BY <1>1, <1>2, <1>4, <1>5, RecordStep
<1>8. a.by = j /\ a.clock = u
  BY DEF Access
<1>9. Faithful(u, dmaKnown[d] \cup {a}, events', clocks')
  <2>1. Faithful(u, dmaKnown[d], events, clocks')
    BY <1>2, <1>4, <1>5, TickFaithful
  <2> HIDE DEF u, a
  <2>2. LeqAll(a.clock, u)
    BY <1>6, <1>8 DEF LeqAll, VectorClocks
  <2>3. Faithful(u, dmaKnown[d] \cup {a}, events \cup {a}, clocks')
    BY <1>6, <2>1, <2>2, AddOwn
  <2> QED
    BY <1>7, <2>3
<1> HIDE DEF u, a, j
<1>10. \A W \in VectorClocks : \A K \in SUBSET events :
          Faithful(W, K, events, clocks') => Faithful(W, K, events', clocks')
  <2>1. \A x \in events' \ events :
           x.by \in Cores => clocks'[x.by][x.by] < x.clock[x.by]
    BY <1>4, <1>7, <1>8
  <2>2. /\ events' \in SUBSET Accesses /\ events \subseteq events'
        /\ \A b \in Cores : clocks'[b][b] <= clocks'[b][b]
    BY <1>5, <1>7, CoreEntries DEF VectorClocks
  <2> QED
    BY <1>2, <1>5, <2>1, <2>2, StepFaithful
<1>11. TypeOK'
  <2>1. dmaClock' \in [Dmas -> VectorClocks] /\ dmaKnown' \in [Dmas -> SUBSET Accesses]
    BY <1>1, <1>2, <1>6, <1>7
  <2> QED
    BY <1>1, <1>2, <1>5, <1>7, <2>1 DEF TypeOK
<1>12. CallsOK'
  <2>1. \A x \in Dmas : dmaState'[x] # "unused" => dma'[x] \in DmaRecords
    BY <1>1, <1>2, <1>3 DEF TypeOK, CallsOK
  <2> QED
    BY <1>1, <1>2, <2>1 DEF CallsOK
<1>13. ClocksFaithful'
  <2>1. /\ \A b \in Cores : /\ Faithful(clocks'[b], known[b], events, clocks')
                            /\ Faithful(msg[b], msgKnown[b], events, clocks')
        /\ \A x \in Sems, b \in Cores :
              Faithful(semClock[x][b], semKnown[x][b], events, clocks')
        /\ \A x \in Dmas : Faithful(dmaClock[x], dmaKnown[x], events, clocks')
    BY <1>1, <1>3, TickCarriers
  <2>2. ASSUME NEW x \in Dmas
        PROVE  Faithful(dmaClock'[x], dmaKnown'[x], events', clocks')
    <3>1. CASE x = d
      <4>1. dmaClock'[x] = u /\ dmaKnown'[x] = dmaKnown[d] \cup {a}
        BY <1>1, <1>2, <3>1
      <4> QED
        BY <1>9, <4>1
    <3>2. CASE x # d
      <4>1. dmaClock'[x] = dmaClock[x] /\ dmaKnown'[x] = dmaKnown[x]
        BY <1>1, <1>2, <3>2
      <4> QED
        BY <1>10, <2>1, <4>1, Carriers
    <3> QED
      BY <3>1, <3>2
  <2>3. \A b \in Cores : clocks'[b] \in VectorClocks
    BY <1>5
  <2> QED
    BY <1>1, <1>10, <2>1, <2>2, <2>3, Carriers DEF ClocksFaithful
<1> QED
  BY <1>7, <1>11, <1>12, <1>13 DEF IInv

\* The end of one half of a DMA.
LEMMA DmaSignalStep ==
    ASSUME IInv, NEW d \in Dmas, NEW from \in {"reading", "writing"},
           NEW to \in {"READ", "COMPLETED"}, NEW sem, NEW core,
           dma[d] \in DmaRecords => core \in Cores /\ sem \in Sems \cup {NoSem},
           DmaSignal(d, from, to, sem, core)
    PROVE  IInv'
<1> DEFINE j == dma[d].vid
           u == inc_vector_clock(dmaClock[d], j)
<1>1. /\ dmaState[d] = from
      /\ dmaState' = [dmaState EXCEPT ![d] = to]
      /\ dmaClock' = [dmaClock EXCEPT ![d] = u]
      /\ UNCHANGED <<clocks, pc, call, msg, dma, phase,
                     events, happensBefore, known, msgKnown, dmaKnown>>
  BY DEF DmaSignal
<1>2. /\ sem = NoSem => UNCHANGED <<count, semClock, signalled, semKnown>>
      /\ sem # NoSem => Signal(sem, core, DataSize, u, dmaKnown[d])
  BY DEF DmaSignal
<1>3. /\ TypeOK /\ CallsOK
      /\ events \in SUBSET Accesses /\ clocks \in [Cores -> VectorClocks]
      /\ EventsCounted(events, clocks)
      /\ dmaClock \in [Dmas -> VectorClocks]
  BY DEF IInv, TypeOK
<1>4. dma[d] \in DmaRecords /\ core \in Cores /\ sem \in Sems \cup {NoSem}
  BY <1>1, <1>3 DEF CallsOK
<1>5. j \in Entries /\ j \notin Cores /\ dmaClock[d] \in VectorClocks
      /\ Faithful(dmaClock[d], dmaKnown[d], events, clocks)
  BY <1>4, CoreEntries, Carriers DEF DmaRecords
<1>6. u \in VectorClocks
  BY <1>5, IncClock
<1>7. Faithful(u, dmaKnown[d], events, clocks)
  <2>1. \A b \in Cores : clocks[b][b] <= clocks[b][b]
    BY <1>3, CoreEntries DEF VectorClocks
  <2> QED
    BY <1>3, <1>5, <2>1, TickFaithful
<1> HIDE DEF u, j
<1>8. /\ count' \in [Sems -> [Cores -> Nat]]
      /\ semClock' \in [Sems -> [Cores -> VectorClocks]]
      /\ signalled' \in [Sems -> [Cores -> BOOLEAN]]
      /\ semKnown' \in [Sems -> [Cores -> SUBSET Accesses]]
      /\ \A x \in Sems, b \in Cores :
            Faithful(semClock'[x][b], semKnown'[x][b], events, clocks)
  <2>1. CASE sem = NoSem
    <3>1. UNCHANGED <<count, semClock, signalled, semKnown>>
      BY <1>2, <2>1
    <3> QED
      BY <1>3, <3>1, Carriers DEF TypeOK
  <2>2. CASE sem # NoSem
    <3>1. sem \in Sems /\ DataSize \in Nat /\ Signal(sem, core, DataSize, u, dmaKnown[d])
      BY <1>2, <1>4, <2>2, ConstantsAssumption
    <3>2. /\ count' \in [Sems -> [Cores -> Nat]]
          /\ semClock' \in [Sems -> [Cores -> VectorClocks]]
          /\ signalled' \in [Sems -> [Cores -> BOOLEAN]]
      BY <1>3, <1>4, <1>6, <3>1, SignalType
    <3>3. /\ semKnown' \in [Sems -> [Cores -> SUBSET Accesses]]
          /\ \A x \in Sems, b \in Cores :
                Faithful(semClock'[x][b], semKnown'[x][b], events, clocks)
      BY <1>4, <1>6, <1>7, <3>1, SignalFaithful
    <3> QED
      BY <3>2, <3>3
  <2> QED
    BY <2>1, <2>2
<1>9. TypeOK'
  <2>1. dmaClock' \in [Dmas -> VectorClocks]
    BY <1>1, <1>3, <1>6
  <2> QED
    BY <1>1, <1>3, <1>8, <2>1 DEF TypeOK
<1>10. CallsOK'
  <2>1. \A x \in Dmas : dmaState'[x] # "unused" => dma'[x] \in DmaRecords
    BY <1>1, <1>3, <1>4 DEF TypeOK, CallsOK
  <2> QED
    BY <1>1, <1>3, <2>1 DEF CallsOK
<1>11. ClocksFaithful'
  <2>1. ASSUME NEW x \in Dmas PROVE Faithful(dmaClock'[x], dmaKnown[x], events, clocks)
    <3>1. CASE x = d
      <4>1. dmaClock'[x] = u
        BY <1>1, <1>3, <3>1
      <4> QED
        BY <1>7, <3>1, <4>1
    <3>2. CASE x # d
      <4>1. dmaClock'[x] = dmaClock[x]
        BY <1>1, <1>3, <3>2
      <4> QED
        BY <4>1, Carriers
    <3> QED
      BY <3>1, <3>2
  <2> QED
    BY <1>1, <1>8, <2>1, Carriers DEF ClocksFaithful
<1>12. /\ EventsCounted(events', clocks') /\ HappensBeforeIsOrdered'
       /\ OrderedHappensBefore' /\ happensBefore' \subseteq (events' \X events')
  BY <1>1, StillStep
<1> QED
  BY <1>9, <1>10, <1>11, <1>12 DEF IInv

\* update_clocks makes the cores of a device know what any of them knew.
LEMMA BarrierStep ==
    ASSUME IInv, NEW d \in Devices, DeviceBarrier(d)
    PROVE  IInv'
<1> DEFINE G == get_global_core_ids(d)
           J == Join(G)
           U == UNION {known[b] : b \in G}
<1>1. /\ TypeOK /\ CallsOK
      /\ clocks \in [Cores -> VectorClocks] /\ known \in [Cores -> SUBSET Accesses]
      /\ phase \in [Devices -> {"start", "kernel", "output"}]
      /\ events \in SUBSET Accesses
  BY DEF IInv, TypeOK
<1>2. /\ clocks' = [c \in Cores |-> IF c \in G THEN J ELSE clocks[c]]
      /\ known' = [c \in Cores |-> IF c \in G THEN U ELSE known[c]]
      /\ phase' = [phase EXCEPT ![d] = IF @ = "start" THEN "kernel" ELSE "output"]
      /\ UNCHANGED <<count, semClock, signalled, pc, call, msg, dmaState, dma, dmaClock,
                     events, happensBefore, semKnown, msgKnown, dmaKnown>>
  BY DEF DeviceBarrier, update_clocks_for_device_barrier
<1>3. /\ G \subseteq Cores /\ J \in VectorClocks
      /\ \A e \in Entries : /\ \A b \in G : clocks[b][e] <= J[e]
                            /\ \E x \in G : J[e] = clocks[x][e]
  BY <1>1, JoinClock
<1> HIDE DEF J, G
<1>4. U \subseteq events
  BY <1>3, Carriers
<1>5. Faithful(J, U, events, clocks)
  <2>1. ASSUME NEW e \in U PROVE LeqAll(e.clock, J)
    <3>1. PICK b \in G : e \in known[b]
      OBVIOUS
    <3>2. b \in Cores /\ clocks[b] \in VectorClocks /\ LeqAll(e.clock, clocks[b])
      BY <1>3, <3>1, Carriers DEF Faithful
    <3>3. e.clock \in VectorClocks
      BY <1>1, <1>4 DEF Accesses
    <3> QED
      BY <1>3, <3>2, <3>3 DEF LeqAll, VectorClocks
  <2>2. ASSUME NEW e \in events, e.by \in Cores, e.clock[e.by] <= J[e.by] PROVE e \in U
    <3>1. PICK x \in G : J[e.by] = clocks[x][e.by]
      BY <1>3, <2>2, CoreEntries
    <3>2. e \in known[x]
      BY <1>3, <2>2, <3>1, Carriers DEF Faithful
    <3> QED
      BY <3>2
  <2>3. ASSUME NEW c \in Cores PROVE J[c] <= clocks[c][c]
    <3>1. PICK x \in G : J[c] = clocks[x][c]
      BY <1>3, CoreEntries
    <3> QED
      BY <1>3, <3>1, Carriers DEF Faithful
  <2> HIDE DEF U
  <2> QED
    BY <1>4, <2>1, <2>2, <2>3 DEF Faithful
<1> HIDE DEF U
<1>6. /\ clocks' \in [Cores -> VectorClocks]
      /\ \A b \in Cores : clocks[b][b] <= clocks'[b][b]
  <2>1. ASSUME NEW b \in Cores PROVE clocks[b][b] <= clocks'[b][b]
    <3>1. b \in Entries /\ clocks[b][b] \in Nat
      BY <1>1, CoreEntries DEF VectorClocks
    <3> QED
      BY <1>2, <1>3, <3>1
  <2> QED
    BY <1>1, <1>2, <1>3, <2>1
<1>7. UNCHANGED <<events, happensBefore>>
  BY <1>2
<1>8. /\ EventsCounted(events', clocks') /\ HappensBeforeIsOrdered'
      /\ OrderedHappensBefore' /\ happensBefore' \subseteq (events' \X events')
      /\ \A V \in VectorClocks : \A K \in SUBSET events :
            Faithful(V, K, events, clocks) => Faithful(V, K, events', clocks')
  BY <1>6, <1>7, QuietStep
<1>9. TypeOK'
  <2>1. known' \in [Cores -> SUBSET Accesses]
    BY <1>1, <1>2, <1>4
  <2>2. phase' \in [Devices -> {"start", "kernel", "output"}]
    BY <1>1, <1>2
  <2> QED
    BY <1>1, <1>2, <1>6, <2>1, <2>2 DEF TypeOK
<1>10. CallsOK'
  BY <1>1, <1>2 DEF CallsOK
<1>11. ClocksFaithful'
  <2>1. ASSUME NEW b \in Cores PROVE Faithful(clocks'[b], known'[b], events', clocks')
    <3>1. CASE b \in G
      <4>1. clocks'[b] = J /\ known'[b] = U
        BY <1>2, <3>1
      <4> QED
        BY <1>3, <1>4, <1>5, <1>8, <4>1
    <3>2. CASE b \notin G
      <4>1. clocks'[b] = clocks[b] /\ known'[b] = known[b]
        BY <1>2, <3>2
      <4> QED
        BY <1>8, <4>1, Carriers
    <3> QED
      BY <3>1, <3>2
  <2> QED
    BY <1>2, <1>8, <2>1, Carriers DEF ClocksFaithful
<1> QED
  BY <1>8, <1>9, <1>10, <1>11 DEF IInv

\* The invariant holds in a new shared memory.
LEMMA InitInv == Init => IInv
<1> SUFFICES ASSUME Init PROVE IInv
  OBVIOUS
<1>1. TypeOK
  BY InitType
<1>2. CallsOK
  BY DEF Init, CallsOK
<1>3. \A c \in Cores : \A b \in Cores : make_vector_clock[c] <= clocks[b][b]
  BY CoreEntries DEF Init, make_vector_clock
<1>4. Faithful(make_vector_clock, {}, {}, clocks)
  <2>1. \A c \in Cores : make_vector_clock[c] <= clocks[c][c]
    BY <1>3
  <2> QED
    BY <2>1 DEF Faithful
<1>5. ClocksFaithful
  BY <1>4 DEF Init, ClocksFaithful
<1>6. EventsCounted(events, clocks) /\ HappensBeforeIsOrdered /\ OrderedHappensBefore
      /\ happensBefore \subseteq (events \X events)
  BY DEF Init, EventsCounted, HappensBeforeIsOrdered, OrderedHappensBefore
<1> QED
  BY <1>1, <1>2, <1>5, <1>6 DEF IInv

\* The step relation splits into the steps of cores, DMAs and devices.
LEMMA NextSplit ==
    Next <=> \/ \E c \in Cores : CoreStep(c)
             \/ \E d \in Dmas : execute_read(d) \/ execute_write(d)
             \/ \E d \in Devices : DeviceBarrier(d)
  BY DEF Next, CoreStep

\* Every step keeps the invariant.
LEMMA StepInv == IInv /\ [Next]_vars => IInv'
<1> SUFFICES ASSUME IInv, [Next]_vars PROVE IInv'
  OBVIOUS
<1>1. ASSUME NEW c \in Cores, CoreStep(c) PROVE IInv'
  <2>1. ASSUME NEW d \in Dmas, NEW dst \in DmaTargets(c), NEW vid \in VirtualIds,
               NEW src_sem \in Sems \cup {NoSem}, NEW dst_sem \in Sems,
               dma_start(c, d, dst, vid, src_sem, dst_sem)
        PROVE  IInv'
    <3>1. dst \in Cores
      BY DEF DmaTargets
    <3> QED
      BY <2>1, <3>1, DmaStartStep
  <2> QED
    BY <1>1, <2>1, AccessStep, SignalStartStep, DoSignalStep, WaitStartStep, WaitDoneStep,
       MergeClockStep DEF CoreStep
<1>2. ASSUME NEW d \in Dmas, execute_read(d) \/ execute_write(d) PROVE IInv'
  <2>1. dma[d] \in DmaRecords =>
           /\ dma[d].src \in Cores /\ dma[d].dst \in Cores
           /\ dma[d].src_sem \in Sems \cup {NoSem} /\ dma[d].dst_sem \in Sems \cup {NoSem}
    BY DEF DmaRecords
  <2>2. CASE DmaAccess(d, "STARTED", "reading", dma[d].src)
    BY <2>1, <2>2, DmaAccessStep
  <2>3. CASE DmaAccess(d, "READ", "writing", dma[d].dst)
    BY <2>1, <2>3, DmaAccessStep
  <2>4. CASE DmaSignal(d, "reading", "READ", dma[d].src_sem, dma[d].src)
    BY <2>1, <2>4, DmaSignalStep
  <2>5. CASE DmaSignal(d, "writing", "COMPLETED", dma[d].dst_sem, dma[d].dst)
    BY <2>1, <2>5, DmaSignalStep
  <2> QED
    BY <1>2, <2>2, <2>3, <2>4, <2>5 DEF execute_read, execute_write
<1>3. ASSUME NEW d \in Devices, DeviceBarrier(d) PROVE IInv'
  BY <1>3, BarrierStep
<1>4. CASE UNCHANGED vars
  BY <1>4 DEF vars, codeVars, history, IInv, TypeOK, CallsOK, ClocksFaithful, EventsCounted,
     HappensBeforeIsOrdered, OrderedHappensBefore
<1> QED
  BY <1>1, <1>2, <1>3, <1>4, NextSplit

\* Type correctness of the clocks, semaphores and DMAs of the shared memory.
THEOREM ClockTypes == Spec => []TypeOK
<1>1. IInv => TypeOK
  BY DEF IInv
<1> QED
  BY <1>1, InitInv, StepInv, PTL DEF Spec

\* No false positives: accesses that are ordered by the program have ordered
\* clocks, whichever entries the DMAs share (the comment on
\* get_random_virtual_device_id).
THEOREM NoFalsePositives == Spec => []HappensBeforeIsOrdered
<1>1. IInv => HappensBeforeIsOrdered
  BY DEF IInv
<1> QED
  BY <1>1, InitInv, StepInv, PTL DEF Spec

\* No false negatives for cores: clocks order a core's access before another
\* access only if the program does.
THEOREM NoFalseNegatives == Spec => []OrderedHappensBefore
<1>1. IInv => OrderedHappensBefore
  BY DEF IInv
<1> QED
  BY <1>1, InitInv, StepInv, PTL DEF Spec

\* A wait for a positive value finds a clock in the semaphore: the assertion
\* `self.clocks[global_core_id] is not None` of Semaphore.wait holds for every
\* kernel whose waits are for positive values.
THEOREM WaitFindsClock ==
    ASSUME 0 \notin Increments
    PROVE  Spec => []WaitHasClock
<1>0. 0 \notin Increments
  OBVIOUS
<1> DEFINE WInv == IInv /\ CountHasClock /\ WaitHasClock
<1>1. Init => WInv
  <2> SUFFICES ASSUME Init PROVE CountHasClock /\ WaitHasClock
    BY InitInv
  <2> QED
    BY DEF Init, CountHasClock, WaitHasClock
<1>2. WInv /\ [Next]_vars => WInv'
  <2> SUFFICES ASSUME IInv, CountHasClock, WaitHasClock, [Next]_vars
               PROVE  CountHasClock' /\ WaitHasClock'
    BY StepInv
  <2>0. TypeOK /\ CallsOK
    BY DEF IInv
  <2>1. ASSUME NEW s \in Sems, NEW c \in Cores, NEW inc, NEW v, NEW K,
               Signal(s, c, inc, v, K),
               UNCHANGED call, \A b \in Cores : pc'[b] = "merge" => pc[b] = "merge"
        PROVE  CountHasClock' /\ WaitHasClock'
    <3>1. /\ count' = [count EXCEPT ![s][c] = @ + inc]
          /\ signalled' = [signalled EXCEPT ![s][c] = TRUE]
      BY <2>1 DEF Signal
    <3>2. \A x \in Sems, b \in Cores : /\ signalled[x][b] => signalled'[x][b]
                                       /\ count'[x][b] = count[x][b] \/ signalled'[x][b]
      BY <2>0, <3>1 DEF TypeOK
    <3>3. CountHasClock'
      BY <3>2 DEF CountHasClock
    <3>4. WaitHasClock'
      <4> SUFFICES ASSUME NEW b \in Cores, pc'[b] = "merge" PROVE signalled'[call[b].sem][b]
        BY <2>1 DEF WaitHasClock
      <4>1. pc[b] = "merge" /\ call[b].sem \in Sems
        BY <2>0, <2>1, CallArgs DEF TypeOK, CallsOK
      <4> QED
        BY <3>2, <4>1 DEF WaitHasClock
    <3> QED
      BY <3>3, <3>4
  <2>2. ASSUME UNCHANGED <<count, signalled>>,
               \A b \in Cores : pc'[b] = "merge" => pc[b] = "merge" /\ call'[b] = call[b]
        PROVE  CountHasClock' /\ WaitHasClock'
    BY <2>2 DEF CountHasClock, WaitHasClock
  <2>3. ASSUME NEW c \in Cores, CoreStep(c) PROVE CountHasClock' /\ WaitHasClock'
    <3>1. CASE get_store_swap(c)
      BY <2>2, <3>1 DEF get_store_swap
    <3>2. ASSUME NEW s \in Sems, NEW target \in Cores, NEW inc \in Increments,
                 semaphore_signal(c, s, target, inc)
          PROVE  CountHasClock' /\ WaitHasClock'
      <4>1. UNCHANGED <<count, signalled>> /\ pc[c] = "run"
        BY <3>2 DEF semaphore_signal, Running
      <4>2. \A b \in Cores : pc'[b] = "merge" => pc[b] = "merge" /\ call'[b] = call[b]
        BY <2>0, <3>2 DEF semaphore_signal, TypeOK
      <4> QED
        BY <2>2, <4>1, <4>2
    <3>3. CASE DoSignal(c)
      <4>1. call[c].sem \in Sems /\ call[c].target \in Cores
        BY <2>0, <3>3, CallArgs DEF DoSignal, TypeOK, CallsOK
      <4>2. UNCHANGED call /\ \A b \in Cores : pc'[b] = "merge" => pc[b] = "merge"
        BY <2>0, <3>3 DEF DoSignal, TypeOK
      <4> QED
        BY <2>1, <3>3, <4>1, <4>2 DEF DoSignal
    <3>4. ASSUME NEW s \in Sems, NEW value \in Increments, semaphore_wait(c, s, value)
          PROVE  CountHasClock' /\ WaitHasClock'
      <4>1. UNCHANGED <<count, signalled>>
        BY <3>4 DEF semaphore_wait
      <4>2. \A b \in Cores : pc'[b] = "merge" => pc[b] = "merge" /\ call'[b] = call[b]
        BY <2>0, <3>4 DEF semaphore_wait, TypeOK
      <4> QED
        BY <2>2, <4>1, <4>2
    <3>5. CASE WaitDone(c)
      <4> DEFINE s == call[c].sem
      <4>1. s \in Sems /\ call[c].value \in Increments
        <5>1. call[c] \in Calls /\ call[c].op = "wait"
          BY <2>0, <3>5 DEF WaitDone, TypeOK, CallsOK
        <5>2. CASE call[c] \in [op : {"signal"}, sem : Sems, target : Cores, inc : Increments]
          BY <5>1, <5>2
        <5>3. CASE call[c] \in [op : {"wait"}, sem : Sems, value : Increments]
          BY <5>3
        <5>4. CASE call[c] = [op |-> "none"]
          BY <5>1, <5>4
        <5> QED
          BY <5>1, <5>2, <5>3, <5>4 DEF Calls
      <4>2. /\ count[s][c] >= call[c].value
            /\ count' = [count EXCEPT ![s][c] = @ - call[c].value]
            /\ pc' = [pc EXCEPT ![c] = "merge"]
            /\ UNCHANGED <<signalled, call>>
        BY <3>5 DEF WaitDone, Enough
      <4> HIDE DEF s
      <4>3. call[c].value \in Nat \ {0} /\ count[s][c] \in Nat
        <5>1. count[s][c] \in Nat
          BY <2>0, <4>1 DEF TypeOK
        <5>2. call[c].value \in Nat /\ call[c].value # 0
          BY <1>0, <4>1, ConstantsAssumption
        <5> QED
          BY <5>1, <5>2
      <4>4. count[s][c] > 0
        BY <4>2, <4>3
      <4>5. signalled[s][c]
        BY <4>1, <4>4 DEF CountHasClock
      <4>6. CountHasClock'
        <5> SUFFICES ASSUME NEW x \in Sems, NEW b \in Cores, count'[x][b] > 0
                     PROVE  signalled[x][b]
          BY <4>2 DEF CountHasClock
        <5>1. CASE x = s /\ b = c
          BY <4>5, <5>1
        <5>2. CASE ~(x = s /\ b = c)
          <6>1. count'[x][b] = count[x][b]
            BY <2>0, <4>1, <4>2, <5>2 DEF TypeOK
          <6> QED
            BY <6>1 DEF CountHasClock
        <5> QED
          BY <5>1, <5>2
      <4>7. WaitHasClock'
        <5> SUFFICES ASSUME NEW b \in Cores, pc'[b] = "merge"
                     PROVE  signalled[call[b].sem][b]
          BY <4>2 DEF WaitHasClock
        <5>1. CASE b = c
          BY <4>5, <5>1 DEF s
        <5>2. CASE b # c
          BY <2>0, <4>2, <5>2 DEF WaitHasClock, TypeOK
        <5> QED
          BY <5>1, <5>2
      <4> QED
        BY <4>6, <4>7
    <3>6. CASE MergeClock(c)
      <4>1. UNCHANGED <<count, signalled>>
        BY <3>6 DEF MergeClock
      <4>2. \A b \in Cores : pc'[b] = "merge" => pc[b] = "merge" /\ call'[b] = call[b]
        BY <2>0, <3>6 DEF MergeClock, TypeOK
      <4> QED
        BY <2>2, <4>1, <4>2
    <3>7. ASSUME NEW d \in Dmas, NEW dst \in DmaTargets(c), NEW vid \in VirtualIds,
                 NEW src_sem \in Sems \cup {NoSem}, NEW dst_sem \in Sems,
                 dma_start(c, d, dst, vid, src_sem, dst_sem)
          PROVE  CountHasClock' /\ WaitHasClock'
      BY <2>2, <3>7 DEF dma_start
    <3> QED
      BY <2>3, <3>1, <3>2, <3>3, <3>4, <3>5, <3>6, <3>7 DEF CoreStep
  <2>4. ASSUME NEW d \in Dmas, NEW from, NEW to, NEW core, DmaAccess(d, from, to, core)
        PROVE  CountHasClock' /\ WaitHasClock'
    BY <2>2, <2>4 DEF DmaAccess
  <2>5. ASSUME NEW d \in Dmas, NEW from \in {"reading", "writing"}, NEW to, NEW sem, NEW core,
               dma[d] \in DmaRecords => core \in Cores /\ sem \in Sems \cup {NoSem},
               DmaSignal(d, from, to, sem, core)
        PROVE  CountHasClock' /\ WaitHasClock'
    <3>1. core \in Cores /\ sem \in Sems \cup {NoSem} /\ UNCHANGED <<pc, call>>
      BY <2>0, <2>5 DEF DmaSignal, CallsOK
    <3>2. CASE sem = NoSem
      <4>1. UNCHANGED <<count, signalled>>
        BY <2>5, <3>2 DEF DmaSignal
      <4> QED
        BY <2>2, <3>1, <4>1
    <3>3. CASE sem # NoSem
      <4> DEFINE v == inc_vector_clock(dmaClock[d], dma[d].vid)
      <4>1. Signal(sem, core, DataSize, v, dmaKnown[d]) /\ sem \in Sems
        BY <2>5, <3>1, <3>3 DEF DmaSignal
      <4> HIDE DEF v
      <4> QED
        BY <2>1, <3>1, <4>1
    <3> QED
      BY <3>2, <3>3
  <2>6. ASSUME NEW d \in Dmas, execute_read(d) \/ execute_write(d)
        PROVE  CountHasClock' /\ WaitHasClock'
    <3>1. dma[d] \in DmaRecords =>
             /\ dma[d].src \in Cores /\ dma[d].dst \in Cores
             /\ dma[d].src_sem \in Sems \cup {NoSem} /\ dma[d].dst_sem \in Sems \cup {NoSem}
      BY DEF DmaRecords
    <3>2. CASE DmaAccess(d, "STARTED", "reading", dma[d].src)
      BY <2>4, <3>2
    <3>3. CASE DmaAccess(d, "READ", "writing", dma[d].dst)
      BY <2>4, <3>3
    <3>4. CASE DmaSignal(d, "reading", "READ", dma[d].src_sem, dma[d].src)
      BY <2>5, <3>1, <3>4
    <3>5. CASE DmaSignal(d, "writing", "COMPLETED", dma[d].dst_sem, dma[d].dst)
      BY <2>5, <3>1, <3>5
    <3> QED
      BY <2>6, <3>2, <3>3, <3>4, <3>5 DEF execute_read, execute_write
  <2>7. ASSUME NEW d \in Devices, DeviceBarrier(d) PROVE CountHasClock' /\ WaitHasClock'
    BY <2>2, <2>7 DEF DeviceBarrier
  <2>8. CASE UNCHANGED vars
    BY <2>2, <2>8 DEF vars, codeVars
  <2> QED
    BY <2>3, <2>6, <2>7, <2>8, NextSplit
<1>3. WInv => WaitHasClock
  OBVIOUS
<1> QED
  BY <1>1, <1>2, <1>3, PTL DEF Spec
=============================================================================
