------------------------- MODULE RaceDetectionState -------------------------
(***************************************************************************)
(* The race detector of the Pallas TPU interpreter                         *)
(* (interpret/race_detection_state.py).  Interpreter threads append their  *)
(* accesses to the log of the buffer under the detector's lock, remember   *)
(* how long the logs were, and compare their access with those prefixes    *)
(* after the lock is released, one entry at a time.  Logs only grow, so    *)
(* the prefixes are stable while other threads append.                     *)
(*                                                                         *)
(* The clock, buffer key and range of an access are arguments of the       *)
(* detector: they are chosen from the constant sets here; module           *)
(* SharedMemoryClocks says which clocks the interpreter passes.            *)
(***************************************************************************)
EXTENDS VectorClock, Slices

CONSTANTS
    Threads,    \* the threads that call the detector (one per core)
    BufferKeys, \* (memory_space, buffer_id, device_id, local_core_id)
    Clocks,     \* vector clocks the callers pass
    Ranges,     \* index ranges the callers pass
    MaxLog      \* bound on the length of one log

ASSUME ClocksAssumption == Clocks \subseteq VectorClocks
ASSUME RangesAssumption == Ranges \subseteq Seq([start : Int, stop : Int])
ASSUME MaxLogAssumption == MaxLog \in Nat

VARIABLES
    reads,       \* buffer key -> sequence of logged reads
    writes,      \* buffer key -> sequence of logged writes
    races_found,
    at,          \* where each thread is in check_read / check_write
    access,      \* the arguments of the call: kind, key, clock, rnge
    num_writes,  \* length of writes[key] when the call appended its access
    num_reads,   \* length of reads[key] at the same moment
    idx          \* index of the loop the thread is in (from 1)

detectorVars == <<reads, writes, races_found, at, access, num_writes, num_reads, idx>>

Entry == [clock : Clocks, rnge : Ranges]
LoggedAccess == [kind : {"read", "write"}, key : BufferKeys, entry : Entry]

NoAccess == [kind |-> "none"]

DetectorInit ==
    /\ reads = [k \in BufferKeys |-> <<>>]
    /\ writes = [k \in BufferKeys |-> <<>>]
    /\ races_found = FALSE
    /\ at = [t \in Threads |-> "idle"]
    /\ access = [t \in Threads |-> NoAccess]
    /\ num_writes = [t \in Threads |-> 0]
    /\ num_reads = [t \in Threads |-> 0]
    /\ idx = [t \in Threads |-> 1]

-----------------------------------------------------------------------------

\* The test of one loop iteration: neither `continue` is taken.
Conflicts(e, f) == ~ordered(e.clock, f.clock) /\ _ranges_overlap(f.rnge, e.rnge)

\* The first index of a loop, range(n) counted from 1.
FirstIndexMutant == 0
FirstIndex == 1

\* num_reads = len(reads): what check_write captures with its append.
CapturedReadsMutant(k) == 0
CapturedReads(k) == Len(reads[k])

\* check_read up to the release of the lock.
check_read(t, k, e) ==
    /\ at[t] = "idle"
    /\ Len(reads[k]) < MaxLog
    /\ reads' = [reads EXCEPT ![k] = Append(@, e)]
    /\ access' = [access EXCEPT ![t] = [kind |-> "read", key |-> k, entry |-> e]]
    /\ num_writes' = [num_writes EXCEPT ![t] = Len(writes[k])]
    /\ num_reads' = [num_reads EXCEPT ![t] = 0]
    /\ idx' = [idx EXCEPT ![t] = FirstIndex]
    /\ at' = [at EXCEPT ![t] = "scan_writes"]
    /\ UNCHANGED <<writes, races_found>>

\* check_write up to the release of the lock.
check_write(t, k, e) ==
    /\ at[t] = "idle"
    /\ Len(writes[k]) < MaxLog
    /\ writes' = [writes EXCEPT ![k] = Append(@, e)]
    /\ access' = [access EXCEPT ![t] = [kind |-> "write", key |-> k, entry |-> e]]
    /\ num_writes' = [num_writes EXCEPT ![t] = Len(writes[k])]
    /\ num_reads' = [num_reads EXCEPT ![t] = CapturedReads(k)]
    /\ idx' = [idx EXCEPT ![t] = FirstIndex]
    /\ at' = [at EXCEPT ![t] = "scan_writes"]
    /\ UNCHANGED <<reads, races_found>>

\* One iteration of `for i in range(num_writes)`.
ScanWrite(t) ==
    /\ at[t] = "scan_writes"
    /\ idx[t] <= num_writes[t]
    /\ IF Conflicts(writes[access[t].key][idx[t]], access[t].entry)
       THEN at' = [at EXCEPT ![t] = "race_with_write"] /\ UNCHANGED idx
       ELSE idx' = [idx EXCEPT ![t] = @ + 1] /\ UNCHANGED at
    /\ UNCHANGED <<reads, writes, races_found, access, num_writes, num_reads>>

\* The loop over the writes ends without a race: check_read returns,
\* check_write goes on with the reads.
EndWrites(t) ==
    /\ at[t] = "scan_writes"
    /\ idx[t] > num_writes[t]
    /\ at' = [at EXCEPT ![t] =
                 IF access[t].kind = "read" THEN "idle" ELSE "scan_reads"]
    /\ idx' = [idx EXCEPT ![t] = FirstIndex]
    /\ UNCHANGED <<reads, writes, races_found, access, num_writes, num_reads>>

\* `with self.lock: self.races_found = True` after a race with a write; then
\* check_read returns, and check_write breaks and scans the reads.
FlagWriteRace(t) ==
    /\ at[t] = "race_with_write"
    /\ races_found' = TRUE
    /\ at' = [at EXCEPT ![t] =
                 IF access[t].kind = "read" THEN "idle" ELSE "scan_reads"]
    /\ idx' = [idx EXCEPT ![t] = FirstIndex]
    /\ UNCHANGED <<reads, writes, access, num_writes, num_reads>>

\* One iteration of check_write's `for i in range(num_reads)`.
ScanRead(t) ==
    /\ at[t] = "scan_reads"
    /\ idx[t] <= num_reads[t]
    /\ IF Conflicts(reads[access[t].key][idx[t]], access[t].entry)
       THEN at' = [at EXCEPT ![t] = "race_with_read"] /\ UNCHANGED idx
       ELSE idx' = [idx EXCEPT ![t] = @ + 1] /\ UNCHANGED at
    /\ UNCHANGED <<reads, writes, races_found, access, num_writes, num_reads>>

EndReads(t) ==
    /\ at[t] = "scan_reads"
    /\ idx[t] > num_reads[t]
    /\ at' = [at EXCEPT ![t] = "idle"]
    /\ UNCHANGED <<reads, writes, races_found, access, num_writes, num_reads, idx>>

FlagReadRace(t) ==
    /\ at[t] = "race_with_read"
    /\ races_found' = TRUE
    /\ at' = [at EXCEPT ![t] = "idle"]
    /\ UNCHANGED <<reads, writes, access, num_writes, num_reads, idx>>

DetectorNext ==
    \E t \in Threads :
        \/ \E k \in BufferKeys, c \in Clocks, r \in Ranges :
              \/ check_read(t, k, [clock |-> c, rnge |-> r])
              \/ check_write(t, k, [clock |-> c, rnge |-> r])
        \/ ScanWrite(t)
        \/ EndWrites(t)
        \/ FlagWriteRace(t)
        \/ ScanRead(t)
        \/ EndReads(t)
        \/ FlagReadRace(t)

DetectorSpec == DetectorInit /\ [][DetectorNext]_detectorVars

-----------------------------------------------------------------------------

\* The types of the logs and of the state of the running calls; an index into a
\* log starts at 1 (check_read, check_write).
DetectorTypeOK ==
    /\ reads \in [BufferKeys -> Seq(Entry)]
    /\ writes \in [BufferKeys -> Seq(Entry)]
    /\ races_found \in BOOLEAN
    /\ at \in [Threads -> {"idle", "scan_writes", "race_with_write",
                           "scan_reads", "race_with_read"}]
    /\ access \in [Threads -> LoggedAccess \cup {NoAccess}]
    /\ num_writes \in [Threads -> Nat]
    /\ num_reads \in [Threads -> Nat]
    /\ idx \in [Threads -> Nat \ {0}]

\* Two accesses of a buffer race if neither happens before the other and they
\* touch a common part of it.
Races(e, f) == ~ordered(e.clock, f.clock) /\ _ranges_overlap(e.rnge, f.rnge)

\* The log of a buffer holds two racing accesses, at least one a write.
LoggedRace ==
    \E k \in BufferKeys :
        \/ \E a \in DOMAIN writes[k], b \in DOMAIN writes[k] :
              a < b /\ Races(writes[k][a], writes[k][b])
        \/ \E a \in DOMAIN writes[k], b \in DOMAIN reads[k] :
              Races(writes[k][a], reads[k][b])

\* races_found is the truth about the logs as soon as no call is running,
\* although every access is compared after the lock is released and only
\* with the accesses logged before it (check_read, check_write).
QuiescentVerdict ==
    (\A t \in Threads : at[t] = "idle") => (races_found <=> LoggedRace)

-----------------------------------------------------------------------------
(* The strengthening that makes QuiescentVerdict inductive.                *)

Flagging(t) == at[t] \in {"race_with_write", "race_with_read"}

\* t has yet to compare its access e with writes[k][a] / with reads[k][b].
WillCompareWrite(t, k, e, a) ==
    /\ at[t] = "scan_writes"
    /\ access[t].key = k /\ access[t].entry = e
    /\ idx[t] <= a /\ a <= num_writes[t]

WillCompareRead(t, k, e, b) ==
    /\ \/ at[t] = "scan_writes" /\ access[t].kind = "write"
       \/ at[t] = "scan_reads" /\ idx[t] <= b
    /\ access[t].key = k /\ access[t].entry = e
    /\ b <= num_reads[t]

\* The access of a running call is in the log, behind the prefixes captured
\* for it.
InLog(t) ==
    /\ access[t] \in LoggedAccess
    /\ num_writes[t] <= Len(writes[access[t].key])
    /\ num_reads[t] <= Len(reads[access[t].key])
    /\ access[t].kind = "write" =>
          /\ num_writes[t] + 1 \in DOMAIN writes[access[t].key]
          /\ writes[access[t].key][num_writes[t] + 1] = access[t].entry
    /\ access[t].kind = "read" =>
          /\ at[t] \notin {"scan_reads", "race_with_read"}
          /\ \E b \in DOMAIN reads[access[t].key] :
                reads[access[t].key][b] = access[t].entry

CallInLog == \A t \in Threads : at[t] # "idle" => InLog(t)

\* LoggedRace in terms of the test the code makes.
LoggedConflict ==
    \E k \in BufferKeys :
        \/ \E a \in DOMAIN writes[k], b \in DOMAIN writes[k] :
              a < b /\ Conflicts(writes[k][a], writes[k][b])
        \/ \E a \in DOMAIN writes[k], b \in DOMAIN reads[k] :
              Conflicts(writes[k][a], reads[k][b])

\* A verdict, given or about to be given, has its race in the log.
AlarmInLog == (races_found \/ \E t \in Threads : Flagging(t)) => LoggedConflict

\* A race in the log is reported, about to be reported, or still ahead of
\* the scan of one of its two accesses.
RaceSeen ==
    races_found \/ (\E t \in Threads : Flagging(t)) \/
    \A k \in BufferKeys : \A a \in DOMAIN writes[k] :
        /\ \A b \in DOMAIN writes[k] :
              a < b /\ Conflicts(writes[k][a], writes[k][b]) =>
                 \E t \in Threads : WillCompareWrite(t, k, writes[k][b], a)
        /\ \A b \in DOMAIN reads[k] :
              Conflicts(writes[k][a], reads[k][b]) =>
                 \E t \in Threads : \/ WillCompareWrite(t, k, reads[k][b], a)
                                    \/ WillCompareRead(t, k, writes[k][a], b)

DetectorInv == DetectorTypeOK /\ CallInLog /\ AlarmInLog /\ RaceSeen
=============================================================================
