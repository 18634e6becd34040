---------------------------- MODULE InFlightBytes ---------------------------
(***************************************************************************)
(* _LimitInFlightBytes (experimental/array_serialization/                  *)
(* tensorstore_impl.py): how many bytes the coroutines that read the       *)
(* shards of a checkpoint may hold, as operators on a record.              *)
(*                                                                         *)
(* asyncio runs a coroutine until it waits: wait_for_bytes is one step up  *)
(* to its wait, and one step each time it is notified.                     *)
(***************************************************************************)
EXTENDS Integers, FiniteSets

CONSTANTS
    Shards,
    Bytes,                   \* requested_bytes of a shard
    host_memory_bytes_limit

ASSUME InFlightAssumption ==
    /\ IsFiniteSet(Shards) /\ Bytes \in [Shards -> Nat]
    /\ host_memory_bytes_limit \in Nat

NewLimiter ==
    [max_bytes |-> host_memory_bytes_limit, available_bytes |-> host_memory_bytes_limit,
     shard |-> [s \in Shards |-> "new"]]

\* The condition of wait_for, and what follows it.
Fits(l, s) == l.available_bytes >= Bytes[s]

Try(l, s) ==
    IF Fits(l, s) THEN [l EXCEPT !.available_bytes = @ - Bytes[s], !.shard[s] = "reading"]
    ELSE [l EXCEPT !.shard[s] = "waiting"]

\* Mutant: what others hold is forgotten.
RaisedMutant(l, s) ==
    IF Bytes[s] > l.max_bytes
    THEN [l EXCEPT !.max_bytes = Bytes[s], !.available_bytes = Bytes[s]]
    ELSE l

\* A request larger than the limit raises it, and notifies nobody.
Raised(l, s) ==
    IF Bytes[s] > l.max_bytes
    THEN [l EXCEPT !.max_bytes = Bytes[s],
                   !.available_bytes = Bytes[s] - (l.max_bytes - l.available_bytes)]
    ELSE l

wait_for_bytes(l, s) == Try(Raised(l, s), s)

\* Mutant: nobody is notified.
NotifyMutant(l) == l

\* notify_all
Notify(l) == [l EXCEPT !.shard = [s \in Shards |-> IF @[s] = "waiting" THEN "notified" ELSE @[s]]]

release_bytes(l, s) ==
    Notify([l EXCEPT !.available_bytes = @ + Bytes[s], !.shard[s] = "done"])

\* A step of the coroutine of shard s.
ShardStep(l, s) ==
    CASE l.shard[s] = "new" -> wait_for_bytes(l, s)
      [] l.shard[s] = "notified" -> Try(l, s)
      [] l.shard[s] = "reading" -> release_bytes(l, s)

CanStep(l, s) == l.shard[s] \in {"new", "notified", "reading"}

AllRead(l) == \A s \in Shards : l.shard[s] = "done"

\* The bytes that the shards being read hold, each with its shard, and their number.
Held(l) == UNION {{s} \X (1 .. Bytes[s]) : s \in {x \in Shards : l.shard[x] = "reading"}}
HeldBytes(l) == Cardinality(Held(l))
=============================================================================
