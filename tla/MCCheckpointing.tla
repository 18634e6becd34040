--------------------------- MODULE MCCheckpointing --------------------------
(* Up to two processes, two saves, and three shards of which one is larger *)
(* than the limit.                                                         *)
EXTENDS Checkpointing

MCShards == 1 .. 3
MCBytes == [s \in MCShards |-> CASE s = 1 -> 1 [] s = 2 -> 2 [] s = 3 -> 3]
=============================================================================
