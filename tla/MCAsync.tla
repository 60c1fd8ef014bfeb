------------------------------ MODULE MCAsync ------------------------------
(* AsyncCalls for TLC: two contracts in one shard, one in another.         *)
EXTENDS AsyncCalls

MCShardOf == [c \in Contracts |-> IF c = "c" THEN 1 ELSE 0]
=============================================================================
