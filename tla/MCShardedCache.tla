--------------------------- MODULE MCShardedCache ---------------------------
\* Two entries that share a shard, one of them too large to stay beside the
\* other, and an entry in the second shard.
EXTENDS ShardedCache

MCShardOf == [k \in 1..3 |-> IF k = 3 THEN 2 ELSE 1]
MCChargeOf == [k \in 1..3 |-> IF k = 2 THEN 2 ELSE 1]
MCSymmetry == Permutations(Threads)

=============================================================================
