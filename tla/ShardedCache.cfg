\* Two threads, two shards of capacity 2 (3 rounded up over the shards).
CONSTANTS
  Threads = {t1, t2}
  Keys = {1, 2, 3}
  ShardOf <- MCShardOf
  ChargeOf <- MCChargeOf
  kNumShards = 2
  Capacity = 3
  None = None
SYMMETRY MCSymmetry
SPECIFICATION Spec
INVARIANT CallsAccountForShards
