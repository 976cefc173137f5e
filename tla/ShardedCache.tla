---------------------------- MODULE ShardedCache ----------------------------
(***************************************************************************)
(* ShardedLRUCache of util/cache.cpp: shards with a mutex each, and calls  *)
(* that visit one shard (Insert, Lookup, Release, Erase) or all of them,   *)
(* one after the other, while other threads go on (Prune, TotalCharge).    *)
(* A shard is the one of module LRUPolicy, which LRUCache implements.      *)
(***************************************************************************)
EXTENDS LRUPolicy

CONSTANTS Threads,
          Keys,
          ShardOf,     \* Shard(HashSlice(key)): key -> 1..kNumShards
          ChargeOf,    \* the charge a key is inserted with
          kNumShards,
          Capacity,    \* of the whole cache
          None         \* no handle

ASSUME ShardedAssumption ==
  /\ kNumShards \in Nat \ {0} /\ Capacity \in Nat
  /\ ShardOf \in [Keys -> 1..kNumShards] /\ ChargeOf \in [Keys -> Nat]

VARIABLES
  shard,        \* shard_
  handle,       \* per thread: the handle it holds
  pc, s, total, \* per thread: Prune or TotalCharge running, and their locals
  kept,         \* per thread: keys the running call must account for, see Begin
  seen          \* per thread: keys cached at some time during the running call

vars == <<shard, handle, pc, s, total, kept, seen>>
calls == <<pc, s, total>>

Shards == 1..kNumShards
PerShard == (Capacity + (kNumShards - 1)) \div kNumShards

Init ==
  /\ shard = [i \in Shards |-> EmptyShard(Keys)]
  /\ handle = [t \in Threads |-> None]
  /\ pc = [t \in Threads |-> "idle"]
  /\ s = [t \in Threads |-> 1] /\ total = [t \in Threads |-> 0]
  /\ kept = [t \in Threads |-> {}] /\ seen = [t \in Threads |-> {}]

AllCached(sh) == UNION {CachedKeys(sh[i]) : i \in Shards}
Evictable(sh) == UNION {ToSet(sh[i].order) : i \in Shards}

\* What a running call may count on: TotalCharge, what stays cached from its
\* beginning on, and Prune, what stays unused from its beginning on.
Watch ==
  /\ kept' = [t \in Threads |->
                kept[t] \cap (IF pc[t] = "prune" THEN Evictable(shard') ELSE AllCached(shard'))]
  /\ seen' = [t \in Threads |-> IF pc[t] = "charge" THEN seen[t] \union AllCached(shard') ELSE seen[t]]

\* The entry of key k leaves the cache; handles of it stay valid.
Orphaned(h, k) == [t \in Threads |-> IF h[t] # None /\ h[t].key = k THEN [h[t] EXCEPT !.cached = FALSE] ELSE h[t]]

-----------------------------------------------------------------------------
Insert(t, k) ==
  /\ pc[t] = "idle" /\ handle[t] = None
  /\ IF PerShard > 0
     THEN shard' = [shard EXCEPT ![ShardOf[k]] = Shrunk(Added(@, k, ChargeOf[k]), PerShard)]
     ELSE UNCHANGED shard
  /\ handle' = [Orphaned(handle, k) EXCEPT ![t] = [key |-> k, cached |-> PerShard > 0]]
  /\ Watch /\ UNCHANGED calls

\* A lookup that finds nothing changes nothing.
Lookup(t, k) ==
  /\ pc[t] = "idle" /\ handle[t] = None
  /\ k \in CachedKeys(shard[ShardOf[k]])
  /\ shard' = [shard EXCEPT ![ShardOf[k]] = Used(@, k)]
  /\ handle' = [handle EXCEPT ![t] = [key |-> k, cached |-> TRUE]]
  /\ Watch /\ UNCHANGED calls

\* Release finds the shard by the hash in the handle.
Release(t) ==
  /\ pc[t] = "idle" /\ handle[t] # None
  /\ handle' = [handle EXCEPT ![t] = None]
  /\ LET k == handle[t].key IN
     IF handle[t].cached /\ \A u \in Threads \ {t} : handle[u] # handle[t]
     THEN shard' = [shard EXCEPT ![ShardOf[k]] = Unused(@, k)]
     ELSE UNCHANGED shard
  /\ Watch /\ UNCHANGED calls

Erase(t, k) ==
  /\ pc[t] = "idle"
  /\ k \in CachedKeys(shard[ShardOf[k]])
  /\ shard' = [shard EXCEPT ![ShardOf[k]] = Without(@, k)]
  /\ handle' = Orphaned(handle, k)
  /\ Watch /\ UNCHANGED calls

Begin(t, call, keys) ==
  /\ pc[t] = "idle"
  /\ pc' = [pc EXCEPT ![t] = call]
  /\ s' = [s EXCEPT ![t] = 1]
  /\ total' = [total EXCEPT ![t] = 0]
  /\ kept' = [kept EXCEPT ![t] = keys]
  /\ seen' = [seen EXCEPT ![t] = AllCached(shard)]
  /\ UNCHANGED <<shard, handle>>

Prune(t) == Begin(t, "prune", Evictable(shard))
TotalCharge(t) == Begin(t, "charge", AllCached(shard))

InLoopButOne(t) == s[t] < kNumShards

InLoop(t) == s[t] <= kNumShards

PruneShard(t) ==
  /\ pc[t] = "prune" /\ InLoop(t)
  /\ shard' = [shard EXCEPT ![s[t]] = Pruned(@)]
  /\ s' = [s EXCEPT ![t] = @ + 1]
  /\ Watch /\ UNCHANGED <<handle, pc, total>>

ChargeShard(t) ==
  /\ pc[t] = "charge" /\ InLoop(t)
  /\ total' = [total EXCEPT ![t] = @ + Usage(shard[s[t]])]
  /\ s' = [s EXCEPT ![t] = @ + 1]
  /\ UNCHANGED <<shard, handle, pc, kept, seen>>

Return(t) ==
  /\ pc[t] # "idle" /\ ~InLoop(t)
  /\ pc' = [pc EXCEPT ![t] = "idle"]
  /\ s' = [s EXCEPT ![t] = 1] /\ total' = [total EXCEPT ![t] = 0]
  /\ kept' = [kept EXCEPT ![t] = {}] /\ seen' = [seen EXCEPT ![t] = {}]
  /\ UNCHANGED <<shard, handle>>

Next ==
  \E t \in Threads :
    \/ \E k \in Keys : Insert(t, k) \/ Lookup(t, k) \/ Erase(t, k)
    \/ Release(t) \/ Prune(t) \/ TotalCharge(t)
    \/ PruneShard(t) \/ ChargeShard(t) \/ Return(t)

Spec == Init /\ [][Next]_vars

-----------------------------------------------------------------------------
Charge(K) == MapThenSumSet(LAMBDA k : ChargeOf[k], K)

\* Prune and TotalCharge take no lock on the whole cache.  Still, Prune leaves
\* no entry that nobody used since it began, and TotalCharge returns at least
\* what was cached all the time and at most what was cached at some time.
CallsAccountForShards ==
  \A t \in Threads : pc[t] # "idle" /\ ~InLoop(t) =>
    IF pc[t] = "prune" THEN kept[t] = {}
    ELSE total[t] \in Charge(kept[t])..Charge(seen[t])

=============================================================================
