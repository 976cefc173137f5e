------------------------------ MODULE LRUShard ------------------------------
(***************************************************************************)
(* What one shard of the cache promises: entries leave it in the order in  *)
(* which they were last used, none that a client uses, and only while it   *)
(* is over its capacity.  Insert and Prune let entries go one by one while *)
(* they hold the shard.                                                    *)
(***************************************************************************)
EXTENDS LRUPolicy

CONSTANTS Keys, Charges

VARIABLES capacity, shard,
          busy   \* which method is letting entries go: "no", "insert", "prune"; "gone"

Init == shard = EmptyShard(Keys) /\ busy = "no"

Insert(k, c) ==
  /\ busy = "no" /\ busy' = "insert"
  /\ shard' = IF capacity > 0 THEN Added(shard, k, c) ELSE shard

Evict ==
  /\ busy = "insert" /\ UNCHANGED busy
  /\ MustEvict(shard, capacity)
  /\ shard' = WithoutOldest(shard)

Prune == busy = "no" /\ busy' = "prune" /\ UNCHANGED shard

PruneOne ==
  /\ busy = "prune" /\ UNCHANGED busy
  /\ shard.order # << >>
  /\ shard' = WithoutOldest(shard)

Return ==
  /\ \/ busy = "insert" /\ ~MustEvict(shard, capacity)
     \/ busy = "prune" /\ shard.order = << >>
  /\ busy' = "no" /\ UNCHANGED shard

Use(k) ==
  /\ busy = "no" /\ UNCHANGED busy
  /\ \/ k \in CachedKeys(shard) /\ shard' = Used(shard, k)
     \/ k \in shard.using /\ shard' = Unused(shard, k)
     \/ k \in CachedKeys(shard) /\ shard' = Without(shard, k)

\* The destructor; afterwards nothing is promised.
Destroy == busy \in {"no", "gone"} /\ busy' = "gone"

Next ==
  /\ \/ \E k \in Keys, c \in Charges : Insert(k, c)
     \/ \E k \in Keys : Use(k)
     \/ Evict \/ Prune \/ PruneOne \/ Return \/ Destroy
  /\ UNCHANGED capacity

Spec == Init /\ [][Next]_<<capacity, shard, busy>>

=============================================================================
