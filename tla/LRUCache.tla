------------------------------ MODULE LRUCache ------------------------------
(***************************************************************************)
(* One shard of the block cache: class LRUCache of util/cache.cpp.         *)
(*                                                                         *)
(* Every public method runs under mutex_.  A method whose body has no loop *)
(* is one action.  Insert and Prune and the destructor erase one entry per *)
(* loop iteration, and every iteration runs the client's deleter, so they  *)
(* are a first action that takes the mutex (pc leaves "idle") and one      *)
(* action per iteration; nothing else can run before pc is "idle" again.   *)
(*                                                                         *)
(* The hash table is a map from keys to entries; module HandleTable shows  *)
(* that the chained table of the code implements that map.                 *)
(***************************************************************************)
EXTENDS Integers, FiniteSets, Sequences, SequencesExt, FiniteSetsExt

CONSTANTS Handles,     \* memory blocks an LRUHandle can be allocated in
          Keys,        \* keys of this shard
          Charges,     \* charges a client may give to an entry
          Capacities,  \* values SetCapacity may be given at construction
          MaxPins,     \* bound: references clients hold on one entry
          NoHandle,    \* nullptr
          NoKey        \* key of a block that is not allocated

ASSUME ConstantsAssumption ==
  /\ IsFiniteSet(Handles)
  /\ Charges \subseteq Nat
  /\ Capacities \subseteq Nat
  /\ MaxPins \in Nat \ {0}
  /\ NoHandle \notin Handles
  /\ NoKey \notin Keys

VARIABLES
  capacity,  \* capacity_
  live,      \* blocks that are malloc'ed and not yet freed
  key, charge, refs, in_cache,  \* fields of each LRUHandle
  lru,       \* list lru_, oldest entry first
  in_use,    \* list in_use_; no code reads its order
  usage,     \* usage_
  table,     \* table_
  pc,        \* which method holds mutex_ ("idle": nobody)
  victim,    \* the entry Insert displaced from table_ and must still erase
  pins       \* handles returned to clients and not yet released

vars == <<capacity, live, key, charge, refs, in_cache, lru, in_use, usage,
          table, pc, victim, pins>>

-----------------------------------------------------------------------------
\* The constructor, and SetCapacity that ShardedLRUCache calls right after it.
Init ==
  /\ capacity \in Capacities
  /\ live = {}
  /\ key = [e \in Handles |-> NoKey]
  /\ charge = [e \in Handles |-> 0]
  /\ refs = [e \in Handles |-> 0]
  /\ in_cache = [e \in Handles |-> FALSE]
  /\ lru = << >>
  /\ in_use = {}
  /\ usage = 0
  /\ table = [k \in Keys |-> NoHandle]
  /\ pc = "idle"
  /\ victim = NoHandle
  /\ pins = [e \in Handles |-> 0]

\* LRU_Remove unlinks e from whichever list it is on.
LRU_Remove(e) ==
  /\ lru' = RemoveFirst(lru, e)
  /\ in_use' = in_use \ {e}

MoveToOldestEnd(e) ==
  /\ lru' = <<e>> \o RemoveFirst(lru, e)
  /\ in_use' = in_use \ {e}

\* Move e from the list it is on to the newest end of lru_.
MoveToLru(e) ==
  /\ lru' = Append(RemoveFirst(lru, e), e)
  /\ in_use' = in_use \ {e}

\* Move e from the list it is on to in_use_.
MoveToInUse(e) ==
  /\ lru' = RemoveFirst(lru, e)
  /\ in_use' = in_use \union {e}

RefNeverMoves(e) ==
  /\ UNCHANGED <<lru, in_use>>
  /\ refs' = [refs EXCEPT ![e] = @ + 1]

Ref(e) ==
  /\ IF refs[e] = 1 /\ in_cache[e] THEN MoveToInUse(e) ELSE UNCHANGED <<lru, in_use>>
  /\ refs' = [refs EXCEPT ![e] = @ + 1]

FreesOnePinEarly(e) ==
  /\ refs' = [refs EXCEPT ![e] = @ - 1]
  /\ IF refs[e] <= 2
     THEN /\ live' = live \ {e}
          /\ key' = [key EXCEPT ![e] = NoKey]
          /\ charge' = [charge EXCEPT ![e] = 0]
     ELSE UNCHANGED <<live, key, charge>>

\* The part of Unref that both of its callers reach: drop one reference, and
\* run the deleter and free the block when it was the last one.
DropReference(e) ==
  /\ refs' = [refs EXCEPT ![e] = @ - 1]
  /\ IF refs[e] = 1
     THEN /\ live' = live \ {e}
          /\ key' = [key EXCEPT ![e] = NoKey]
          /\ charge' = [charge EXCEPT ![e] = 0]
     ELSE UNCHANGED <<live, key, charge>>

UnrefForgetsLru(e) ==
  /\ DropReference(e)
  /\ UNCHANGED <<lru, in_use>>

\* Unref as Release calls it: an entry that only the cache still references
\* moves to lru_.
Unref(e) ==
  /\ DropReference(e)
  /\ IF in_cache[e] /\ refs[e] = 2 THEN MoveToLru(e) ELSE UNCHANGED <<lru, in_use>>

FinishEraseKeepsCharge(e) ==
  /\ in_cache' = [in_cache EXCEPT ![e] = FALSE]
  /\ LRU_Remove(e)
  /\ UNCHANGED usage
  /\ DropReference(e)

\* FinishErase of an entry that table_ no longer holds.  in_cache is false by
\* the time Unref runs, so Unref's move to lru_ is not reached.
FinishErase(e) ==
  /\ in_cache' = [in_cache EXCEPT ![e] = FALSE]
  /\ LRU_Remove(e)
  /\ usage' = usage - charge[e]
  /\ DropReference(e)

-----------------------------------------------------------------------------
Lookup(k) ==
  /\ pc = "idle"
  /\ IF table[k] = NoHandle
     THEN UNCHANGED <<refs, lru, in_use, pins>>
     ELSE /\ pins[table[k]] < MaxPins
          /\ Ref(table[k])
          /\ pins' = [pins EXCEPT ![table[k]] = @ + 1]
  /\ UNCHANGED <<capacity, live, key, charge, in_cache, usage, table, pc, victim>>

\* The client releases a handle it was given and has not yet released.
Release(e) ==
  /\ pc = "idle"
  /\ pins[e] > 0
  /\ pins' = [pins EXCEPT ![e] = @ - 1]
  /\ Unref(e)
  /\ UNCHANGED <<capacity, in_cache, usage, table, pc, victim>>

\* "capacity_==0 is supported and turns off caching."
CachingOn == capacity > 0

\* Insert up to table_.Insert(e), which returns the entry it displaced.
\* The reference counted for the handle to return is in pins from here on.
InsertLink(k, c, e) ==
  /\ pc = "idle"
  /\ e \notin live
  /\ live' = live \union {e}
  /\ key' = [key EXCEPT ![e] = k]
  /\ charge' = [charge EXCEPT ![e] = c]
  /\ pins' = [pins EXCEPT ![e] = 1]
  /\ IF CachingOn
     THEN /\ refs' = [refs EXCEPT ![e] = 2]
          /\ in_cache' = [in_cache EXCEPT ![e] = TRUE]
          /\ in_use' = in_use \union {e}
          /\ usage' = usage + c
          /\ table' = [table EXCEPT ![k] = e]
          /\ victim' = table[k]
          /\ pc' = IF table[k] = NoHandle THEN "evict" ELSE "replace"
     ELSE /\ refs' = [refs EXCEPT ![e] = 1]
          /\ pc' = "evict"
          /\ UNCHANGED <<in_cache, in_use, usage, table, victim>>
  /\ UNCHANGED <<capacity, lru>>

\* Insert: FinishErase(table_.Insert(e)) for the displaced entry.
InsertReplace ==
  /\ pc = "replace"
  /\ FinishErase(victim)
  /\ victim' = NoHandle
  /\ pc' = "evict"
  /\ UNCHANGED <<capacity, table, pins>>

\* FinishErase(table_.Remove(e->key(), e->hash))
EraseEntry(e) ==
  /\ table' = [table EXCEPT ![key[e]] = NoHandle]
  /\ FinishErase(e)
  /\ UNCHANGED <<capacity, victim, pins>>

OverCapacity == usage > capacity

\* One test of the loop condition of Insert's eviction loop, and its body.
EvictStep ==
  /\ pc = "evict"
  /\ IF OverCapacity /\ lru # << >>
     THEN EraseEntry(Head(lru)) /\ pc' = "evict"
     ELSE pc' = "idle" /\ UNCHANGED <<capacity, live, key, charge, refs, in_cache,
                                      lru, in_use, usage, table, victim, pins>>

Erase(k) ==
  /\ pc = "idle"
  /\ table[k] # NoHandle
  /\ EraseEntry(table[k])
  /\ UNCHANGED pc

Prune ==
  /\ pc = "idle"
  /\ pc' = "prune"
  /\ UNCHANGED <<capacity, live, key, charge, refs, in_cache, lru, in_use, usage,
                 table, victim, pins>>

PruneStep ==
  /\ pc = "prune"
  /\ IF lru # << >>
     THEN EraseEntry(Head(lru)) /\ pc' = "prune"
     ELSE pc' = "idle" /\ UNCHANGED <<capacity, live, key, charge, refs, in_cache,
                                      lru, in_use, usage, table, victim, pins>>

\* ~LRUCache: the assertion on in_use_ is the only check of the client's side.
Destroy ==
  /\ pc = "idle"
  /\ pc' = IF in_use = {} THEN "destroy" ELSE "aborted"
  /\ UNCHANGED <<capacity, live, key, charge, refs, in_cache, lru, in_use, usage,
                 table, victim, pins>>

DestroyForgetsUnref ==
  /\ pc = "destroy"
  /\ pc' = "dead" /\ lru' = << >>
  /\ in_cache' = [e \in Handles |-> FALSE]
  /\ UNCHANGED <<capacity, live, key, charge, refs, in_use, usage, table, victim, pins>>

\* The destructor's loop clears in_cache and drops the cache's reference.  It
\* leaves table_ and usage_ as they are; lru is what it has still to walk.
DestroyStep ==
  /\ pc = "destroy"
  /\ IF lru # << >>
     THEN /\ in_cache' = [in_cache EXCEPT ![Head(lru)] = FALSE]
          /\ DropReference(Head(lru))
          /\ lru' = Tail(lru)
          /\ pc' = "destroy"
     ELSE /\ pc' = "dead"
          /\ UNCHANGED <<live, key, charge, refs, in_cache, lru>>
  /\ UNCHANGED <<capacity, in_use, usage, table, victim, pins>>

Stopped == pc \in {"dead", "aborted"} /\ UNCHANGED vars

Next ==
  \/ \E k \in Keys : Lookup(k)
  \/ \E e \in Handles : Release(e)
  \/ \E k \in Keys, c \in Charges, e \in Handles : InsertLink(k, c, e)
  \/ InsertReplace
  \/ EvictStep
  \/ \E k \in Keys : Erase(k)
  \/ Prune
  \/ PruneStep
  \/ Destroy
  \/ DestroyStep
  \/ Stopped

Spec == Init /\ [][Next]_vars

-----------------------------------------------------------------------------
Operating == pc \notin {"destroy", "dead"}

\* Entries the cache itself holds a reference on.
Cached == {e \in Handles : in_cache[e]}

\* Every field has its type; a block that is not allocated holds nothing.
TypeOK ==
  /\ capacity \in Capacities
  /\ live \subseteq Handles
  /\ key \in [Handles -> Keys \union {NoKey}]
  /\ charge \in [Handles -> Nat]
  /\ refs \in [Handles -> Nat]
  /\ in_cache \in [Handles -> BOOLEAN]
  /\ lru \in Seq(Handles)
  /\ in_use \subseteq Handles
  /\ usage \in Int
  /\ table \in [Keys -> Handles \union {NoHandle}]
  /\ pc \in {"idle", "replace", "evict", "prune", "destroy", "dead", "aborted"}
  /\ victim \in Handles \union {NoHandle}
  /\ pins \in [Handles -> Nat]
  /\ \A e \in Handles : e \in live <=> key[e] \in Keys

\* Reference counting is exact: refs counts the handles clients hold plus the
\* cache's own reference, and a block is allocated exactly while somebody holds
\* a reference.  So the deleter never runs under a client that may still call
\* Value(), it runs at the last Release, and no entry leaks.
RefsExact ==
  \A e \in Handles :
    /\ refs[e] = pins[e] + (IF in_cache[e] THEN 1 ELSE 0)
    /\ e \in live <=> refs[e] > 0

\* The comment on the lists in cache.cpp ("Invariant of lru_ list"): lru_ holds,
\* once each, the cached entries no client references, and in_use_ the cached
\* entries some client references.  The assertions of Insert, Prune and the
\* destructor rest on it.
ListsExact ==
  /\ \A i, j \in 1..Len(lru) : lru[i] = lru[j] => i = j
  /\ \A e \in Handles :
        /\ (\E i \in 1..Len(lru) : lru[i] = e) <=> in_cache[e] /\ refs[e] = 1
        /\ e \in in_use <=> in_cache[e] /\ refs[e] > 1

\* table_ holds exactly the cached entries, each under its own key; the entry
\* Insert displaced is the only cached entry that table_ does not hold.
TableExact ==
  Operating =>
    \A k \in Keys, e \in Handles :
      table[k] = e <=> in_cache[e] /\ key[e] = k /\ e # victim

\* What the other invariants need to be inductive: Insert alone leaves a victim,
\* which is still cached, and the destructor starts without an entry in use and
\* ends when it has walked all of lru_.
MethodsConsistent ==
  /\ pc = "replace" <=> victim # NoHandle
  /\ victim # NoHandle => in_cache[victim]
  /\ pc \in {"destroy", "dead"} => in_use = {}
  /\ pc = "dead" => lru = << >>

\* usage_ is the sum of the charges of the cached entries: it neither drifts
\* nor wraps below zero, whatever the order of inserts, erases and releases.
UsageIsSum ==
  Operating => usage = MapThenSumSet(LAMBDA e : charge[e], Cached)

\* Nobody can reach freed memory: what a client holds, what the lists and the
\* table point to and what Insert still has to erase is allocated.
NoDanglingPointer ==
  \A e \in Handles :
    \/ pins[e] > 0
    \/ e \in in_use \/ e = victim \/ \E i \in 1..Len(lru) : lru[i] = e
    \/ Operating /\ \E k \in Keys : table[k] = e
    => e \in live

\* The destructor frees everything that no client still pins.
DestroyFreesAll ==
  pc = "dead" => \A e \in live : pins[e] > 0

\* Eviction and Prune never take an entry a client still uses out of the cache:
\* until it is erased or replaced, a lookup of its key keeps finding it.
PinnedEntriesStay ==
  [][ (pc = "evict" \/ pc = "prune") =>
        \A k \in Keys : table[k] # NoHandle /\ pins[table[k]] > 0 => table'[k] = table[k] ]_vars

\* What is in the shard, in the terms of LRUShard: an entry that Insert has
\* displaced and not erased yet is in the cache no more.
Contents ==
  [order |-> LET L == RemoveFirst(lru, victim) IN [i \in 1..Len(L) |-> key[L[i]]],
   using |-> {key[e] : e \in in_use \ {victim}},
   charge |-> [k \in Keys |-> IF table[k] = NoHandle THEN 0 ELSE charge[table[k]]]]

Busy ==
  IF pc = "idle" THEN "no"
  ELSE IF pc \in {"replace", "evict"} THEN "insert"
  ELSE IF pc = "prune" THEN "prune" ELSE "gone"

\* The shard is an LRU cache (module LRUShard), whatever clients hold, erase and
\* replace meanwhile: entries leave in the order in which their last handle was
\* released, Insert lets go only as many as it must and returns within the
\* capacity or with nothing but entries in use.
Shard == INSTANCE LRUShard WITH shard <- Contents, busy <- Busy
IsLRUShard == Shard!Spec

=============================================================================
