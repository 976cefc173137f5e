--------------------------- MODULE LRUCache_proofs ---------------------------
(***************************************************************************)
(* Proofs about one cache shard, for any set of blocks, keys and charges,  *)
(* any capacity and any number of references per entry.                    *)
(***************************************************************************)
EXTENDS LRUCache, SharedLemmas

IInv == TypeOK /\ RefsExact /\ ListsExact /\ TableExact /\ MethodsConsistent

Lists(e) ==
  /\ OnList(lru, e) <=> in_cache[e] /\ refs[e] = 1
  /\ e \in in_use <=> in_cache[e] /\ refs[e] > 1

LEMMA ListsForm == ListsExact <=> NoDuplicates(lru) /\ \A e \in Handles : Lists(e)
  BY DEF ListsExact, NoDuplicates, OnList, Lists

\* Dropping a reference frees the block exactly when it was the last one.
LEMMA DropFacts ==
  ASSUME TypeOK, NEW e \in Handles, e \in live, DropReference(e)
  PROVE  /\ live' \subseteq Handles
         /\ key' \in [Handles -> Keys \union {NoKey}]
         /\ charge' \in [Handles -> Nat]
         /\ \A x \in Handles : x \in live' <=> key'[x] \in Keys
         /\ \A x \in Handles : x # e => key'[x] = key[x] /\ (x \in live' <=> x \in live)
         /\ e \in live' <=> refs[e] # 1
<1> USE ConstantsAssumption
<1>1. CASE refs[e] = 1
  <2>1. /\ live' = live \ {e}
        /\ key' = [key EXCEPT ![e] = NoKey]
        /\ charge' = [charge EXCEPT ![e] = 0]
    BY <1>1 DEF DropReference
  <2>2. key' \in [Handles -> Keys \union {NoKey}] /\ charge' \in [Handles -> Nat]
    BY <2>1 DEF TypeOK
  <2>3. \A x \in Handles : key'[x] = IF x = e THEN NoKey ELSE key[x]
    BY <2>1 DEF TypeOK
  <2>4. QED
    BY <1>1, <2>1, <2>2, <2>3 DEF TypeOK
<1>2. CASE refs[e] # 1
  <2>1. live' = live /\ key' = key /\ charge' = charge
    BY <1>2 DEF DropReference
  <2>2. QED
    BY <1>2, <2>1 DEF TypeOK
<1>3. QED
  BY <1>1, <1>2

\* The heart of Insert, Erase, Prune and eviction: erasing a cached entry.
LEMMA ErasingKeeps ==
  ASSUME TypeOK, RefsExact, ListsExact, NEW e \in Handles, in_cache[e],
         FinishErase(e), UNCHANGED pins
  PROVE  /\ live' \subseteq Handles
         /\ key' \in [Handles -> Keys \union {NoKey}]
         /\ charge' \in [Handles -> Nat]
         /\ refs' \in [Handles -> Nat]
         /\ in_cache' \in [Handles -> BOOLEAN]
         /\ lru' \in Seq(Handles)
         /\ in_use' \subseteq Handles
         /\ usage' \in Int
         /\ \A x \in Handles : x \in live' <=> key'[x] \in Keys
         /\ RefsExact'
         /\ ListsExact'
         /\ in_use = {} => in_use' = {}
         /\ \A x \in Handles : in_cache'[x] <=> in_cache[x] /\ x # e
         /\ \A x \in Handles : in_cache'[x] => key'[x] = key[x]
<1> USE ConstantsAssumption
<1>1. refs[e] = pins[e] + 1 /\ e \in live /\ refs[e] \in Nat \ {0} /\ pins[e] \in Nat
  BY DEF TypeOK, RefsExact
<1>2. /\ refs' = [refs EXCEPT ![e] = refs[e] - 1]
      /\ in_cache' = [in_cache EXCEPT ![e] = FALSE]
      /\ lru' = RemoveFirst(lru, e)
      /\ in_use' = in_use \ {e}
      /\ usage' = usage - charge[e]
  BY DEF FinishErase, DropReference, LRU_Remove
<1>3. /\ refs' \in [Handles -> Nat]
      /\ in_cache' \in [Handles -> BOOLEAN]
      /\ in_use' \subseteq Handles
      /\ usage' \in Int
      /\ in_use = {} => in_use' = {}
  BY <1>1, <1>2 DEF TypeOK
<1>4. \A x \in Handles : in_cache'[x] <=> in_cache[x] /\ x # e
  BY <1>2 DEF TypeOK
<1>5. \A x \in Handles : x # e => refs'[x] = refs[x]
  BY <1>2 DEF TypeOK
<1>6. refs'[e] = pins[e]
  BY <1>1, <1>2 DEF TypeOK
<1>7. /\ live' \subseteq Handles
      /\ key' \in [Handles -> Keys \union {NoKey}]
      /\ charge' \in [Handles -> Nat]
      /\ \A x \in Handles : x \in live' <=> key'[x] \in Keys
      /\ \A x \in Handles : x # e => key'[x] = key[x] /\ (x \in live' <=> x \in live)
      /\ e \in live' <=> refs[e] # 1
  BY <1>1, DropFacts DEF FinishErase
<1>8. RefsExact'
  <2>1. ASSUME NEW x \in Handles, x # e
        PROVE  /\ refs'[x] = pins'[x] + (IF in_cache'[x] THEN 1 ELSE 0)
               /\ x \in live' <=> refs'[x] > 0
    BY <2>1, <1>2, <1>4, <1>5, <1>7 DEF RefsExact
  <2>2. /\ refs'[e] = pins'[e] + (IF in_cache'[e] THEN 1 ELSE 0)
        /\ e \in live' <=> refs'[e] > 0
    BY <1>1, <1>4, <1>6, <1>7
  <2>3. QED
    BY <2>1, <2>2 DEF RefsExact
<1>9. lru \in Seq(Handles) /\ NoDuplicates(lru) /\ \A x \in Handles : Lists(x)
  BY ListsForm DEF TypeOK
<1>10. /\ lru' \in Seq(Handles)
       /\ NoDuplicates(lru')
       /\ \A x \in Handles : OnList(lru', x) <=> OnList(lru, x) /\ x # e
  BY <1>2, <1>9, RemoveFacts
<1>11. \A x \in Handles : Lists(x)'
  BY <1>2, <1>4, <1>5, <1>9, <1>10 DEF Lists
<1>12. ListsExact'
  BY <1>10, <1>11 DEF ListsExact, NoDuplicates, OnList, Lists
<1>13. QED
  BY <1>3, <1>4, <1>7, <1>8, <1>10, <1>12

\* Erasing an entry that table_ holds, as Erase, Prune and eviction do.
LEMMA EraseEntryKeeps ==
  ASSUME IInv, NEW e \in Handles, in_cache[e], pc \in {"idle", "evict", "prune"},
         EraseEntry(e), pc' = pc
  PROVE  IInv'
<1> USE ConstantsAssumption
<1>1. victim = NoHandle /\ e # victim
  BY DEF IInv, MethodsConsistent
<1>2. key[e] \in Keys /\ \A k \in Keys : table[k] = e <=> key[e] = k
  BY <1>1 DEF IInv, TableExact, Operating, TypeOK, RefsExact
<1>3. TypeOK'
  BY ErasingKeeps, <1>2 DEF IInv, EraseEntry, TypeOK
<1>4. RefsExact' /\ ListsExact'
  BY ErasingKeeps DEF IInv, EraseEntry
<1>5. TableExact'
  <2>1. /\ \A x \in Handles : in_cache'[x] <=> in_cache[x] /\ x # e
        /\ \A x \in Handles : in_cache'[x] => key'[x] = key[x]
    BY ErasingKeeps DEF IInv, EraseEntry
  <2>2. \A k \in Keys : table'[k] = IF k = key[e] THEN NoHandle ELSE table[k]
    BY <1>2 DEF EraseEntry, IInv, TypeOK
  <2>3. \A k \in Keys, x \in Handles : table[k] = x <=> in_cache[x] /\ key[x] = k
    BY <1>1 DEF IInv, TableExact, Operating
  <2>4. ASSUME NEW k \in Keys, NEW x \in Handles
        PROVE  table'[k] = x <=> in_cache'[x] /\ key'[x] = k
    BY <2>1, <2>2, <2>3
  <2>5. QED
    BY <2>4, <1>1 DEF TableExact, Operating, EraseEntry
<1>6. MethodsConsistent'
  BY <1>1 DEF IInv, MethodsConsistent, EraseEntry
<1>7. QED
  BY <1>3, <1>4, <1>5, <1>6 DEF IInv

LEMMA LookupKeeps == ASSUME IInv, NEW k \in Keys, Lookup(k) PROVE IInv'
<1> USE ConstantsAssumption
<1>1. CASE table[k] = NoHandle
  BY <1>1 DEF Lookup, IInv, TypeOK, RefsExact, ListsExact, TableExact, Operating, MethodsConsistent
<1>2. CASE table[k] # NoHandle
  <2> DEFINE e == table[k]
  <2>1. e \in Handles /\ in_cache[e] /\ victim = NoHandle /\ pc = "idle"
    BY <1>2 DEF Lookup, IInv, TypeOK, TableExact, Operating, MethodsConsistent
  <2>2. refs[e] = pins[e] + 1 /\ refs[e] \in Nat /\ pins[e] \in Nat
    BY <2>1 DEF IInv, TypeOK, RefsExact
  <2>3. /\ refs' = [refs EXCEPT ![e] = refs[e] + 1]
        /\ pins' = [pins EXCEPT ![e] = pins[e] + 1]
        /\ UNCHANGED <<capacity, live, key, charge, in_cache, usage, table, pc, victim>>
    BY <1>2 DEF Lookup, Ref
  <2> HIDE DEF e
  <2>4. /\ refs' \in [Handles -> Nat]
        /\ pins' \in [Handles -> Nat]
        /\ \A x \in Handles : refs'[x] = IF x = e THEN refs[x] + 1 ELSE refs[x]
        /\ \A x \in Handles : pins'[x] = IF x = e THEN pins[x] + 1 ELSE pins[x]
    BY <2>1, <2>2, <2>3 DEF IInv, TypeOK
  <2>5. RefsExact'
    <3>1. ASSUME NEW x \in Handles
          PROVE  /\ refs'[x] = pins'[x] + (IF in_cache'[x] THEN 1 ELSE 0)
                 /\ x \in live' <=> refs'[x] > 0
      <4>1. /\ refs[x] = pins[x] + (IF in_cache[x] THEN 1 ELSE 0)
            /\ x \in live <=> refs[x] > 0
            /\ refs[x] \in Nat /\ pins[x] \in Nat
        BY DEF IInv, RefsExact, TypeOK
      <4>2. CASE x = e
        BY <4>1, <4>2, <2>1, <2>2, <2>3, <2>4
      <4>3. CASE x # e
        BY <4>1, <4>3, <2>3, <2>4
      <4>4. QED
        BY <4>2, <4>3
    <3>2. QED
      BY <3>1 DEF RefsExact
  <2>6. lru \in Seq(Handles) /\ NoDuplicates(lru) /\ \A x \in Handles : Lists(x)
    BY ListsForm DEF IInv, TypeOK
  <2>7. /\ lru' \in Seq(Handles)
        /\ NoDuplicates(lru')
        /\ \A x \in Handles : OnList(lru', x) <=> OnList(lru, x) /\ x # e
        /\ in_use' = in_use \union {e}
    <3>1. CASE refs[e] = 1
      <4>1. lru' = RemoveFirst(lru, e) /\ in_use' = in_use \union {e}
        BY <1>2, <2>1, <3>1 DEF Lookup, Ref, MoveToInUse, e
      <4>2. QED
        BY <4>1, <2>1, <2>6, RemoveFacts
    <3>2. CASE refs[e] # 1
      <4>1. lru' = lru /\ in_use' = in_use
        BY <1>2, <3>2 DEF Lookup, Ref, e
      <4>2. e \in in_use /\ ~OnList(lru, e)
        BY <2>1, <2>2, <2>6, <3>2 DEF Lists
      <4>3. QED
        BY <4>1, <4>2, <2>6
    <3>3. QED
      BY <3>1, <3>2
  <2>8. ListsExact'
    <3>1. ASSUME NEW x \in Handles PROVE Lists(x)'
      BY <2>1, <2>2, <2>3, <2>4, <2>6, <2>7 DEF Lists
    <3>2. QED
      BY <2>7, <3>1 DEF ListsExact, NoDuplicates, OnList, Lists
  <2>9. TypeOK' /\ TableExact' /\ MethodsConsistent'
    BY <2>1, <2>3, <2>4, <2>7 DEF IInv, TypeOK, TableExact, Operating, MethodsConsistent
  <2>10. QED
    BY <2>5, <2>8, <2>9 DEF IInv
<1>3. QED
  BY <1>1, <1>2

LEMMA ReleaseKeeps == ASSUME IInv, NEW e \in Handles, Release(e) PROVE IInv'
<1> USE ConstantsAssumption
<1>1. /\ pc = "idle" /\ pins[e] > 0 /\ DropReference(e)
      /\ refs' = [refs EXCEPT ![e] = refs[e] - 1]
      /\ pins' = [pins EXCEPT ![e] = pins[e] - 1]
      /\ UNCHANGED <<capacity, in_cache, usage, table, pc, victim>>
  BY DEF Release, Unref, DropReference
<1>2. /\ refs[e] = pins[e] + (IF in_cache[e] THEN 1 ELSE 0)
      /\ refs[e] \in Nat /\ pins[e] \in Nat /\ refs[e] > 0 /\ e \in live
  BY <1>1 DEF IInv, TypeOK, RefsExact
<1>3. /\ refs' \in [Handles -> Nat]
      /\ pins' \in [Handles -> Nat]
      /\ \A x \in Handles : refs'[x] = IF x = e THEN refs[x] - 1 ELSE refs[x]
      /\ \A x \in Handles : pins'[x] = IF x = e THEN pins[x] - 1 ELSE pins[x]
  BY <1>1, <1>2 DEF IInv, TypeOK
<1>4. /\ live' \subseteq Handles
      /\ key' \in [Handles -> Keys \union {NoKey}]
      /\ charge' \in [Handles -> Nat]
      /\ \A x \in Handles : x \in live' <=> key'[x] \in Keys
      /\ \A x \in Handles : x # e => key'[x] = key[x] /\ (x \in live' <=> x \in live)
      /\ e \in live' <=> refs[e] # 1
  BY <1>1, <1>2, DropFacts DEF IInv
<1>5. RefsExact'
  <2>1. ASSUME NEW x \in Handles
        PROVE  /\ refs'[x] = pins'[x] + (IF in_cache'[x] THEN 1 ELSE 0)
               /\ x \in live' <=> refs'[x] > 0
    <3>1. /\ refs[x] = pins[x] + (IF in_cache[x] THEN 1 ELSE 0)
          /\ x \in live <=> refs[x] > 0
          /\ refs[x] \in Nat /\ pins[x] \in Nat
      BY DEF IInv, RefsExact, TypeOK
    <3>2. CASE x = e
      <4>1. refs'[x] = refs[x] - 1 /\ pins'[x] = pins[x] - 1 /\ in_cache'[x] = in_cache[x]
        BY <3>2, <1>1, <1>3
      <4>2. QED
        BY <4>1, <3>1, <3>2, <1>2, <1>4
    <3>3. CASE x # e
      BY <3>1, <3>3, <1>1, <1>3, <1>4
    <3>4. QED
      BY <3>2, <3>3
  <2>2. QED
    BY <2>1 DEF RefsExact
<1>6. lru \in Seq(Handles) /\ NoDuplicates(lru) /\ \A x \in Handles : Lists(x)
  BY ListsForm DEF IInv, TypeOK
<1>7. /\ lru' \in Seq(Handles)
      /\ NoDuplicates(lru')
      /\ in_use' \subseteq Handles
      /\ \A x \in Handles : Lists(x)'
  <2>1. CASE in_cache[e] /\ refs[e] = 2
    <3>1. lru' = Append(RemoveFirst(lru, e), e) /\ in_use' = in_use \ {e}
      BY <2>1 DEF Release, Unref, MoveToLru
    <3> DEFINE r == RemoveFirst(lru, e)
    <3>2. /\ r \in Seq(Handles) /\ NoDuplicates(r)
          /\ \A x \in Handles : OnList(r, x) <=> OnList(lru, x) /\ x # e
      BY <1>6, RemoveFacts
    <3> HIDE DEF r
    <3>3. /\ Append(r, e) \in Seq(Handles) /\ NoDuplicates(Append(r, e))
          /\ \A x \in Handles : OnList(Append(r, e), x) <=> OnList(r, x) \/ x = e
      BY <3>2, AppendFacts
    <3>4. lru' = Append(r, e)
      BY <3>1 DEF r
    <3>5. ASSUME NEW x \in Handles PROVE Lists(x)'
      <4>1. OnList(lru', x) <=> OnList(lru, x) \/ x = e
        BY <3>2, <3>3, <3>4
      <4>2. CASE x = e
        BY <4>1, <4>2, <3>1, <2>1, <1>1, <1>3 DEF Lists
      <4>3. CASE x # e
        BY <4>1, <4>3, <3>1, <1>1, <1>3, <1>6 DEF Lists
      <4>4. QED
        BY <4>2, <4>3
    <3>6. QED
      BY <3>1, <3>3, <3>4, <3>5 DEF IInv, TypeOK
  <2>2. CASE ~(in_cache[e] /\ refs[e] = 2)
    <3>1. lru' = lru /\ in_use' = in_use
      BY <2>2 DEF Release, Unref
    <3>2. ASSUME NEW x \in Handles PROVE Lists(x)'
      <4>1. CASE x = e
        <5>1. CASE in_cache[e]
          BY <5>1, <4>1, <3>1, <2>2, <1>1, <1>2, <1>3, <1>6 DEF Lists
        <5>2. CASE ~in_cache[e]
          BY <5>2, <4>1, <3>1, <1>1, <1>6 DEF Lists
        <5>3. QED
          BY <5>1, <5>2
      <4>2. CASE x # e
        BY <4>2, <3>1, <1>1, <1>3, <1>6 DEF Lists
      <4>3. QED
        BY <4>1, <4>2
    <3>3. QED
      BY <3>1, <3>2, <1>6 DEF IInv, TypeOK
  <2>3. QED
    BY <2>1, <2>2
<1>8. ListsExact'
  BY <1>7 DEF ListsExact, NoDuplicates, OnList, Lists
<1>9. TableExact'
  <2>1. in_cache[e] => refs[e] # 1
    BY <1>1, <1>2
  <2>2. \A x \in Handles : in_cache[x] => key'[x] = key[x]
    <3>1. refs[e] # 1 => key' = key
      BY DEF Release, Unref, DropReference
    <3>2. QED
      BY <2>1, <3>1, <1>4
  <2>3. QED
    BY <2>2, <1>1 DEF IInv, TableExact, Operating
<1>10. TypeOK' /\ MethodsConsistent'
  BY <1>1, <1>3, <1>4, <1>7 DEF IInv, TypeOK, MethodsConsistent
<1>11. QED
  BY <1>5, <1>8, <1>9, <1>10 DEF IInv

LEMMA InsertLinkKeeps ==
  ASSUME IInv, NEW k \in Keys, NEW c \in Charges, NEW e \in Handles, InsertLink(k, c, e)
  PROVE  IInv'
<1> USE ConstantsAssumption
<1>1. /\ pc = "idle" /\ e \notin live
      /\ live' = live \union {e}
      /\ key' = [key EXCEPT ![e] = k]
      /\ charge' = [charge EXCEPT ![e] = c]
      /\ pins' = [pins EXCEPT ![e] = 1]
      /\ UNCHANGED <<capacity, lru>>
  BY DEF InsertLink
<1>2. /\ refs[e] = 0 /\ pins[e] = 0 /\ ~in_cache[e] /\ victim = NoHandle
      /\ ~OnList(lru, e) /\ e \notin in_use
      /\ \A j \in Keys : table[j] # e
  <2>1. refs[e] \in Nat /\ pins[e] \in Nat
    BY DEF IInv, TypeOK
  <2>2. refs[e] = pins[e] + (IF in_cache[e] THEN 1 ELSE 0) /\ ~(refs[e] > 0)
    BY <1>1 DEF IInv, RefsExact
  <2>3. refs[e] = 0 /\ pins[e] = 0 /\ ~in_cache[e]
    BY <2>1, <2>2
  <2>4. victim = NoHandle
    BY <1>1 DEF IInv, MethodsConsistent
  <2>5. ~OnList(lru, e) /\ e \notin in_use
    BY <2>3, ListsForm DEF IInv, Lists
  <2>6. \A j \in Keys : table[j] # e
    BY <2>3, <1>1 DEF IInv, TableExact, Operating
  <2>7. QED
    BY <2>3, <2>4, <2>5, <2>6
<1>3. /\ key' \in [Handles -> Keys \union {NoKey}]
      /\ charge' \in [Handles -> Nat]
      /\ pins' \in [Handles -> Nat]
      /\ \A x \in Handles : key'[x] = IF x = e THEN k ELSE key[x]
      /\ \A x \in Handles : pins'[x] = IF x = e THEN 1 ELSE pins[x]
      /\ \A x \in Handles : x \in live' <=> key'[x] \in Keys
  BY <1>1 DEF IInv, TypeOK
<1>4. CASE CachingOn
  <2>1. /\ refs' = [refs EXCEPT ![e] = 2]
        /\ in_cache' = [in_cache EXCEPT ![e] = TRUE]
        /\ in_use' = in_use \union {e}
        /\ usage' = usage + c
        /\ table' = [table EXCEPT ![k] = e]
        /\ victim' = table[k]
        /\ pc' = IF table[k] = NoHandle THEN "evict" ELSE "replace"
    BY <1>4 DEF InsertLink
  <2>2. /\ refs' \in [Handles -> Nat]
        /\ in_cache' \in [Handles -> BOOLEAN]
        /\ usage' \in Int
        /\ table' \in [Keys -> Handles \union {NoHandle}]
        /\ victim' \in Handles \union {NoHandle}
        /\ \A x \in Handles : refs'[x] = IF x = e THEN 2 ELSE refs[x]
        /\ \A x \in Handles : in_cache'[x] <=> in_cache[x] \/ x = e
        /\ \A j \in Keys : table'[j] = IF j = k THEN e ELSE table[j]
    BY <2>1 DEF IInv, TypeOK
  <2>3. TypeOK'
    <3>1. /\ capacity' \in Capacities /\ live' \subseteq Handles
          /\ lru' \in Seq(Handles) /\ in_use' \subseteq Handles
      BY <1>1, <2>1 DEF IInv, TypeOK
    <3>2. pc' \in {"evict", "replace"}
      BY <2>1
    <3>3. QED
      BY <1>3, <2>2, <3>1, <3>2 DEF TypeOK
  <2>4. RefsExact'
    <3>1. ASSUME NEW x \in Handles
          PROVE  /\ refs'[x] = pins'[x] + (IF in_cache'[x] THEN 1 ELSE 0)
                 /\ x \in live' <=> refs'[x] > 0
      <4>1. CASE x = e
        BY <4>1, <1>1, <1>3, <2>2
      <4>2. CASE x # e
        BY <4>2, <1>1, <1>3, <2>2 DEF IInv, RefsExact
      <4>3. QED
        BY <4>1, <4>2
    <3>2. QED
      BY <3>1 DEF RefsExact
  <2>5. ListsExact'
    <3>1. NoDuplicates(lru) /\ \A x \in Handles : Lists(x)
      BY ListsForm DEF IInv
    <3>2. ASSUME NEW x \in Handles PROVE Lists(x)'
      <4>1. CASE x = e
        BY <4>1, <1>1, <1>2, <2>1, <2>2 DEF Lists, OnList
      <4>2. CASE x # e
        BY <4>2, <3>1, <1>1, <2>1, <2>2 DEF Lists, OnList
      <4>3. QED
        BY <4>1, <4>2
    <3>3. QED
      BY <3>1, <3>2, <1>1 DEF ListsExact, NoDuplicates, OnList, Lists
  <2>6. TableExact'
    <3>1. \A j \in Keys, x \in Handles : table[j] = x <=> in_cache[x] /\ key[x] = j
      BY <1>1, <1>2 DEF IInv, TableExact, Operating
    <3>2. ASSUME NEW j \in Keys, NEW x \in Handles
          PROVE  table'[j] = x <=> in_cache'[x] /\ key'[x] = j /\ x # victim'
      <4>1. CASE x = e
        BY <4>1, <3>1, <1>2, <1>3, <2>1, <2>2
      <4>2. CASE x # e /\ j = k
        BY <4>2, <3>1, <1>3, <2>1, <2>2
      <4>3. CASE x # e /\ j # k
        BY <4>3, <3>1, <1>3, <2>1, <2>2
      <4>4. QED
        BY <4>1, <4>2, <4>3
    <3>3. QED
      BY <3>2 DEF TableExact
  <2>7. MethodsConsistent'
    <3>1. table[k] # NoHandle => in_cache'[table[k]]
      BY <1>1, <2>2 DEF IInv, TypeOK, TableExact, Operating
    <3>2. pc' \in {"evict", "replace"} /\ (pc' = "replace" <=> victim' # NoHandle)
      BY <2>1
    <3>3. QED
      BY <3>1, <3>2, <2>1 DEF MethodsConsistent
  <2>8. QED
    BY <2>3, <2>4, <2>5, <2>6, <2>7 DEF IInv
<1>5. CASE ~CachingOn
  <2>1. /\ refs' = [refs EXCEPT ![e] = 1]
        /\ pc' = "evict"
        /\ UNCHANGED <<in_cache, in_use, usage, table, victim>>
    BY <1>5 DEF InsertLink
  <2>2. /\ refs' \in [Handles -> Nat]
        /\ \A x \in Handles : refs'[x] = IF x = e THEN 1 ELSE refs[x]
    BY <2>1 DEF IInv, TypeOK
  <2>3. TypeOK'
    BY <1>1, <1>3, <2>1, <2>2 DEF IInv, TypeOK
  <2>4. RefsExact'
    <3>1. ASSUME NEW x \in Handles
          PROVE  /\ refs'[x] = pins'[x] + (IF in_cache'[x] THEN 1 ELSE 0)
                 /\ x \in live' <=> refs'[x] > 0
      <4>1. CASE x = e
        BY <4>1, <1>1, <1>2, <1>3, <2>1, <2>2
      <4>2. CASE x # e
        BY <4>2, <1>1, <1>3, <2>1, <2>2 DEF IInv, RefsExact
      <4>3. QED
        BY <4>1, <4>2
    <3>2. QED
      BY <3>1 DEF RefsExact
  <2>5. ListsExact'
    <3>1. NoDuplicates(lru) /\ \A x \in Handles : Lists(x)
      BY ListsForm DEF IInv
    <3>2. ASSUME NEW x \in Handles PROVE Lists(x)'
      <4>1. CASE x = e
        BY <4>1, <1>1, <1>2, <2>1 DEF Lists, OnList
      <4>2. CASE x # e
        BY <4>2, <3>1, <1>1, <2>1, <2>2 DEF Lists, OnList
      <4>3. QED
        BY <4>1, <4>2
    <3>3. QED
      BY <3>1, <3>2, <1>1 DEF ListsExact, NoDuplicates, OnList, Lists
  <2>6. TableExact'
    BY <1>1, <1>2, <1>3, <2>1 DEF IInv, TableExact, Operating
  <2>7. MethodsConsistent'
    BY <1>1, <1>2, <2>1 DEF IInv, MethodsConsistent
  <2>8. QED
    BY <2>3, <2>4, <2>5, <2>6, <2>7 DEF IInv
<1>6. QED
  BY <1>4, <1>5

LEMMA InsertReplaceKeeps == ASSUME IInv, InsertReplace PROVE IInv'
<1> USE ConstantsAssumption
<1>1. /\ pc = "replace" /\ pc' = "evict" /\ FinishErase(victim) /\ victim' = NoHandle
      /\ UNCHANGED <<capacity, table, pins>>
  BY DEF InsertReplace
<1>2. victim \in Handles /\ in_cache[victim]
  BY <1>1 DEF IInv, MethodsConsistent, TypeOK
<1>3. TypeOK'
  BY <1>1, <1>2, ErasingKeeps DEF IInv, TypeOK
<1>4. RefsExact' /\ ListsExact'
  BY <1>1, <1>2, ErasingKeeps DEF IInv
<1>5. /\ \A x \in Handles : in_cache'[x] <=> in_cache[x] /\ x # victim
      /\ \A x \in Handles : in_cache'[x] => key'[x] = key[x]
  BY <1>1, <1>2, ErasingKeeps DEF IInv
<1>6. TableExact'
  <2>1. \A k \in Keys, x \in Handles : table[k] = x <=> in_cache[x] /\ key[x] = k /\ x # victim
    BY <1>1 DEF IInv, TableExact, Operating
  <2>2. ASSUME NEW k \in Keys, NEW x \in Handles
        PROVE  table'[k] = x <=> in_cache'[x] /\ key'[x] = k /\ x # victim'
    BY <2>1, <1>1, <1>5
  <2>3. QED
    BY <2>2 DEF TableExact
<1>7. MethodsConsistent'
  BY <1>1 DEF MethodsConsistent
<1>8. QED
  BY <1>3, <1>4, <1>6, <1>7 DEF IInv

LEMMA OldestIsUnpinned ==
  ASSUME IInv, lru # << >>
  PROVE  /\ Head(lru) \in Handles
         /\ in_cache[Head(lru)] /\ refs[Head(lru)] = 1 /\ pins[Head(lru)] = 0
         /\ Head(lru) \in live
<1>1. lru \in Seq(Handles) /\ NoDuplicates(lru) /\ \A x \in Handles : Lists(x)
  BY ListsForm DEF IInv, TypeOK
<1>2. Head(lru) \in Handles /\ OnList(lru, Head(lru))
  BY <1>1, TailFacts
<1>3. in_cache[Head(lru)] /\ refs[Head(lru)] = 1
  BY <1>1, <1>2 DEF Lists
<1>4. pins[Head(lru)] \in Nat /\ refs[Head(lru)] = pins[Head(lru)] + 1 /\ Head(lru) \in live
  BY <1>2, <1>3 DEF IInv, RefsExact, TypeOK
<1>5. QED
  BY <1>2, <1>3, <1>4

LEMMA OnlyPcKeeps ==
  ASSUME IInv, UNCHANGED <<capacity, live, key, charge, refs, in_cache, lru, in_use,
                           usage, table, victim, pins>>,
         pc \in {"idle", "evict", "prune"},
         \/ pc' \in {"idle", "prune", "aborted"}
         \/ pc' = "destroy" /\ in_use = {}
  PROVE  IInv'
  BY DEF IInv, TypeOK, RefsExact, ListsExact, TableExact, Operating, MethodsConsistent

LEMMA LoopsKeep == ASSUME IInv, EvictStep \/ PruneStep PROVE IInv'
<1>1. CASE EvictStep
  <2>1. CASE OverCapacity /\ lru # << >>
    BY <1>1, <2>1, OldestIsUnpinned, EraseEntryKeeps DEF EvictStep
  <2>2. CASE ~(OverCapacity /\ lru # << >>)
    BY <1>1, <2>2, OnlyPcKeeps DEF EvictStep
  <2>3. QED
    BY <2>1, <2>2
<1>2. CASE PruneStep
  <2>1. CASE lru # << >>
    BY <1>2, <2>1, OldestIsUnpinned, EraseEntryKeeps DEF PruneStep
  <2>2. CASE lru = << >>
    BY <1>2, <2>2, OnlyPcKeeps DEF PruneStep
  <2>3. QED
    BY <2>1, <2>2
<1>3. QED
  BY <1>1, <1>2

LEMMA EraseKeeps == ASSUME IInv, NEW k \in Keys, Erase(k) PROVE IInv'
<1>1. table[k] \in Handles /\ in_cache[table[k]] /\ pc = "idle" /\ pc' = pc
  BY ConstantsAssumption DEF Erase, IInv, TypeOK, TableExact, Operating
<1>2. EraseEntry(table[k])
  BY DEF Erase
<1>3. QED
  BY <1>1, <1>2, EraseEntryKeeps

LEMMA DestroyStepKeeps == ASSUME IInv, DestroyStep PROVE IInv'
<1> USE ConstantsAssumption
<1>1. pc = "destroy" /\ in_use = {} /\ UNCHANGED <<capacity, in_use, usage, table, victim, pins>>
  BY DEF DestroyStep, IInv, MethodsConsistent
<1>v. victim = NoHandle
  BY <1>1 DEF IInv, MethodsConsistent
<1>2. CASE lru = << >>
  BY <1>1, <1>2 DEF DestroyStep, IInv, TypeOK, RefsExact, ListsExact, TableExact, Operating, MethodsConsistent
<1>3. CASE lru # << >>
  <2> DEFINE e == Head(lru)
  <2>1. e \in Handles /\ in_cache[e] /\ refs[e] = 1 /\ pins[e] = 0 /\ e \in live
    BY <1>3, OldestIsUnpinned
  <2>2. /\ in_cache' = [in_cache EXCEPT ![e] = FALSE]
        /\ DropReference(e)
        /\ refs' = [refs EXCEPT ![e] = refs[e] - 1]
        /\ lru' = Tail(lru)
        /\ pc' = "destroy"
    BY <1>3 DEF DestroyStep, DropReference
  <2>3. lru \in Seq(Handles) /\ NoDuplicates(lru) /\ \A x \in Handles : Lists(x)
    BY ListsForm DEF IInv, TypeOK
  <2>4. /\ lru' \in Seq(Handles) /\ NoDuplicates(lru')
        /\ \A x \in Handles : OnList(lru', x) <=> OnList(lru, x) /\ x # e
    BY <2>2, <2>3, <1>3, TailFacts
  <2> HIDE DEF e
  <2>5. /\ refs' \in [Handles -> Nat]
        /\ in_cache' \in [Handles -> BOOLEAN]
        /\ \A x \in Handles : refs'[x] = IF x = e THEN 0 ELSE refs[x]
        /\ \A x \in Handles : in_cache'[x] <=> in_cache[x] /\ x # e
    BY <2>1, <2>2 DEF IInv, TypeOK
  <2>6. /\ live' \subseteq Handles
        /\ key' \in [Handles -> Keys \union {NoKey}]
        /\ charge' \in [Handles -> Nat]
        /\ \A x \in Handles : x \in live' <=> key'[x] \in Keys
        /\ \A x \in Handles : x # e => (x \in live' <=> x \in live)
        /\ e \notin live'
    BY <2>1, <2>2, DropFacts DEF IInv
  <2>7. RefsExact'
    <3>1. ASSUME NEW x \in Handles
          PROVE  /\ refs'[x] = pins'[x] + (IF in_cache'[x] THEN 1 ELSE 0)
                 /\ x \in live' <=> refs'[x] > 0
      <4>1. CASE x = e
        BY <4>1, <1>1, <2>1, <2>5, <2>6
      <4>2. CASE x # e
        BY <4>2, <1>1, <2>5, <2>6 DEF IInv, RefsExact
      <4>3. QED
        BY <4>1, <4>2
    <3>2. QED
      BY <3>1 DEF RefsExact
  <2>8. ASSUME NEW x \in Handles PROVE Lists(x)'
    <3>0. Lists(x) /\ refs[x] \in Nat
      BY <2>3 DEF IInv, TypeOK
    <3>1. x \notin in_use'
      BY <1>1
    <3>2. CASE x = e
      <4>1. ~OnList(lru', x) /\ ~in_cache'[x]
        BY <3>2, <2>4, <2>5
      <4>2. QED
        BY <4>1, <3>1 DEF Lists
    <3>3. CASE x # e
      <4>1. (OnList(lru', x) <=> OnList(lru, x)) /\ (in_cache'[x] <=> in_cache[x])
            /\ refs'[x] = refs[x]
        BY <3>3, <2>4, <2>5
      <4>2. ~(in_cache[x] /\ refs[x] > 1)
        BY <1>1, <3>0 DEF Lists
      <4>3. QED
        BY <3>0, <3>1, <4>1, <4>2 DEF Lists
    <3>4. QED
      BY <3>2, <3>3
  <2>9. ListsExact'
    BY <2>4, <2>8 DEF ListsExact, NoDuplicates, OnList, Lists
  <2>10. TypeOK' /\ TableExact' /\ MethodsConsistent'
    <3>1. TypeOK'
      BY <1>1, <2>2, <2>4, <2>5, <2>6 DEF IInv, TypeOK
    <3>2. TableExact' /\ MethodsConsistent'
      BY <1>1, <1>v, <2>2 DEF IInv, TableExact, Operating, MethodsConsistent
    <3>3. QED
      BY <3>1, <3>2
  <2>11. QED
    BY <2>7, <2>9, <2>10 DEF IInv
<1>4. QED
  BY <1>2, <1>3

LEMMA Inductive == IInv /\ [Next]_vars => IInv'
<1> SUFFICES ASSUME IInv, [Next]_vars PROVE IInv'
  OBVIOUS
<1>1. ASSUME NEW k \in Keys, Lookup(k) PROVE IInv'
  BY <1>1, LookupKeeps
<1>2. ASSUME NEW e \in Handles, Release(e) PROVE IInv'
  BY <1>2, ReleaseKeeps
<1>3. ASSUME NEW k \in Keys, NEW c \in Charges, NEW e \in Handles, InsertLink(k, c, e) PROVE IInv'
  BY <1>3, InsertLinkKeeps
<1>4. CASE InsertReplace
  BY <1>4, InsertReplaceKeeps
<1>5. CASE EvictStep \/ PruneStep
  BY <1>5, LoopsKeep
<1>6. ASSUME NEW k \in Keys, Erase(k) PROVE IInv'
  BY <1>6, EraseKeeps
<1>7. CASE Prune \/ Destroy
  BY <1>7, OnlyPcKeeps DEF Prune, Destroy
<1>8. CASE DestroyStep
  BY <1>8, DestroyStepKeeps
<1>9. CASE Stopped \/ UNCHANGED vars
  <2>1. UNCHANGED vars
    BY <1>9 DEF Stopped
  <2>2. TypeOK' /\ MethodsConsistent'
    BY <2>1 DEF vars, IInv, TypeOK, MethodsConsistent
  <2>3. RefsExact'
    BY <2>1 DEF vars, IInv, RefsExact
  <2>4. ListsExact'
    BY <2>1 DEF vars, IInv, ListsExact
  <2>5. TableExact'
    BY <2>1 DEF vars, IInv, TableExact, Operating
  <2>6. QED
    BY <2>2, <2>3, <2>4, <2>5 DEF IInv
<1>10. QED
  BY <1>1, <1>2, <1>3, <1>4, <1>5, <1>6, <1>7, <1>8, <1>9 DEF Next

LEMMA Initially == Init => IInv
<1> SUFFICES ASSUME Init PROVE IInv
  OBVIOUS
<1> USE ConstantsAssumption DEF Init
<1>1. TypeOK
  <2>1. << >> \in Seq(Handles)
    OBVIOUS
  <2>2. QED
    BY <2>1 DEF TypeOK
<1>2. RefsExact
  BY DEF RefsExact
<1>3. ListsExact
  BY DEF ListsExact
<1>4. TableExact
  BY DEF TableExact, Operating
<1>5. MethodsConsistent
  BY DEF MethodsConsistent
<1>6. QED
  BY <1>1, <1>2, <1>3, <1>4, <1>5 DEF IInv

LEMMA Invariance == Spec => []IInv
  BY Initially, Inductive, PTL DEF Spec

-----------------------------------------------------------------------------
\* The entries of the cache are finitely many, and their charges are naturals.
LEMMA CachedFinite ==
  ASSUME TypeOK
  PROVE  /\ IsFiniteSet(Cached) /\ Cached \subseteq Handles
         /\ \A x \in Cached : charge[x] \in Nat
<1>1. Cached \subseteq Handles
  BY DEF Cached
<1>2. IsFiniteSet(Cached)
  BY <1>1, ConstantsAssumption, FS_Subset
<1> QED BY <1>1, <1>2 DEF TypeOK

\* UsageIsSum about the entries that are cached before and after a step.
LEMMA UsageForm ==
  /\ UsageIsSum <=> (Operating => usage = Total(charge, Cached))
  /\ UsageIsSum' <=> (Operating' => usage' = Total(charge', Cached'))
<1>1. UsageIsSum <=> (Operating => usage = Total(charge, Cached))
  BY DEF UsageIsSum, Total, MapThenSumSet, MapThenFoldSet
<1>2. UsageIsSum' <=> (Operating' => usage' = Total(charge', Cached'))
  BY DEF UsageIsSum, Total, MapThenSumSet, MapThenFoldSet
<1> QED BY <1>1, <1>2

\* A step that neither caches nor uncaches an entry.
LEMMA SameUsage ==
  ASSUME TypeOK, UsageIsSum, UNCHANGED <<usage, in_cache>>, Operating' => Operating,
         \A x \in Handles : in_cache[x] => charge'[x] = charge[x]
  PROVE  UsageIsSum'
<1>1. Cached' = Cached /\ \A x \in Cached : charge'[x] = charge[x]
  BY DEF Cached
<1>2. Total(charge', Cached) = Total(charge, Cached)
  BY <1>1, CachedFinite, TotalAgrees
<1> QED BY <1>1, <1>2, UsageForm

\* FinishErase takes the charge of the entry it uncaches off usage_, also when the
\* entry is freed and its charge with it.
LEMMA ErasedUsage ==
  ASSUME TypeOK, UsageIsSum, Operating, NEW e \in Handles, in_cache[e], FinishErase(e)
  PROVE  UsageIsSum'
<1>1. e \in Cached /\ Cached' = Cached \ {e}
  BY DEF FinishErase, Cached, TypeOK
<1>2. \A x \in Cached \ {e} : charge'[x] = charge[x]
  BY DEF FinishErase, DropReference, Cached, TypeOK
<1>3. IsFiniteSet(Cached \ {e})
  BY CachedFinite, FS_RemoveElement
<1>4. Total(charge', Cached') = Total(charge, Cached \ {e})
  BY <1>1, <1>2, <1>3, TotalAgrees
<1>5. Total(charge, Cached) = charge[e] + Total(charge, Cached \ {e})
  BY <1>1, CachedFinite, TotalWithout
<1>6. usage = Total(charge, Cached) /\ usage' = usage - charge[e]
  BY UsageForm DEF FinishErase
<1>7. charge[e] \in Nat /\ Total(charge, Cached \ {e}) \in Nat
  BY <1>1, <1>3, CachedFinite, TotalWithout
<1> QED BY <1>4, <1>5, <1>6, <1>7, UsageForm

\* Insert adds the charge of the entry it caches.
LEMMA InsertedUsage ==
  ASSUME IInv, UsageIsSum, NEW k \in Keys, NEW c \in Charges, NEW e \in Handles, InsertLink(k, c, e)
  PROVE  UsageIsSum'
<1>t. TypeOK /\ c \in Nat /\ Operating
  BY ConstantsAssumption DEF IInv, InsertLink, Operating
<1>n. e \notin live /\ ~in_cache[e]
  BY DEF IInv, InsertLink, RefsExact, TypeOK
<1>1. charge'[e] = c /\ \A x \in Handles : x # e => charge'[x] = charge[x]
  BY <1>t DEF InsertLink, TypeOK
<1>2. CASE CachingOn
  <2>1. Cached' = Cached \union {e} /\ e \notin Cached /\ usage' = usage + c
    BY <1>n, <1>t, <1>2 DEF InsertLink, Cached, TypeOK
  <2>2. Cached' \ {e} = Cached /\ e \in Cached'
    BY <2>1
  <2>3. IsFiniteSet(Cached')
    BY <1>t, <2>1, CachedFinite, FS_AddElement
  <2>4. \A x \in Cached' : charge'[x] \in Nat
    BY <1>t, <1>1, <2>1, CachedFinite
  <2>5. \A x \in Cached : charge'[x] = charge[x]
    BY <1>1, <2>1 DEF Cached
  <2>6. Total(charge', Cached') = c + Total(charge', Cached)
    BY <1>1, <2>2, <2>3, <2>4, TotalWithout
  <2>7. Total(charge', Cached) = Total(charge, Cached) /\ Total(charge, Cached) \in Nat
    BY <1>t, <2>5, CachedFinite, TotalAgrees, TotalWithout
  <2>8. usage = Total(charge, Cached)
    BY <1>t, UsageForm
  <2> QED BY <1>t, <2>1, <2>6, <2>7, <2>8, UsageForm
<1>3. CASE ~CachingOn
  <2>1. UNCHANGED <<usage, in_cache>>
    BY <1>3 DEF InsertLink
  <2>2. \A x \in Handles : in_cache[x] => charge'[x] = charge[x]
    BY <1>1, <1>n
  <2> QED BY <1>t, <2>1, <2>2, SameUsage
<1> QED BY <1>2, <1>3

LEMMA UsageKept == IInv /\ UsageIsSum /\ [Next]_vars => UsageIsSum'
<1> SUFFICES ASSUME IInv, UsageIsSum, [Next]_vars PROVE UsageIsSum'
  OBVIOUS
<1>t. TypeOK
  BY DEF IInv
<1>1. ASSUME NEW k \in Keys, Lookup(k) PROVE UsageIsSum'
  BY <1>t, <1>1, SameUsage DEF Lookup, Operating
<1>2. ASSUME NEW e \in Handles, Release(e) PROVE UsageIsSum'
  <2>1. UNCHANGED <<usage, in_cache>> /\ (Operating' => Operating)
    BY <1>2 DEF Release, Operating
  <2>2. \A x \in Handles : in_cache[x] => charge'[x] = charge[x]
    <3>1. refs[e] = 1 => ~in_cache[e]
      BY <1>2, <1>t DEF IInv, Release, RefsExact, TypeOK
    <3> QED BY <1>2, <1>t, <3>1 DEF Release, Unref, DropReference, TypeOK
  <2> QED BY <1>t, <2>1, <2>2, SameUsage
<1>3. ASSUME NEW k \in Keys, NEW c \in Charges, NEW e \in Handles, InsertLink(k, c, e) PROVE UsageIsSum'
  BY <1>3, InsertedUsage
<1>4. CASE InsertReplace
  <2>1. victim \in Handles /\ in_cache[victim] /\ FinishErase(victim) /\ Operating
    BY <1>4, <1>t DEF IInv, InsertReplace, MethodsConsistent, Operating, TypeOK
  <2> QED BY <1>t, <2>1, ErasedUsage
<1>5. CASE EvictStep \/ PruneStep
  <2>1. Operating
    BY <1>5 DEF EvictStep, PruneStep, Operating
  <2>2. CASE lru # << >> /\ EraseEntry(Head(lru))
    <3>1. Head(lru) \in Handles /\ in_cache[Head(lru)]
      BY <2>2, OldestIsUnpinned
    <3> QED BY <1>t, <2>1, <2>2, <3>1, ErasedUsage DEF EraseEntry
  <2>3. CASE UNCHANGED <<usage, in_cache, charge>>
    BY <1>t, <2>1, <2>3, SameUsage
  <2> QED BY <1>5, <2>2, <2>3 DEF EvictStep, PruneStep
<1>6. ASSUME NEW k \in Keys, Erase(k) PROVE UsageIsSum'
  <2>1. table[k] \in Handles /\ Operating /\ FinishErase(table[k])
    BY <1>6, <1>t DEF Erase, EraseEntry, Operating, TypeOK
  <2>2. in_cache[table[k]]
    BY <2>1 DEF IInv, TableExact
  <2> QED BY <1>t, <2>1, <2>2, ErasedUsage
<1>7. CASE Prune \/ Destroy
  <2>1. UNCHANGED <<usage, in_cache, charge>> /\ Operating
    BY <1>7 DEF Prune, Destroy, Operating
  <2> QED BY <1>t, <2>1, SameUsage
<1>8. CASE DestroyStep
  <2>1. ~Operating'
    BY <1>8 DEF DestroyStep, Operating
  <2> QED BY <2>1 DEF UsageIsSum
<1>9. CASE Stopped \/ UNCHANGED vars
  <2>1. UNCHANGED <<usage, in_cache, charge, pc>>
    BY <1>9 DEF Stopped, vars
  <2> QED BY <1>t, <2>1, SameUsage DEF Operating
<1> QED BY <1>1, <1>2, <1>3, <1>4, <1>5, <1>6, <1>7, <1>8, <1>9 DEF Next

-----------------------------------------------------------------------------
\* The state of a shard is well typed in every behaviour.
THEOREM TypeCorrect == Spec => []TypeOK
<1>1. IInv => TypeOK
  BY DEF IInv
<1>2. QED
  BY Invariance, <1>1, PTL

\* Reference counts are exact: nothing is freed under a client, nothing leaks.
THEOREM ReferenceCounting == Spec => []RefsExact
<1>1. IInv => RefsExact
  BY DEF IInv
<1>2. QED
  BY Invariance, <1>1, PTL

\* lru_ and in_use_ divide the cached entries as their comments say.
THEOREM ListsDivideEntries == Spec => []ListsExact
<1>1. IInv => ListsExact
  BY DEF IInv
<1>2. QED
  BY Invariance, <1>1, PTL

\* The table holds exactly the cached entries.
THEOREM TableHoldsCached == Spec => []TableExact
<1>1. IInv => TableExact
  BY DEF IInv
<1>2. QED
  BY Invariance, <1>1, PTL

\* No pointer a client, a list or the table holds is dangling.
THEOREM NoUseAfterFree == Spec => []NoDanglingPointer
<1>1. IInv => NoDanglingPointer
  <2> SUFFICES ASSUME IInv, NEW e \in Handles,
                      \/ pins[e] > 0
                      \/ e \in in_use \/ e = victim \/ OnList(lru, e)
                      \/ Operating /\ \E k \in Keys : table[k] = e
               PROVE  e \in live
    BY DEF NoDanglingPointer, OnList
  <2> USE ConstantsAssumption
  <2>1. pins[e] \in Nat /\ refs[e] = pins[e] + (IF in_cache[e] THEN 1 ELSE 0)
    BY DEF IInv, TypeOK, RefsExact
  <2>2. pins[e] > 0 \/ in_cache[e]
    <3>1. \A x \in Handles : Lists(x)
      BY ListsForm DEF IInv
    <3>2. QED
      BY <3>1 DEF IInv, Lists, MethodsConsistent, TableExact
  <2>3. refs[e] > 0
    BY <2>1, <2>2
  <2>4. QED
    BY <2>3 DEF IInv, RefsExact
<1>2. QED
  BY Invariance, <1>1, PTL

\* The destructor frees every entry that no client pins.
THEOREM DestructorFrees == Spec => []DestroyFreesAll
<1>1. IInv => DestroyFreesAll
  <2> SUFFICES ASSUME IInv, pc = "dead", NEW e \in live PROVE pins[e] > 0
    BY DEF DestroyFreesAll
  <2>1. e \in Handles /\ lru = << >> /\ in_use = {}
    BY DEF IInv, TypeOK, MethodsConsistent
  <2>2. ~OnList(lru, e) /\ Lists(e)
    BY <2>1, ListsForm DEF IInv, OnList
  <2>3. /\ refs[e] \in Nat /\ pins[e] \in Nat /\ refs[e] > 0
        /\ refs[e] = pins[e] + (IF in_cache[e] THEN 1 ELSE 0)
    BY <2>1 DEF IInv, TypeOK, RefsExact
  <2>4. ~in_cache[e]
    BY <2>1, <2>2, <2>3 DEF Lists
  <2>5. QED
    BY <2>3, <2>4
<1>2. QED
  BY Invariance, <1>1, PTL

\* Eviction and Prune leave pinned entries in the cache.
THEOREM EvictionSparesPinned == Spec => PinnedEntriesStay
<1>1. ASSUME IInv, [Next]_vars, pc = "evict" \/ pc = "prune",
             NEW k \in Keys, table[k] # NoHandle, pins[table[k]] > 0
      PROVE  table'[k] = table[k]
  <2>1. CASE UNCHANGED table
    BY <2>1
  <2>2. CASE lru # << >> /\ EraseEntry(Head(lru))
    <3>1. /\ Head(lru) \in Handles /\ in_cache[Head(lru)] /\ pins[Head(lru)] = 0
          /\ Head(lru) \in live
      BY <1>1, <2>2, OldestIsUnpinned
    <3>2. table[k] \in Handles /\ table[k] # Head(lru) /\ victim = NoHandle
      BY <1>1, <3>1 DEF IInv, TypeOK, MethodsConsistent
    <3>3. table[key[Head(lru)]] = Head(lru) /\ key[Head(lru)] \in Keys
      BY <1>1, <3>1, <3>2, ConstantsAssumption DEF IInv, TableExact, Operating, TypeOK
    <3>4. key[Head(lru)] # k
      BY <3>2, <3>3
    <3>5. QED
      BY <2>2, <3>3, <3>4, <1>1 DEF EraseEntry, IInv, TypeOK
  <2>3. QED
    BY <1>1, <2>1, <2>2
       DEF Next, Lookup, Release, InsertLink, InsertReplace, EvictStep, Erase, Prune,
           PruneStep, Destroy, DestroyStep, Stopped, vars
<1>2. IInv /\ [Next]_vars
        => [ (pc = "evict" \/ pc = "prune") =>
               \A k \in Keys : table[k] # NoHandle /\ pins[table[k]] > 0
                                 => table'[k] = table[k] ]_vars
  BY <1>1
<1>3. QED
  BY Invariance, <1>2, PTL DEF Spec, PinnedEntriesStay

\* usage_ is the sum of the charges of the cached entries, for any entries and
\* charges: it never drifts, so Insert's loop evicts exactly when the cached
\* entries exceed the capacity.
THEOREM UsageNeverDrifts == Spec => []UsageIsSum
<1>1. Init => UsageIsSum
  <2> SUFFICES ASSUME Init PROVE usage = Total(charge, Cached)
    BY UsageForm
  <2>1. Cached = {} /\ usage = 0
    BY DEF Init, Cached
  <2>2. Total(charge, {}) = 0
    BY FS_EmptySet, TotalRecursion
  <2> QED BY <2>1, <2>2
<1> QED BY <1>1, UsageKept, Invariance, PTL DEF Spec

-----------------------------------------------------------------------------
(***************************************************************************)
(* The shard implements LRUShard.  Each lemma ...Refines shows that one    *)
(* action of the code is one step of LRUShard, or changes nothing there.   *)
(***************************************************************************)
\* The keys of a list of entries.
Keyed(f, s) == [i \in 1..Len(s) |-> f[s[i]]]

\* The list of keys is as long as the list.
LEMMA KeyedFacts ==
  ASSUME NEW s \in Seq(Handles), NEW f, NEW X, \A i \in 1..Len(s) : f[s[i]] \in X
  PROVE  /\ Keyed(f, s) \in Seq(X) /\ Len(Keyed(f, s)) = Len(s)
         /\ \A i \in 1..Len(s) : Keyed(f, s)[i] = f[s[i]]
BY DEF Keyed

\* Taking an entry out of the list takes its key out of the keys, as entries on
\* the list have different keys.
LEMMA KeyedRemove ==
  ASSUME NEW s \in Seq(Handles), NoDuplicates(s), NEW f, NEW X,
         \A i \in 1..Len(s) : f[s[i]] \in X,
         \A i, j \in 1..Len(s) : f[s[i]] = f[s[j]] => i = j,
         NEW e, OnList(s, e)
  PROVE  RemoveFirst(Keyed(f, s), f[e]) = Keyed(f, RemoveFirst(s, e))
<1>1. PICK j \in 1..Len(s) : e = s[j]
  BY DEF OnList
<1> DEFINE t == Keyed(f, s)
           r == RemoveFirst(s, e)
           u == RemoveFirst(t, f[e])
<1>2. /\ t \in Seq(X) /\ Len(t) = Len(s) /\ Len(s) \in Nat
      /\ \A i \in 1..Len(s) : t[i] = f[s[i]]
  <2>1. Len(s) \in Nat
    OBVIOUS
  <2> QED BY <2>1, KeyedFacts
<1>3. /\ r \in Seq(Handles) /\ Len(r) = Len(s) - 1
      /\ \A i \in 1..(Len(s) - 1) : r[i] = IF i < j THEN s[i] ELSE s[i + 1]
  BY <1>1, RemoveIndex
<1> HIDE DEF t, r
<1>4. NoDuplicates(t)
  BY <1>2 DEF NoDuplicates
<1>5. j \in 1..Len(t) /\ f[e] = t[j]
  BY <1>1, <1>2
<1>6. /\ u \in Seq(X) /\ Len(u) = Len(t) - 1
      /\ \A i \in 1..(Len(t) - 1) : u[i] = IF i < j THEN t[i] ELSE t[i + 1]
  BY <1>2, <1>4, <1>5, RemoveIndex
<1> HIDE DEF u
<1>7. ASSUME NEW i \in 1..(Len(s) - 1) PROVE u[i] = f[r[i]]
  <2>1. CASE i < j
    <3>1. i \in 1..Len(s)
      BY <1>2
    <3>2. u[i] = t[i] /\ r[i] = s[i]
      BY <1>2, <1>3, <1>6, <2>1
    <3> QED BY <3>1, <3>2, <1>2
  <2>2. CASE ~(i < j)
    <3>1. i + 1 \in 1..Len(s)
      BY <1>2
    <3>2. u[i] = t[i + 1] /\ r[i] = s[i + 1]
      BY <1>2, <1>3, <1>6, <2>2
    <3> QED BY <3>1, <3>2, <1>2
  <2> QED BY <2>1, <2>2
<1>8. u = [i \in 1..(Len(s) - 1) |-> u[i]]
  BY <1>2, <1>6
<1>9. u = Keyed(f, r)
  BY <1>3, <1>7, <1>8 DEF Keyed
<1> QED BY <1>9 DEF t, r, u

\* Taking out what is not there.
LEMMA RemoveAbsent ==
  ASSUME NEW s, NEW e, ~OnList(s, e)
  PROVE  RemoveFirst(s, e) = s
BY DEF RemoveFirst, OnList

\* Only the keys of the entries on the list matter.
LEMMA KeyedAgree ==
  ASSUME NEW s, NEW f, NEW g, \A i \in 1..Len(s) : f[s[i]] = g[s[i]]
  PROVE  Keyed(f, s) = Keyed(g, s)
BY DEF Keyed

\* LRUShard takes keys out of its order the way the code's lists do.
LEMMA SameRemove == \A o, k : Shard!RemoveFirst(o, k) = RemoveFirst(o, k)
BY DEF Shard!RemoveFirst, Shard!RemoveAt, Shard!SelectInSeq, Shard!Min, RemoveFirst, RemoveAt, SelectInSeq, Min

\* What the policy does to a shard, field by field.
LEMMA PolicyForms ==
  ASSUME NEW r, NEW k
  PROVE  /\ Shard!Used(r, k) =
              [order |-> RemoveFirst(r.order, k), using |-> r.using \union {k}, charge |-> r.charge]
         /\ \A c : Shard!Added(r, k, c) =
              [order |-> RemoveFirst(r.order, k), using |-> r.using \union {k},
               charge |-> [r.charge EXCEPT ![k] = c]]
         /\ Shard!Unused(r, k) =
              [order |-> Append(r.order, k), using |-> r.using \ {k}, charge |-> r.charge]
         /\ Shard!Without(r, k) =
              [order |-> RemoveFirst(r.order, k), using |-> r.using \ {k},
               charge |-> [r.charge EXCEPT ![k] = 0]]
BY SameRemove DEF Shard!Used, Shard!Added, Shard!Unused, Shard!Without

\* The fields of the shard before and after a step.
ChargeMap == [k \in Keys |-> IF table[k] = NoHandle THEN 0 ELSE charge[table[k]]]
Order == Keyed(key, RemoveFirst(lru, victim))
Using == {key[e] : e \in in_use \ {victim}}

\* The shard as a record of these fields.
LEMMA ContentsForm ==
  /\ Contents = [order |-> Order, using |-> Using, charge |-> ChargeMap]
  /\ Contents.order = Order /\ Contents.using = Using /\ Contents.charge = ChargeMap
  /\ Contents' = [order |-> Order', using |-> Using', charge |-> ChargeMap']
<1>1. Contents = [order |-> Order, using |-> Using, charge |-> ChargeMap]
  BY DEF Contents, Order, Using, ChargeMap, Keyed
<1>2. Contents' = [order |-> Order', using |-> Using', charge |-> ChargeMap']
  BY DEF Contents, Order, Using, ChargeMap, Keyed
<1> QED BY <1>1, <1>2

\* The table finds every cached entry under its key, the displaced one excepted.
LEMMA EntryFacts ==
  ASSUME IInv, Operating
  PROVE  /\ \A e \in Handles : in_cache[e] => key[e] \in Keys
         /\ \A e \in Handles : in_cache[e] /\ e # victim => table[key[e]] = e
         /\ \A e, d \in Handles :
              in_cache[e] /\ in_cache[d] /\ e # victim /\ d # victim /\ key[e] = key[d] => e = d
         /\ \A k \in Keys : table[k] # NoHandle =>
              /\ table[k] \in Handles /\ in_cache[table[k]]
              /\ key[table[k]] = k /\ table[k] # victim
<1>1. ASSUME NEW e \in Handles, in_cache[e] PROVE key[e] \in Keys
  <2>1. refs[e] > 0
    BY <1>1 DEF IInv, RefsExact, TypeOK
  <2> QED BY <2>1 DEF IInv, RefsExact, TypeOK
<1>2. ASSUME NEW e \in Handles, in_cache[e], e # victim PROVE table[key[e]] = e
  BY <1>1, <1>2 DEF IInv, TableExact
<1>3. \A e, d \in Handles :
        in_cache[e] /\ in_cache[d] /\ e # victim /\ d # victim /\ key[e] = key[d] => e = d
  BY <1>2
<1>4. ASSUME NEW k \in Keys, table[k] # NoHandle
      PROVE  /\ table[k] \in Handles /\ in_cache[table[k]]
             /\ key[table[k]] = k /\ table[k] # victim
  <2>1. table[k] \in Handles
    BY <1>4 DEF IInv, TypeOK
  <2> QED BY <2>1 DEF IInv, TableExact
<1> QED BY <1>1, <1>2, <1>3, <1>4

\* The list lru_ of a shard, whose entries are cached and have different keys.
LEMMA OrderFacts ==
  ASSUME IInv, Operating
  PROVE  /\ lru \in Seq(Handles) /\ NoDuplicates(lru) /\ Len(lru) \in Nat
         /\ \A i \in 1..Len(lru) : lru[i] \in Handles /\ in_cache[lru[i]] /\ refs[lru[i]] = 1 /\ key[lru[i]] \in Keys
         /\ \A i, j \in 1..Len(lru) :
              lru[i] # victim /\ lru[j] # victim /\ key[lru[i]] = key[lru[j]] => i = j
         /\ \A e \in Handles : OnList(lru, e) <=> in_cache[e] /\ refs[e] = 1
         /\ \A e \in Handles : e \in in_use <=> in_cache[e] /\ refs[e] > 1
         /\ in_use \subseteq Handles
<1>1. lru \in Seq(Handles) /\ NoDuplicates(lru) /\ in_use \subseteq Handles
  BY ListsForm DEF IInv, TypeOK
<1>2. /\ \A e \in Handles : OnList(lru, e) <=> in_cache[e] /\ refs[e] = 1
      /\ \A e \in Handles : e \in in_use <=> in_cache[e] /\ refs[e] > 1
  BY ListsForm DEF IInv, Lists
<1>3. \A i \in 1..Len(lru) : lru[i] \in Handles /\ OnList(lru, lru[i])
  BY <1>1 DEF OnList
<1>4. \A i \in 1..Len(lru) : lru[i] \in Handles /\ in_cache[lru[i]] /\ refs[lru[i]] = 1 /\ key[lru[i]] \in Keys
  BY <1>2, <1>3, EntryFacts
<1>5. \A i, j \in 1..Len(lru) :
              lru[i] # victim /\ lru[j] # victim /\ key[lru[i]] = key[lru[j]] => i = j
  <2>1. ASSUME NEW i \in 1..Len(lru), NEW j \in 1..Len(lru),
               lru[i] # victim, lru[j] # victim, key[lru[i]] = key[lru[j]]
        PROVE  i = j
    <3>1. lru[i] = lru[j]
      BY <2>1, <1>4, EntryFacts
    <3> QED BY <3>1, <1>1 DEF NoDuplicates
  <2> QED BY <2>1
<1>6. Len(lru) \in Nat
  BY <1>1
<1> QED BY <1>1, <1>2, <1>4, <1>5, <1>6

\* No entry is nullptr.
LEMMA NoVictimOnList ==
  ASSUME NEW s \in Seq(Handles)
  PROVE  RemoveFirst(s, NoHandle) = s
<1>1. ~OnList(s, NoHandle)
  BY ConstantsAssumption DEF OnList
<1> QED BY <1>1, RemoveAbsent

\* Between methods, and in the loops, there is no displaced entry: the shard's
\* order is that of lru_, and its keys are those of the cached entries.
LEMMA QuietShard ==
  ASSUME IInv, Operating, victim = NoHandle
  PROVE  /\ Order = Keyed(key, lru) /\ Using = {key[e] : e \in in_use}
         /\ Order \in Seq(Keys) /\ Len(Order) = Len(lru) /\ \A i \in 1..Len(lru) : Order[i] = key[lru[i]]
         /\ Shard!CachedKeys(Contents) = {key[e] : e \in Cached}
<1>1. Order = Keyed(key, lru)
  BY OrderFacts, NoVictimOnList DEF Order
<1>2. Using = {key[e] : e \in in_use}
  <2>1. in_use \ {victim} = in_use
    BY ConstantsAssumption, OrderFacts
  <2> QED BY <2>1 DEF Using
<1>3. Order \in Seq(Keys) /\ Len(Order) = Len(lru) /\ \A i \in 1..Len(lru) : Order[i] = key[lru[i]]
  <2>1. lru \in Seq(Handles) /\ \A i \in 1..Len(lru) : key[lru[i]] \in Keys
    BY OrderFacts
  <2>2. /\ Keyed(key, lru) \in Seq(Keys) /\ Len(Keyed(key, lru)) = Len(lru)
        /\ \A i \in 1..Len(lru) : Keyed(key, lru)[i] = key[lru[i]]
    BY <2>1, KeyedFacts
  <2> QED BY <1>1, <2>2
<1>4. Shard!CachedKeys(Contents) = {Order[i] : i \in 1..Len(lru)} \union {key[e] : e \in in_use}
  <2>1. DOMAIN Order = 1..Len(lru)
    BY <1>1 DEF Keyed
  <2>2. Contents.order = Order /\ Contents.using = Using
    BY ContentsForm
  <2> QED BY <1>2, <2>1, <2>2 DEF Shard!CachedKeys, Shard!ToSet
<1>5. ASSUME NEW e \in Cached PROVE OnList(lru, e) \/ e \in in_use
  BY OrderFacts DEF Cached, IInv, RefsExact, TypeOK
<1>6. {Order[i] : i \in 1..Len(lru)} \union {key[e] : e \in in_use} = {key[e] : e \in Cached}
  <2>1. ASSUME NEW i \in 1..Len(lru) PROVE \E e \in Cached : Order[i] = key[e]
    BY <1>3, OrderFacts DEF Cached
  <2>2. in_use \subseteq Cached
    BY OrderFacts DEF Cached
  <2>3. ASSUME NEW e \in Cached, OnList(lru, e) PROVE \E i \in 1..Len(lru) : Order[i] = key[e]
    BY <1>3, <2>3 DEF OnList
  <2> QED BY <1>5, <2>1, <2>2, <2>3
<1> QED BY <1>1, <1>2, <1>3, <1>4, <1>6

\* A step of LRUShard, or none.
ShardStep == Shard!Next \/ UNCHANGED <<capacity, Contents, Busy>>

\* A step that changes nothing of what is in the shard.
LEMMA SameShard ==
  ASSUME UNCHANGED <<capacity, key, lru, in_use, table, charge, victim>>
  PROVE  UNCHANGED <<capacity, Contents>>
BY DEF Contents

\* Lookup uses the key it finds.
LEMMA LookupRefines == ASSUME IInv, NEW k \in Keys, Lookup(k) PROVE ShardStep
<1>0. Operating /\ victim = NoHandle /\ pc = "idle" /\ pc' = "idle" /\ victim' = victim
  BY DEF IInv, MethodsConsistent, Lookup, Operating
<1>b. Busy = "no" /\ Busy' = "no"
  BY <1>0 DEF Busy
<1>u. UNCHANGED <<capacity, key, charge, table, in_cache>>
  BY DEF Lookup
<1>1. CASE UNCHANGED <<lru, in_use>>
  BY <1>0, <1>1, <1>u, <1>b, SameShard DEF ShardStep
<1>2. CASE ~UNCHANGED <<lru, in_use>>
  <2> DEFINE e == table[k]
  <2>1. e # NoHandle /\ refs[e] = 1 /\ lru' = RemoveFirst(lru, e) /\ in_use' = in_use \union {e}
    BY <1>2 DEF Lookup, Ref, MoveToInUse
  <2>2. e \in Handles /\ in_cache[e] /\ key[e] = k
    BY <1>0, <2>1, EntryFacts
  <2> HIDE DEF e
  <2>3. OnList(lru, e)
    BY <1>0, <2>1, <2>2, OrderFacts
  <2>4. Order' = RemoveFirst(Order, k)
    <3>1. RemoveFirst(lru, e) \in Seq(Handles)
      BY <1>0, <2>2, OrderFacts, RemoveFacts
    <3>2. Order' = Keyed(key, RemoveFirst(lru, e))
      <4>1. RemoveFirst(lru', victim') = lru'
        BY <1>0, <2>1, <3>1, NoVictimOnList
      <4> QED BY <1>u, <2>1, <4>1 DEF Order, Keyed
    <3>3. RemoveFirst(Keyed(key, lru), key[e]) = Keyed(key, RemoveFirst(lru, e))
      <4>1. /\ lru \in Seq(Handles) /\ NoDuplicates(lru)
            /\ \A i \in 1..Len(lru) : key[lru[i]] \in Keys
            /\ \A i, j \in 1..Len(lru) : key[lru[i]] = key[lru[j]] => i = j
        BY <1>0, OrderFacts, ConstantsAssumption
      <4> QED BY <4>1, <2>3, KeyedRemove
    <3> QED BY <1>0, <2>2, <3>2, <3>3, QuietShard
  <2>5. Using' = Using \union {k}
    <3>1. Using = {key[x] : x \in in_use}
      BY <1>0, QuietShard
    <3>2. Using' = {key[x] : x \in in_use \union {e}}
      <4>1. in_use' \ {victim'} = in_use \union {e}
        BY <1>0, <2>1, <2>2, OrderFacts, ConstantsAssumption
      <4> QED BY <4>1, <1>u DEF Using
    <3> QED BY <2>2, <3>1, <3>2
  <2>6. ChargeMap' = ChargeMap
    BY <1>u DEF ChargeMap
  <2>7. Contents' = Shard!Used(Contents, k)
    <3>1. Shard!Used(Contents, k) = [order |-> RemoveFirst(Order, k), using |-> Using \union {k}, charge |-> ChargeMap]
      BY ContentsForm, PolicyForms
    <3> QED BY <2>4, <2>5, <2>6, <3>1, ContentsForm
  <2>8. k \in Shard!CachedKeys(Contents)
    BY <1>0, <2>2, QuietShard DEF Cached
  <2>9. Shard!Use(k)
    BY <1>b, <2>7, <2>8 DEF Shard!Use
  <2> QED BY <2>9, <1>u DEF ShardStep, Shard!Next
<1> QED BY <1>1, <1>2

\* Without an entry, the shard's order is without its key, whichever list it is on.
LEMMA OrderWithout ==
  ASSUME IInv, Operating, victim = NoHandle, NEW e \in Handles, in_cache[e]
  PROVE  /\ RemoveFirst(lru, e) \in Seq(Handles)
         /\ \A x \in Handles : OnList(RemoveFirst(lru, e), x) <=> OnList(lru, x) /\ x # e
         /\ Keyed(key, RemoveFirst(lru, e)) = RemoveFirst(Order, key[e])
<1>1. /\ lru \in Seq(Handles) /\ NoDuplicates(lru)
      /\ \A i \in 1..Len(lru) : key[lru[i]] \in Keys
      /\ \A i, j \in 1..Len(lru) : key[lru[i]] = key[lru[j]] => i = j
      /\ \A i \in 1..Len(lru) : lru[i] \in Handles /\ in_cache[lru[i]]
  BY OrderFacts, ConstantsAssumption
<1>2. /\ RemoveFirst(lru, e) \in Seq(Handles)
      /\ \A x \in Handles : OnList(RemoveFirst(lru, e), x) <=> OnList(lru, x) /\ x # e
  BY <1>1, RemoveFacts
<1>3. Order = Keyed(key, lru)
  BY QuietShard
<1>4. CASE OnList(lru, e)
  <2>1. RemoveFirst(Keyed(key, lru), key[e]) = Keyed(key, RemoveFirst(lru, e))
    BY <1>1, <1>4, KeyedRemove
  <2> QED BY <1>2, <1>3, <2>1
<1>5. CASE ~OnList(lru, e)
  <2>1. RemoveFirst(lru, e) = lru
    BY <1>5, RemoveAbsent
  <2>2. ~OnList(Order, key[e])
    <3>1. ASSUME NEW i \in 1..Len(lru) PROVE Order[i] # key[e]
      <4>1. lru[i] # e /\ lru[i] \in Handles /\ in_cache[lru[i]]
        BY <1>1, <1>5 DEF OnList
      <4>2. key[lru[i]] # key[e]
        BY <4>1, EntryFacts, ConstantsAssumption
      <4> QED BY <4>2, QuietShard
    <3>2. Len(Order) = Len(lru)
      BY QuietShard
    <3> QED BY <3>1, <3>2 DEF OnList
  <2>3. RemoveFirst(Order, key[e]) = Order
    BY <2>2, RemoveAbsent
  <2> QED BY <1>2, <1>3, <2>1, <2>3
<1> QED BY <1>4, <1>5

\* A step that touches only entries that are not cached.
LEMMA OffShard ==
  ASSUME IInv, Operating, UNCHANGED <<capacity, lru, in_use, table, victim>>,
         \A x \in Handles : in_cache[x] => key'[x] = key[x] /\ charge'[x] = charge[x]
  PROVE  UNCHANGED <<capacity, Contents>>
<1> DEFINE L == RemoveFirst(lru, victim)
<1>0. victim \in Handles \union {NoHandle}
  BY DEF IInv, TypeOK
<1>1. \A i \in 1..Len(L) : key'[L[i]] = key[L[i]]
  <2>1. L \in Seq(Handles) /\ \A x \in Handles : OnList(L, x) => OnList(lru, x)
    <3>1. CASE victim \in Handles
      BY <3>1, OrderFacts, RemoveFacts
    <3>2. CASE victim = NoHandle
      BY <3>2, OrderFacts, NoVictimOnList
    <3> QED BY <1>0, <3>1, <3>2
  <2> HIDE DEF L
  <2>2. \A i \in 1..Len(L) : L[i] \in Handles /\ OnList(L, L[i])
    BY <2>1 DEF OnList
  <2> QED BY <2>1, <2>2, OrderFacts
<1>2. Order' = Order
  <2>1. Keyed(key', L) = Keyed(key, L)
    <3> HIDE DEF L
    <3> QED BY <1>1, KeyedAgree
  <2> QED BY <2>1 DEF Order, Keyed
<1>3. Using' = Using
  <2>1. \A x \in in_use \ {victim} : key'[x] = key[x]
    BY OrderFacts
  <2> QED BY <2>1 DEF Using
<1>4. ChargeMap' = ChargeMap
  <2>1. \A k \in Keys : table[k] # NoHandle => charge'[table[k]] = charge[table[k]]
    BY EntryFacts
  <2> QED BY <2>1 DEF ChargeMap
<1> QED BY <1>2, <1>3, <1>4, ContentsForm

\* Release: the last handle makes the key the most recently used one.
LEMMA ReleaseRefines == ASSUME IInv, NEW e \in Handles, Release(e) PROVE ShardStep
<1>0. Operating /\ victim = NoHandle /\ pc = "idle" /\ pc' = "idle" /\ victim' = victim
  BY DEF IInv, MethodsConsistent, Release, Operating
<1>b. Busy = "no" /\ Busy' = "no"
  BY <1>0 DEF Busy
<1>u. UNCHANGED <<capacity, in_cache, table, victim>> /\ DropReference(e)
  BY DEF Release, Unref
<1>r. refs[e] = pins[e] + (IF in_cache[e] THEN 1 ELSE 0) /\ pins[e] > 0 /\ pins[e] \in Nat
  BY DEF IInv, RefsExact, Release, TypeOK
<1>1. CASE in_cache[e] /\ refs[e] = 2
  <2>1. lru' = Append(RemoveFirst(lru, e), e) /\ in_use' = in_use \ {e} /\ key' = key /\ charge' = charge
    BY <1>1, <1>u DEF Release, Unref, MoveToLru, DropReference
  <2>2. e \in in_use /\ ~OnList(lru, e) /\ lru \in Seq(Handles) /\ Len(lru) \in Nat /\ in_use \subseteq Handles
    BY <1>0, <1>1, OrderFacts
  <2>3. lru' = Append(lru, e)
    BY <2>1, <2>2, RemoveAbsent
  <2>4. Order' = Append(Order, key[e])
    <3>1. lru' \in Seq(Handles) /\ Len(lru') = Len(lru) + 1
          /\ \A i \in 1..(Len(lru) + 1) : lru'[i] = IF i <= Len(lru) THEN lru[i] ELSE e
      BY <2>2, <2>3
    <3>2. Order' = Keyed(key, lru')
      <4>1. RemoveFirst(lru', victim') = lru'
        BY <1>0, <3>1, NoVictimOnList
      <4> QED BY <2>1, <4>1 DEF Order, Keyed
    <3>3. Order \in Seq(Keys) /\ Len(Order) = Len(lru) /\ \A i \in 1..Len(lru) : Order[i] = key[lru[i]]
      BY <1>0, QuietShard
    <3>4. key[e] \in Keys
      BY <1>0, <1>1, EntryFacts
    <3>5. /\ Append(Order, key[e]) \in Seq(Keys) /\ Len(Append(Order, key[e])) = Len(lru) + 1
          /\ \A i \in 1..(Len(lru) + 1) : Append(Order, key[e])[i] = IF i <= Len(lru) THEN Order[i] ELSE key[e]
      BY <3>3, <3>4
    <3>6. ASSUME NEW i \in 1..(Len(lru) + 1) PROVE Append(Order, key[e])[i] = key[lru'[i]]
      <4>1. CASE i <= Len(lru)
        BY <4>1, <2>2, <3>1, <3>3, <3>5
      <4>2. CASE ~(i <= Len(lru))
        BY <4>2, <3>1, <3>5
      <4> QED BY <4>1, <4>2
    <3>7. Append(Order, key[e]) = [i \in 1..(Len(lru) + 1) |-> Append(Order, key[e])[i]]
      BY <3>5, <2>2
    <3> QED BY <3>1, <3>2, <3>6, <3>7 DEF Keyed
  <2>5. Using' = Using \ {key[e]}
    <3>1. Using = {key[x] : x \in in_use}
      BY <1>0, QuietShard
    <3>2. Using' = {key[x] : x \in in_use \ {e}}
      <4>1. in_use' \ {victim'} = in_use \ {e}
        BY <1>0, <2>1, <2>2, ConstantsAssumption
      <4> QED BY <4>1, <2>1 DEF Using
    <3>3. \A x \in in_use : x # e => key[x] # key[e]
      BY <1>0, <1>1, <2>2, OrderFacts, EntryFacts, ConstantsAssumption
    <3> QED BY <3>1, <3>2, <3>3
  <2>6. ChargeMap' = ChargeMap
    BY <1>u, <2>1 DEF ChargeMap
  <2>7. Contents' = Shard!Unused(Contents, key[e])
    <3>1. Shard!Unused(Contents, key[e]) = [order |-> Append(Order, key[e]), using |-> Using \ {key[e]}, charge |-> ChargeMap]
      BY ContentsForm, PolicyForms
    <3> QED BY <2>4, <2>5, <2>6, <3>1, ContentsForm
  <2>8. key[e] \in Keys /\ key[e] \in Contents.using
    <3>1. Using = {key[x] : x \in in_use}
      BY <1>0, QuietShard
    <3> QED BY <1>0, <1>1, <2>2, <3>1, EntryFacts, ContentsForm
  <2>9. Shard!Use(key[e])
    BY <1>b, <2>7, <2>8 DEF Shard!Use
  <2> QED BY <2>8, <2>9, <1>u DEF ShardStep, Shard!Next
<1>2. CASE ~(in_cache[e] /\ refs[e] = 2)
  <2>1. UNCHANGED <<lru, in_use>>
    BY <1>2 DEF Release, Unref
  <2>2. \A x \in Handles : in_cache[x] => key'[x] = key[x] /\ charge'[x] = charge[x]
    <3>1. refs[e] = 1 => ~in_cache[e]
      BY <1>r
    <3> QED BY <1>u, <3>1 DEF DropReference, IInv, TypeOK
  <2>3. UNCHANGED <<capacity, Contents>>
    BY <1>0, <1>u, <2>1, <2>2, OffShard
  <2> QED BY <2>3, <1>b DEF ShardStep
<1> QED BY <1>1, <1>2

\* Erasing a cached entry takes its key out of the shard.
LEMMA ErasedContents ==
  ASSUME IInv, Operating, victim = NoHandle, NEW e \in Handles, in_cache[e], EraseEntry(e)
  PROVE  Contents' = Shard!Without(Contents, key[e])
<1>u. /\ lru' = RemoveFirst(lru, e) /\ in_use' = in_use \ {e} /\ victim' = victim
      /\ table' = [table EXCEPT ![key[e]] = NoHandle]
      /\ \A x \in Handles : x # e => key'[x] = key[x] /\ charge'[x] = charge[x]
  BY DEF EraseEntry, FinishErase, LRU_Remove, DropReference, IInv, TypeOK
<1>k. key[e] \in Keys /\ table[key[e]] = e /\ table \in [Keys -> Handles \union {NoHandle}]
  BY EntryFacts, ConstantsAssumption DEF IInv, TypeOK
<1>1. Order' = RemoveFirst(Order, key[e])
  <2> DEFINE L == RemoveFirst(lru, e)
  <2>1. /\ L \in Seq(Handles)
        /\ \A x \in Handles : OnList(L, x) <=> OnList(lru, x) /\ x # e
        /\ Keyed(key, L) = RemoveFirst(Order, key[e])
    BY OrderWithout
  <2> HIDE DEF L
  <2>2. \A i \in 1..Len(L) : L[i] \in Handles /\ OnList(L, L[i])
    BY <2>1 DEF OnList
  <2>3. \A i \in 1..Len(L) : key'[L[i]] = key[L[i]]
    BY <2>1, <2>2, <1>u
  <2>4. Keyed(key', L) = Keyed(key, L)
    BY <2>3, KeyedAgree
  <2>5. RemoveFirst(lru', victim') = L
    <3>1. lru' = L
      BY <1>u DEF L
    <3> QED BY <3>1, <2>1, <1>u, NoVictimOnList
  <2> QED BY <2>1, <2>4, <2>5 DEF Order, Keyed
<1>2. Using' = Using \ {key[e]}
  <2>1. Using = {key[x] : x \in in_use}
    BY QuietShard
  <2>2. in_use' \ {victim'} = in_use \ {e} /\ in_use \subseteq Handles
    BY <1>u, OrderFacts, ConstantsAssumption
  <2>3. Using' = {key[x] : x \in in_use \ {e}}
    BY <2>2, <1>u DEF Using
  <2>4. \A x \in in_use : x # e => key[x] # key[e]
    BY OrderFacts, EntryFacts, ConstantsAssumption
  <2> QED BY <2>1, <2>3, <2>4
<1>3. ChargeMap' = [ChargeMap EXCEPT ![key[e]] = 0]
  <2>1. \A k \in Keys : k # key[e] => table[k] # e
    BY EntryFacts, ConstantsAssumption
  <2>2. ASSUME NEW k \in Keys
        PROVE  (IF table'[k] = NoHandle THEN 0 ELSE charge'[table'[k]])
                 = IF k = key[e] THEN 0 ELSE ChargeMap[k]
    <3>1. CASE k = key[e]
      BY <3>1, <1>u, <1>k
    <3>2. CASE k # key[e]
      BY <3>2, <1>u, <1>k, <2>1 DEF ChargeMap
    <3> QED BY <3>1, <3>2
  <2>3. ChargeMap' = [k \in Keys |-> IF k = key[e] THEN 0 ELSE ChargeMap[k]]
    BY <2>2 DEF ChargeMap
  <2>4. DOMAIN ChargeMap = Keys
    BY DEF ChargeMap
  <2> QED BY <2>3, <2>4
<1>4. Shard!Without(Contents, key[e]) =
        [order |-> RemoveFirst(Order, key[e]), using |-> Using \ {key[e]},
         charge |-> [ChargeMap EXCEPT ![key[e]] = 0]]
  <2>1. Shard!Without(Contents, key[e]) =
          [order |-> RemoveFirst(Contents.order, key[e]), using |-> Contents.using \ {key[e]},
           charge |-> [Contents.charge EXCEPT ![key[e]] = 0]]
    BY PolicyForms, Zenon
  <2> QED BY <2>1, ContentsForm, Zenon
<1> QED BY <1>1, <1>2, <1>3, <1>4, ContentsForm

\* Erase takes the key it finds out of the shard.
LEMMA EraseRefines == ASSUME IInv, NEW k \in Keys, Erase(k) PROVE ShardStep
<1>0. Operating /\ victim = NoHandle /\ pc = "idle" /\ pc' = "idle" /\ capacity' = capacity
  BY DEF IInv, MethodsConsistent, Erase, Operating, EraseEntry
<1>b. Busy = "no" /\ Busy' = "no"
  BY <1>0 DEF Busy
<1> DEFINE e == table[k]
<1>1. e \in Handles /\ in_cache[e] /\ key[e] = k /\ EraseEntry(e)
  BY <1>0, EntryFacts DEF Erase
<1> HIDE DEF e
<1>2. Contents' = Shard!Without(Contents, k)
  BY <1>0, <1>1, ErasedContents
<1>3. k \in Shard!CachedKeys(Contents)
  BY <1>0, <1>1, QuietShard DEF Cached
<1>4. Shard!Use(k)
  BY <1>b, <1>2, <1>3 DEF Shard!Use
<1> QED BY <1>4, <1>0 DEF ShardStep, Shard!Next

\* The oldest entry of lru_ is the shard's oldest key.
LEMMA OldestErased ==
  ASSUME IInv, Operating, victim = NoHandle, lru # << >>, EraseEntry(Head(lru))
  PROVE  /\ Contents.order # << >>
         /\ Contents' = Shard!WithoutOldest(Contents)
         /\ capacity' = capacity
<1>1. lru \in Seq(Handles) /\ Len(lru) \in Nat /\ 1 \in 1..Len(lru) /\ Head(lru) = lru[1]
  BY OrderFacts
<1>2. Head(lru) \in Handles /\ in_cache[Head(lru)]
  BY <1>1, OrderFacts
<1>3. Order \in Seq(Keys) /\ Len(Order) = Len(lru) /\ Order[1] = key[lru[1]]
  BY <1>1, QuietShard
<1>4. Order # << >> /\ Head(Order) = key[Head(lru)]
  BY <1>1, <1>3
<1>5. Contents' = Shard!Without(Contents, key[Head(lru)])
  BY <1>2, ErasedContents
<1>6. Contents.order = Order
  BY ContentsForm
<1> QED BY <1>4, <1>5, <1>6 DEF Shard!WithoutOldest, EraseEntry

\* The loops of Insert and Prune end together with the shard's order.
LEMMA EmptyOrder ==
  ASSUME IInv, Operating, victim = NoHandle
  PROVE  Contents.order = << >> <=> lru = << >>
<1>1. lru \in Seq(Handles) /\ Order \in Seq(Keys) /\ Len(Order) = Len(lru)
  BY OrderFacts, QuietShard
<1>2. Contents.order = Order
  BY ContentsForm
<1> QED BY <1>1, <1>2

\* Prune's loop takes the oldest key, or returns.
LEMMA PruneStepRefines == ASSUME IInv, PruneStep PROVE ShardStep
<1>0. Operating /\ victim = NoHandle /\ pc = "prune" /\ Busy = "prune"
  BY DEF IInv, MethodsConsistent, PruneStep, Operating, Busy
<1>1. CASE lru # << >>
  <2>1. EraseEntry(Head(lru)) /\ Busy' = "prune"
    BY <1>1 DEF PruneStep, Busy
  <2>2. /\ Contents.order # << >>
        /\ Contents' = Shard!WithoutOldest(Contents)
        /\ capacity' = capacity
    BY <1>0, <1>1, <2>1, OldestErased
  <2>3. Shard!PruneOne
    BY <1>0, <2>1, <2>2 DEF Shard!PruneOne
  <2> QED BY <2>2, <2>3 DEF ShardStep, Shard!Next
<1>2. CASE lru = << >>
  <2>1. Busy' = "no" /\ UNCHANGED <<capacity, Contents>>
    BY <1>2, SameShard DEF PruneStep, Busy
  <2>2. Contents.order = << >>
    BY <1>0, <1>2, EmptyOrder
  <2>3. Shard!Return
    BY <1>0, <2>1, <2>2 DEF Shard!Return
  <2> QED BY <2>1, <2>3 DEF ShardStep, Shard!Next
<1> QED BY <1>1, <1>2

\* Prune takes the mutex.
LEMMA PruneRefines == ASSUME Prune PROVE ShardStep
<1>1. Busy = "no" /\ Busy' = "prune" /\ UNCHANGED <<capacity, Contents>>
  BY SameShard DEF Prune, Busy
<1>2. Shard!Prune
  BY <1>1 DEF Shard!Prune
<1> QED BY <1>1, <1>2 DEF ShardStep, Shard!Next

\* The destructor, after which nothing is promised.
LEMMA DestroyRefines ==
  ASSUME IInv, Destroy \/ DestroyStep \/ Stopped PROVE ShardStep
<1>1. CASE Destroy
  <2>1. Busy = "no" /\ Busy' = "gone" /\ capacity' = capacity
    BY <1>1 DEF Destroy, Busy
  <2>2. Shard!Destroy
    BY <2>1 DEF Shard!Destroy
  <2> QED BY <2>1, <2>2 DEF ShardStep, Shard!Next
<1>2. CASE DestroyStep
  <2>1. Busy = "gone" /\ Busy' = "gone" /\ capacity' = capacity
    BY <1>2 DEF DestroyStep, Busy
  <2>2. Shard!Destroy
    BY <2>1 DEF Shard!Destroy
  <2> QED BY <2>1, <2>2 DEF ShardStep, Shard!Next
<1>3. CASE Stopped
  <2>1. Busy = "gone" /\ Busy' = "gone" /\ capacity' = capacity
    BY <1>3 DEF Stopped, vars, Busy
  <2>2. Shard!Destroy
    BY <2>1 DEF Shard!Destroy
  <2> QED BY <2>1, <2>2 DEF ShardStep, Shard!Next
<1> QED BY <1>1, <1>2, <1>3

\* The sum over the names of things is the sum over the things, when no two have
\* the same name.
LEMMA TotalImage ==
  ASSUME NEW S, IsFiniteSet(S), NEW c, NEW d, NEW f,
         \A x \in S : c[x] \in Nat /\ d[f[x]] = c[x],
         \A x, y \in S : f[x] = f[y] => x = y
  PROVE  Total(d, {f[x] : x \in S}) = Total(c, S)
<1> DEFINE I(T) == {f[x] : x \in T}
           Q == {T \in SUBSET S : Total(d, I(T)) = Total(c, T)}
<1>1. ASSUME NEW T \in SUBSET S, \A U \in SUBSET T : U # T => U \in Q PROVE T \in Q
  <2>f. IsFiniteSet(T)
    BY FS_Subset
  <2>g. IsFiniteSet(I(T))
    <3>1. [x \in T |-> f[x]] \in Surjection(T, I(T))
      BY DEF Surjection
    <3> HIDE DEF I
    <3> QED BY <2>f, <3>1, FS_Surjection
  <2>1. CASE T = {}
    <3>1. I(T) = {}
      BY <2>1
    <3>2. Total(d, I(T)) = 0 /\ Total(c, T) = 0
      BY <2>1, <2>f, <2>g, <3>1, TotalRecursion
    <3> QED BY <3>2
  <2>2. CASE T # {}
    <3>1. PICK x \in T : TRUE
      BY <2>2
    <3>2. Total(c, T) = c[x] + Total(c, T \ {x})
      <4>1. \A y \in T : c[y] \in Nat
        OBVIOUS
      <4> QED BY <2>f, <4>1, <3>1, TotalWithout
    <3>3. f[x] \in I(T) /\ \A y \in I(T) : d[y] \in Nat
      BY <3>1
    <3>4. I(T) \ {f[x]} = I(T \ {x})
      BY <3>1
    <3> HIDE DEF I
    <3>5. Total(d, I(T)) = d[f[x]] + Total(d, I(T) \ {f[x]})
      BY <2>g, <3>3, TotalWithout
    <3>6. T \ {x} \in Q
      BY <1>1, <3>1
    <3>7. Total(d, I(T \ {x})) = Total(c, T \ {x})
      BY <3>6
    <3>8. d[f[x]] = c[x]
      BY <3>1
    <3>9. Total(d, I(T)) = Total(c, T)
      BY <3>2, <3>4, <3>5, <3>7, <3>8
    <3> QED BY <3>9
  <2> QED BY <2>1, <2>2
<1>2. \A T \in SUBSET S : T \in Q
  <2> HIDE DEF Q
  <2> QED BY <1>1, SubsetInduction
<1> QED BY <1>2

\* The shard's usage is usage_.
LEMMA UsageMatches ==
  ASSUME IInv, UsageIsSum, Operating, victim = NoHandle
  PROVE  Shard!Usage(Contents) = usage
<1>1. Shard!Usage(Contents) = Total(Contents.charge, Shard!CachedKeys(Contents))
  BY DEF Shard!Usage, Shard!MapThenSumSet, Shard!MapThenFoldSet, Total, MapThenSumSet, MapThenFoldSet
<1>2. Contents.charge = ChargeMap /\ Shard!CachedKeys(Contents) = {key[e] : e \in Cached}
  BY ContentsForm, QuietShard
<1>3. IsFiniteSet(Cached) /\ \A e \in Cached : charge[e] \in Nat
  BY CachedFinite DEF IInv
<1>4. ASSUME NEW e \in Cached PROVE ChargeMap[key[e]] = charge[e]
  <2>1. key[e] \in Keys /\ table[key[e]] = e /\ e # NoHandle
    BY EntryFacts, ConstantsAssumption DEF Cached
  <2> QED BY <2>1 DEF ChargeMap
<1>5. \A e, d \in Cached : key[e] = key[d] => e = d
  BY EntryFacts, ConstantsAssumption DEF Cached
<1>6. Total(ChargeMap, {key[e] : e \in Cached}) = Total(charge, Cached)
  BY <1>3, <1>4, <1>5, TotalImage
<1> QED BY <1>1, <1>2, <1>6, UsageForm

\* Insert's loop lets an entry go exactly when the shard must.
LEMMA EvictStepRefines == ASSUME IInv, UsageIsSum, EvictStep PROVE ShardStep
<1>0. Operating /\ victim = NoHandle /\ pc = "evict" /\ Busy = "insert"
  BY DEF IInv, MethodsConsistent, EvictStep, Operating, Busy
<1>m. Shard!MustEvict(Contents, capacity) <=> OverCapacity /\ lru # << >>
  <2>1. Shard!Usage(Contents) = usage /\ (Contents.order = << >> <=> lru = << >>)
    BY <1>0, UsageMatches, EmptyOrder
  <2> QED BY <2>1 DEF Shard!MustEvict, OverCapacity
<1>1. CASE OverCapacity /\ lru # << >>
  <2>1. EraseEntry(Head(lru)) /\ Busy' = "insert"
    BY <1>1 DEF EvictStep, Busy
  <2>2. Contents' = Shard!WithoutOldest(Contents) /\ capacity' = capacity
    BY <1>0, <1>1, <2>1, OldestErased
  <2>3. Shard!Evict
    BY <1>0, <1>1, <1>m, <2>1, <2>2 DEF Shard!Evict
  <2> QED BY <2>2, <2>3 DEF ShardStep, Shard!Next
<1>2. CASE ~(OverCapacity /\ lru # << >>)
  <2>1. Busy' = "no" /\ UNCHANGED <<capacity, Contents>>
    BY <1>2, SameShard DEF EvictStep, Busy
  <2>3. Shard!Return
    BY <1>0, <1>2, <1>m, <2>1 DEF Shard!Return
  <2> QED BY <2>1, <2>3 DEF ShardStep, Shard!Next
<1> QED BY <1>1, <1>2

\* Erasing the displaced entry changes nothing: it left the shard when the new
\* one took its key.
LEMMA InsertReplaceRefines == ASSUME IInv, InsertReplace PROVE ShardStep
<1> DEFINE L == RemoveFirst(lru, victim)
<1>0. /\ Operating /\ pc = "replace" /\ pc' = "evict" /\ victim' = NoHandle /\ capacity' = capacity
      /\ victim \in Handles /\ lru' = L /\ in_use' = in_use \ {victim} /\ table' = table
      /\ \A x \in Handles : x # victim => key'[x] = key[x] /\ charge'[x] = charge[x]
  BY DEF IInv, TypeOK, MethodsConsistent, InsertReplace, Operating, FinishErase, LRU_Remove,
         DropReference
<1>b. Busy = "insert" /\ Busy' = "insert"
  BY <1>0 DEF Busy
<1>1. L \in Seq(Handles) /\ \A x \in Handles : OnList(L, x) => x # victim
  BY <1>0, OrderFacts, RemoveFacts
<1>2. Order' = Order
  <2>1. RemoveFirst(lru', victim') = L
    <3> HIDE DEF L
    <3> QED BY <1>0, <1>1, NoVictimOnList
  <2>2. Keyed(key', L) = Keyed(key, L)
    <3> HIDE DEF L
    <3>1. \A i \in 1..Len(L) : L[i] \in Handles /\ OnList(L, L[i])
      BY <1>1 DEF OnList
    <3>2. \A i \in 1..Len(L) : key'[L[i]] = key[L[i]]
      BY <1>0, <1>1, <3>1
    <3> QED BY <3>2, KeyedAgree
  <2>3. Order = Keyed(key, L) /\ Order' = Keyed(key', RemoveFirst(lru', victim'))
    BY DEF Order, Keyed
  <2> HIDE DEF L
  <2> QED BY <2>1, <2>2, <2>3
<1>3. Using' = Using
  <2>1. in_use' \ {victim'} = in_use \ {victim} /\ in_use \subseteq Handles
    BY <1>0, OrderFacts, ConstantsAssumption
  <2>2. \A x \in in_use \ {victim} : key'[x] = key[x]
    BY <1>0, <2>1
  <2> QED BY <2>1, <2>2 DEF Using
<1>4. ChargeMap' = ChargeMap
  <2>1. \A k \in Keys : table[k] # NoHandle => charge'[table[k]] = charge[table[k]]
    BY <1>0, EntryFacts
  <2> QED BY <1>0, <2>1 DEF ChargeMap
<1> QED BY <1>0, <1>b, <1>2, <1>3, <1>4, ContentsForm DEF ShardStep

\* The new entry takes the key, whether or not another one had it.
LEMMA InsertedContents ==
  ASSUME IInv, NEW k \in Keys, NEW c \in Charges, NEW e \in Handles, InsertLink(k, c, e), CachingOn
  PROVE  Contents' = Shard!Added(Contents, k, c)
<1>0. Operating /\ victim = NoHandle
  BY DEF IInv, MethodsConsistent, InsertLink, Operating
<1>u. /\ lru' = lru /\ in_use' = in_use \union {e} /\ victim' = table[k]
      /\ table' = [table EXCEPT ![k] = e]
      /\ key'[e] = k /\ charge'[e] = c
      /\ \A x \in Handles : x # e => key'[x] = key[x] /\ charge'[x] = charge[x]
  BY DEF InsertLink, IInv, TypeOK
<1>n. ~in_cache[e] /\ table \in [Keys -> Handles \union {NoHandle}] /\ e # NoHandle
  BY ConstantsAssumption DEF InsertLink, IInv, RefsExact, TypeOK
<1>l. /\ lru \in Seq(Handles) /\ in_use \subseteq Handles
      /\ \A i \in 1..Len(lru) : lru[i] \in Handles /\ in_cache[lru[i]] /\ lru[i] # e
      /\ \A x \in in_use : in_cache[x] /\ x # e
  BY <1>0, <1>n, OrderFacts
<1>1. Order' = RemoveFirst(Order, k)
  <2>1. CASE table[k] = NoHandle
    <3>1. RemoveFirst(lru', victim') = lru
      BY <1>u, <1>l, <2>1, NoVictimOnList
    <3>2. Keyed(key', lru) = Keyed(key, lru)
      BY <1>u, <1>l, KeyedAgree
    <3>3. Order' = Order
      <4>1. Order' = Keyed(key', RemoveFirst(lru', victim'))
        BY DEF Order, Keyed
      <4> QED BY <1>0, <3>1, <3>2, <4>1, QuietShard
    <3>4. ~OnList(Order, k)
      <4>1. \A i \in 1..Len(lru) : key[lru[i]] # k
        BY <1>0, <1>l, <1>n, <2>1, EntryFacts, ConstantsAssumption
      <4>2. Len(Order) = Len(lru) /\ \A i \in 1..Len(lru) : Order[i] = key[lru[i]]
        BY <1>0, QuietShard
      <4> QED BY <4>1, <4>2 DEF OnList
    <3> QED BY <3>3, <3>4, RemoveAbsent
  <2>2. CASE table[k] # NoHandle
    <3> DEFINE d == table[k]
               L == RemoveFirst(lru, d)
    <3>1. d \in Handles /\ in_cache[d] /\ key[d] = k
      BY <1>0, <2>2, EntryFacts
    <3> HIDE DEF d
    <3>2. /\ L \in Seq(Handles)
          /\ \A x \in Handles : OnList(L, x) <=> OnList(lru, x) /\ x # d
          /\ Keyed(key, L) = RemoveFirst(Order, k)
      BY <1>0, <3>1, OrderWithout
    <3>3. RemoveFirst(lru', victim') = L
      BY <1>u DEF d
    <3> HIDE DEF L
    <3>4. \A i \in 1..Len(L) : L[i] \in Handles /\ OnList(L, L[i])
      BY <3>2 DEF OnList
    <3>5. ~OnList(lru, e)
      BY <1>l DEF OnList
    <3>6. \A i \in 1..Len(L) : key'[L[i]] = key[L[i]]
      BY <1>u, <3>2, <3>4, <3>5
    <3>7. Keyed(key', L) = Keyed(key, L)
      BY <3>6, KeyedAgree
    <3>8. Order' = Keyed(key', RemoveFirst(lru', victim'))
      BY DEF Order, Keyed
    <3> QED BY <3>2, <3>3, <3>7, <3>8
  <2> QED BY <2>1, <2>2
<1>2. Using' = Using \union {k}
  <2>1. Using = {key[x] : x \in in_use}
    BY <1>0, QuietShard
  <2>2. e \in in_use' \ {victim'}
    <3>1. table[k] # e
      BY <1>0, <1>n, EntryFacts
    <3> QED BY <1>u, <3>1
  <2>3. Using' = {key'[x] : x \in in_use' \ {victim'}}
    BY DEF Using
  <2>4. ASSUME NEW x \in in_use' \ {victim'} PROVE key'[x] \in Using \union {k}
    BY <1>u, <1>l, <2>1
  <2>5. ASSUME NEW x \in in_use, key[x] # k PROVE x \in in_use' \ {victim'} /\ key'[x] = key[x]
    <3>1. x # table[k]
      BY <1>0, <1>n, <1>l, <2>5, EntryFacts, ConstantsAssumption
    <3> QED BY <1>u, <1>l, <3>1
  <2> QED BY <1>u, <2>1, <2>2, <2>3, <2>4, <2>5
<1>3. ChargeMap' = [ChargeMap EXCEPT ![k] = c]
  <2>1. \A j \in Keys : table[j] # e
    BY <1>0, <1>n, EntryFacts
  <2>2. ASSUME NEW j \in Keys
        PROVE  (IF table'[j] = NoHandle THEN 0 ELSE charge'[table'[j]])
                 = IF j = k THEN c ELSE ChargeMap[j]
    <3>1. CASE j = k
      BY <3>1, <1>u, <1>n
    <3>2. CASE j # k
      BY <3>2, <1>u, <1>n, <2>1 DEF ChargeMap
    <3> QED BY <3>1, <3>2
  <2>3. ChargeMap' = [j \in Keys |-> IF j = k THEN c ELSE ChargeMap[j]]
    BY <2>2 DEF ChargeMap
  <2>4. DOMAIN ChargeMap = Keys
    BY DEF ChargeMap
  <2> QED BY <2>3, <2>4
<1>4. Shard!Added(Contents, k, c) =
        [order |-> RemoveFirst(Order, k), using |-> Using \union {k},
         charge |-> [ChargeMap EXCEPT ![k] = c]]
  <2>1. Shard!Added(Contents, k, c) =
          [order |-> RemoveFirst(Contents.order, k), using |-> Contents.using \union {k},
           charge |-> [Contents.charge EXCEPT ![k] = c]]
    BY PolicyForms, Zenon
  <2> QED BY <2>1, ContentsForm, Zenon
<1> QED BY <1>1, <1>2, <1>3, <1>4, ContentsForm

\* Insert up to table_.Insert(e), with caching on and off.
LEMMA InsertLinkRefines ==
  ASSUME IInv, NEW k \in Keys, NEW c \in Charges, NEW e \in Handles, InsertLink(k, c, e)
  PROVE  ShardStep
<1>0. Operating /\ capacity' = capacity
  BY DEF InsertLink, Operating
<1>b. Busy = "no" /\ Busy' = "insert"
  BY DEF InsertLink, Busy
<1>1. Contents' = IF capacity > 0 THEN Shard!Added(Contents, k, c) ELSE Contents
  <2>1. CASE capacity > 0
    BY <2>1, InsertedContents DEF CachingOn
  <2>2. CASE ~(capacity > 0)
    <3>1. UNCHANGED <<capacity, lru, in_use, table, victim>>
      BY <2>2 DEF InsertLink, CachingOn
    <3>2. ~in_cache[e]
      BY DEF InsertLink, IInv, RefsExact, TypeOK
    <3>3. \A x \in Handles : in_cache[x] => key'[x] = key[x] /\ charge'[x] = charge[x]
      BY <3>2 DEF InsertLink, IInv, TypeOK
    <3> QED BY <1>0, <2>2, <3>1, <3>3, OffShard
  <2> QED BY <2>1, <2>2
<1>2. Shard!Insert(k, c)
  BY <1>b, <1>1 DEF Shard!Insert
<1> QED BY <1>0, <1>2 DEF ShardStep, Shard!Next

\* Every step of the shard is a step, or no step, of the LRU cache.
LEMMA StepRefines == ASSUME IInv, UsageIsSum, [Next]_vars PROVE ShardStep
<1>1. CASE UNCHANGED vars
  <2>1. UNCHANGED <<capacity, Contents>> /\ Busy' = Busy
    BY <1>1, SameShard DEF vars, Busy
  <2> QED BY <2>1 DEF ShardStep
<1>2. ASSUME NEW k \in Keys, Lookup(k) PROVE ShardStep
  BY <1>2, LookupRefines
<1>3. ASSUME NEW e \in Handles, Release(e) PROVE ShardStep
  BY <1>3, ReleaseRefines
<1>4. ASSUME NEW k \in Keys, NEW c \in Charges, NEW e \in Handles, InsertLink(k, c, e)
      PROVE  ShardStep
  BY <1>4, InsertLinkRefines
<1>5. ASSUME NEW k \in Keys, Erase(k) PROVE ShardStep
  BY <1>5, EraseRefines
<1>6. CASE InsertReplace
  BY <1>6, InsertReplaceRefines
<1>7. CASE EvictStep
  BY <1>7, EvictStepRefines
<1>8. CASE PruneStep
  BY <1>8, PruneStepRefines
<1>9. CASE Prune
  BY <1>9, PruneRefines
<1>10. CASE Destroy \/ DestroyStep \/ Stopped
  BY <1>10, DestroyRefines
<1> QED BY <1>1, <1>2, <1>3, <1>4, <1>5, <1>6, <1>7, <1>8, <1>9, <1>10 DEF Next

\* The empty cache.
LEMMA InitRefines == Init => Shard!Init
<1> SUFFICES ASSUME Init PROVE Shard!Init
  OBVIOUS
<1>1. lru = << >> /\ victim = NoHandle /\ in_use = {} /\ pc = "idle"
      /\ table = [k \in Keys |-> NoHandle]
  BY DEF Init
<1>2. Order = << >>
  <2>1. << >> \in Seq(Handles) /\ Len(<< >>) = 0
    OBVIOUS
  <2>2. RemoveFirst(lru, victim) = << >>
    BY <1>1, <2>1, NoVictimOnList
  <2> QED BY <2>1, <2>2 DEF Order, Keyed
<1>3. Using = {}
  BY <1>1 DEF Using
<1>4. ChargeMap = [k \in Keys |-> 0]
  BY <1>1 DEF ChargeMap
<1>5. Contents = [order |-> << >>, using |-> {}, charge |-> [k \in Keys |-> 0]]
  BY <1>2, <1>3, <1>4, ContentsForm
<1>6. Busy = "no"
  BY <1>1 DEF Busy
<1> QED BY <1>5, <1>6 DEF Shard!Init, Shard!EmptyShard

\* The code of one shard is an LRU cache, for any entries, charges and capacity:
\* entries leave in the order in which their last handle was released (lru_ and
\* the moves of Ref and Unref), Insert lets go only as many as it must and never
\* one in use, and whatever Insert displaced leaves at once.
THEOREM BehavesAsLRU == Spec => IsLRUShard
<1>1. IInv /\ UsageIsSum /\ [Next]_vars => [Shard!Next]_<<capacity, Contents, Busy>>
  BY StepRefines DEF ShardStep
<1> QED BY <1>1, InitRefines, Invariance, UsageNeverDrifts, PTL DEF Spec, IsLRUShard, Shard!Spec

=============================================================================
