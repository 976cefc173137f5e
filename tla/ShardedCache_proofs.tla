------------------------- MODULE ShardedCache_proofs -------------------------
(***************************************************************************)
(* Proofs about the sharded cache, for any threads, keys, charges, number  *)
(* of shards and capacity: what Prune and TotalCharge, which visit the     *)
(* shards one by one, may still promise about the whole cache.             *)
(***************************************************************************)
EXTENDS ShardedCache, SharedLemmas

\* What holds of shard i at every moment: each cached key is in one place, is a
\* key of this shard and has its charge.
GoodFields(order, using, charge, i) ==
  /\ order \in Seq(Keys) /\ NoDuplicates(order)
  /\ using \in SUBSET Keys /\ IsFiniteSet(using)
  /\ charge \in [Keys -> Nat]
  /\ \A k \in using : ~OnList(order, k)
  /\ \A k \in Keys : OnList(order, k) \/ k \in using => ShardOf[k] = i /\ charge[k] = ChargeOf[k]
GoodShard(sh, i) ==
  /\ sh \in [order : Seq(Keys), using : SUBSET Keys, charge : [Keys -> Nat]]
  /\ GoodFields(sh.order, sh.using, sh.charge, i)

GoodShards(sh) == DOMAIN sh = Shards /\ \A i \in Shards : GoodShard(sh[i], i)

Typed ==
  /\ DOMAIN handle = Threads /\ DOMAIN total = Threads /\ DOMAIN kept = Threads /\ DOMAIN seen = Threads
  /\ \A t \in Threads : handle[t] # None => handle[t] \in [key : Keys, cached : BOOLEAN]
  /\ pc \in [Threads -> {"idle", "prune", "charge"}]
  /\ s \in [Threads -> 1..(kNumShards + 1)]

\* A handle of a cached entry keeps the entry in use.
HandlesSound ==
  \A t \in Threads : handle[t] # None /\ handle[t].cached =>
    handle[t].key \in shard[ShardOf[handle[t].key]].using

\* What Prune must still account for lies in the shards it has not visited.
PruneSound ==
  \A t \in Threads : pc[t] = "prune" => \A k \in kept[t] : k \in Keys /\ ShardOf[k] >= s[t]

\* TotalCharge has counted the shards it has visited.
Passed(K, n) == {k \in K : ShardOf[k] < n}
Within(lo, x, hi) == x \in Nat /\ Charge(lo) <= x /\ x <= Charge(hi)
ChargeSound ==
  \A t \in Threads : pc[t] = "charge" =>
    /\ kept[t] \subseteq AllCached(shard) /\ AllCached(shard) \subseteq seen[t]
    /\ seen[t] \subseteq Keys /\ IsFiniteSet(seen[t])
    /\ Within(Passed(kept[t], s[t]), total[t], Passed(seen[t], s[t]))

IInv == GoodShards(shard) /\ Typed /\ HandlesSound /\ PruneSound /\ ChargeSound

-----------------------------------------------------------------------------
\* The keys of a list.
LEMMA OnListForm ==
  ASSUME NEW X, NEW q \in Seq(X), NEW k
  PROVE  k \in ToSet(q) <=> OnList(q, k)
BY DEF ToSet, OnList

\* The cached keys of a shard.
LEMMA CachedForm ==
  ASSUME NEW sh, NEW i, GoodShard(sh, i)
  PROVE  /\ \A k : k \in CachedKeys(sh) <=> OnList(sh.order, k) \/ k \in sh.using
         /\ CachedKeys(sh) \subseteq Keys
         /\ \A k \in CachedKeys(sh) : ShardOf[k] = i /\ sh.charge[k] = ChargeOf[k]
         /\ IsFiniteSet(CachedKeys(sh))
<1>0. /\ sh.order \in Seq(Keys) /\ sh.using \in SUBSET Keys /\ IsFiniteSet(sh.using)
      /\ \A k \in Keys : OnList(sh.order, k) \/ k \in sh.using => ShardOf[k] = i /\ sh.charge[k] = ChargeOf[k]
  BY DEF GoodShard, GoodFields
<1> DEFINE q == sh.order
<1> HIDE DEF q
<1>1. q \in Seq(Keys)
  BY <1>0 DEF q
<1>2. \A k : k \in ToSet(q) <=> OnList(q, k)
  BY <1>1, OnListForm
<1>3. \A k : k \in CachedKeys(sh) <=> OnList(q, k) \/ k \in sh.using
  BY <1>2 DEF CachedKeys, q
<1>4. \A k : OnList(q, k) => k \in Keys
  BY <1>1 DEF OnList
<1>5. CachedKeys(sh) \subseteq Keys
  BY <1>0, <1>3, <1>4
<1>6. \A k \in CachedKeys(sh) : ShardOf[k] = i /\ sh.charge[k] = ChargeOf[k]
  BY <1>0, <1>3, <1>5 DEF q
<1>7. IsFiniteSet(ToSet(q))
  <2>1. Len(q) \in Nat /\ DOMAIN q = 1..Len(q)
    BY <1>1
  <2>2. IsFiniteSet(1..Len(q))
    BY <2>1, FS_Interval
  <2>3. q \in Surjection(1..Len(q), ToSet(q))
    BY <1>1, <2>1 DEF ToSet, Surjection
  <2> QED BY <2>2, <2>3, FS_Surjection
<1>8. IsFiniteSet(CachedKeys(sh))
  BY <1>0, <1>7, FS_Union DEF CachedKeys, q
<1> QED BY <1>3, <1>5, <1>6, <1>8 DEF q

\* A shard is good when its fields are.
LEMMA MakeGood ==
  ASSUME NEW order, NEW using, NEW charge, NEW i, GoodFields(order, using, charge, i),
         NEW sh, sh = [order |-> order, using |-> using, charge |-> charge]
  PROVE  /\ GoodShard(sh, i)
         /\ sh.order = order /\ sh.using = using /\ sh.charge = charge
<1>1. order \in Seq(Keys) /\ using \in SUBSET Keys /\ charge \in [Keys -> Nat]
  BY DEF GoodFields
<1>2. sh \in [order : Seq(Keys), using : SUBSET Keys, charge : [Keys -> Nat]]
  BY <1>1
<1>3. sh.order = order /\ sh.using = using /\ sh.charge = charge
  OBVIOUS
<1> QED BY <1>2, <1>3 DEF GoodShard

\* A new shard is good.
LEMMA GoodEmpty ==
  ASSUME NEW i PROVE GoodShard(EmptyShard(Keys), i)
<1> DEFINE charge == [k \in Keys |-> 0]
<1>1. GoodFields(<< >>, {}, charge, i)
  <2>1. << >> \in Seq(Keys) /\ NoDuplicates(<< >>) /\ \A k : ~OnList(<< >>, k)
    BY DEF NoDuplicates, OnList
  <2>2. charge \in [Keys -> Nat] /\ IsFiniteSet({})
    BY FS_EmptySet
  <2> QED BY <2>1, <2>2 DEF GoodFields
<1> HIDE DEF charge
<1>2. EmptyShard(Keys) = [order |-> << >>, using |-> {}, charge |-> charge]
  BY DEF EmptyShard, charge
<1> QED BY <1>1, <1>2, MakeGood

\* The key is found, or inserted.
LEMMA GoodAdded ==
  ASSUME NEW sh, NEW i, GoodShard(sh, i), NEW k \in Keys, ShardOf[k] = i
  PROVE  /\ GoodShard(Added(sh, k, ChargeOf[k]), i)
         /\ Added(sh, k, ChargeOf[k]).using = sh.using \union {k}
<1> DEFINE order == RemoveFirst(sh.order, k)
           using == sh.using \union {k}
           charge == [sh.charge EXCEPT ![k] = ChargeOf[k]]
<1>0. /\ sh.order \in Seq(Keys) /\ NoDuplicates(sh.order)
      /\ sh.using \in SUBSET Keys /\ IsFiniteSet(sh.using) /\ sh.charge \in [Keys -> Nat]
      /\ \A x \in sh.using : ~OnList(sh.order, x)
      /\ \A x \in Keys : OnList(sh.order, x) \/ x \in sh.using => ShardOf[x] = i /\ sh.charge[x] = ChargeOf[x]
  BY DEF GoodShard, GoodFields
<1>1. order \in Seq(Keys) /\ NoDuplicates(order) /\ \A x \in Keys : OnList(order, x) <=> OnList(sh.order, x) /\ x # k
  BY <1>0, RemoveFacts
<1>2. using \in SUBSET Keys /\ IsFiniteSet(using)
  BY <1>0, FS_AddElement
<1>3. charge \in [Keys -> Nat] /\ charge[k] = ChargeOf[k] /\ \A x \in Keys \ {k} : charge[x] = sh.charge[x]
  BY <1>0, ShardedAssumption
<1>4. Added(sh, k, ChargeOf[k]) = [order |-> order, using |-> using, charge |-> charge]
  BY DEF Added
<1> HIDE DEF order, charge
<1>5. GoodFields(order, using, charge, i)
  <2>1. \A x \in using : ~OnList(order, x)
    BY <1>0, <1>1
  <2>2. \A x \in Keys : OnList(order, x) \/ x \in using => ShardOf[x] = i /\ charge[x] = ChargeOf[x]
    BY <1>0, <1>1, <1>3
  <2> QED BY <1>1, <1>2, <1>3, <2>1, <2>2 DEF GoodFields
<1> QED BY <1>4, <1>5, MakeGood

\* A cached key gets a handle.
LEMMA GoodUsed ==
  ASSUME NEW sh, NEW i, GoodShard(sh, i), NEW k \in CachedKeys(sh)
  PROVE  /\ GoodShard(Used(sh, k), i)
         /\ Used(sh, k).using = sh.using \union {k}
<1> DEFINE order == RemoveFirst(sh.order, k)
           using == sh.using \union {k}
<1>0. /\ sh.order \in Seq(Keys) /\ NoDuplicates(sh.order)
      /\ sh.using \in SUBSET Keys /\ IsFiniteSet(sh.using) /\ sh.charge \in [Keys -> Nat]
      /\ \A x \in sh.using : ~OnList(sh.order, x)
      /\ \A x \in Keys : OnList(sh.order, x) \/ x \in sh.using => ShardOf[x] = i /\ sh.charge[x] = ChargeOf[x]
  BY DEF GoodShard, GoodFields
<1>c. k \in Keys /\ ShardOf[k] = i /\ sh.charge[k] = ChargeOf[k]
  BY CachedForm
<1>1. order \in Seq(Keys) /\ NoDuplicates(order) /\ \A x \in Keys : OnList(order, x) <=> OnList(sh.order, x) /\ x # k
  BY <1>0, <1>c, RemoveFacts
<1>2. using \in SUBSET Keys /\ IsFiniteSet(using)
  BY <1>0, <1>c, FS_AddElement
<1>3. Used(sh, k) = [order |-> order, using |-> using, charge |-> sh.charge]
  BY DEF Used
<1> HIDE DEF order
<1>4. GoodFields(order, using, sh.charge, i)
  <2>1. \A x \in using : ~OnList(order, x)
    BY <1>0, <1>1, <1>c
  <2>2. \A x \in Keys : OnList(order, x) \/ x \in using => ShardOf[x] = i /\ sh.charge[x] = ChargeOf[x]
    BY <1>0, <1>1, <1>c
  <2> QED BY <1>0, <1>1, <1>2, <2>1, <2>2 DEF GoodFields
<1> QED BY <1>3, <1>4, MakeGood

\* The last handle of the key is released.
LEMMA GoodUnused ==
  ASSUME NEW sh, NEW i, GoodShard(sh, i), NEW k \in sh.using
  PROVE  /\ GoodShard(Unused(sh, k), i)
         /\ Unused(sh, k).using = sh.using \ {k}
<1> DEFINE order == Append(sh.order, k)
           using == sh.using \ {k}
<1>0. /\ sh.order \in Seq(Keys) /\ NoDuplicates(sh.order)
      /\ sh.using \in SUBSET Keys /\ IsFiniteSet(sh.using) /\ sh.charge \in [Keys -> Nat]
      /\ \A x \in sh.using : ~OnList(sh.order, x)
      /\ \A x \in Keys : OnList(sh.order, x) \/ x \in sh.using => ShardOf[x] = i /\ sh.charge[x] = ChargeOf[x]
  BY DEF GoodShard, GoodFields
<1>1. order \in Seq(Keys) /\ NoDuplicates(order) /\ \A x \in Keys : OnList(order, x) <=> OnList(sh.order, x) \/ x = k
  BY <1>0, AppendFacts
<1>2. using \in SUBSET Keys /\ IsFiniteSet(using)
  BY <1>0, FS_Subset
<1>3. Unused(sh, k) = [order |-> order, using |-> using, charge |-> sh.charge]
  BY DEF Unused
<1> HIDE DEF order
<1>4. GoodFields(order, using, sh.charge, i)
  <2>1. \A x \in using : ~OnList(order, x)
    BY <1>0, <1>1
  <2>2. \A x \in Keys : OnList(order, x) \/ x \in using => ShardOf[x] = i /\ sh.charge[x] = ChargeOf[x]
    BY <1>0, <1>1
  <2> QED BY <1>0, <1>1, <1>2, <2>1, <2>2 DEF GoodFields
<1> QED BY <1>3, <1>4, MakeGood

\* The key leaves the cache.
LEMMA GoodWithout ==
  ASSUME NEW sh, NEW i, GoodShard(sh, i), NEW k \in Keys
  PROVE  /\ GoodShard(Without(sh, k), i)
         /\ Without(sh, k).using = sh.using \ {k}
         /\ Without(sh, k).order = RemoveFirst(sh.order, k)
<1> DEFINE order == RemoveFirst(sh.order, k)
           using == sh.using \ {k}
           charge == [sh.charge EXCEPT ![k] = 0]
<1>0. /\ sh.order \in Seq(Keys) /\ NoDuplicates(sh.order)
      /\ sh.using \in SUBSET Keys /\ IsFiniteSet(sh.using) /\ sh.charge \in [Keys -> Nat]
      /\ \A x \in sh.using : ~OnList(sh.order, x)
      /\ \A x \in Keys : OnList(sh.order, x) \/ x \in sh.using => ShardOf[x] = i /\ sh.charge[x] = ChargeOf[x]
  BY DEF GoodShard, GoodFields
<1>1. order \in Seq(Keys) /\ NoDuplicates(order) /\ \A x \in Keys : OnList(order, x) <=> OnList(sh.order, x) /\ x # k
  BY <1>0, RemoveFacts
<1>2. using \in SUBSET Keys /\ IsFiniteSet(using)
  BY <1>0, FS_Subset
<1>3. charge \in [Keys -> Nat] /\ \A x \in Keys \ {k} : charge[x] = sh.charge[x]
  BY <1>0
<1>4. Without(sh, k) = [order |-> order, using |-> using, charge |-> charge]
  BY DEF Without
<1> HIDE DEF order, charge
<1>5. GoodFields(order, using, charge, i)
  <2>1. \A x \in using : ~OnList(order, x)
    BY <1>0, <1>1
  <2>2. \A x \in Keys : OnList(order, x) \/ x \in using => ShardOf[x] = i /\ charge[x] = ChargeOf[x]
    BY <1>0, <1>1, <1>3
  <2> QED BY <1>1, <1>2, <1>3, <2>1, <2>2 DEF GoodFields
<1>6. GoodShard(Without(sh, k), i) /\ Without(sh, k).using = using /\ Without(sh, k).order = order
  BY <1>4, <1>5, MakeGood
<1> QED BY <1>6 DEF order

\* The oldest key leaves the cache; nobody used it.
LEMMA GoodWithoutOldest ==
  ASSUME NEW sh, NEW i, GoodShard(sh, i), Len(sh.order) > 0
  PROVE  /\ GoodShard(WithoutOldest(sh), i)
         /\ WithoutOldest(sh).using = sh.using
         /\ Len(WithoutOldest(sh).order) = Len(sh.order) - 1
<1> DEFINE k == Head(sh.order)
<1>0. /\ sh.order \in Seq(Keys) /\ NoDuplicates(sh.order)
      /\ sh.using \in SUBSET Keys /\ IsFiniteSet(sh.using) /\ sh.charge \in [Keys -> Nat]
      /\ \A x \in sh.using : ~OnList(sh.order, x)
      /\ \A x \in Keys : OnList(sh.order, x) \/ x \in sh.using => ShardOf[x] = i /\ sh.charge[x] = ChargeOf[x]
  BY DEF GoodShard, GoodFields
<1>1. k \in Keys /\ 1 \in 1..Len(sh.order) /\ k = sh.order[1]
  BY <1>0
<1>2. OnList(sh.order, k)
  BY <1>1 DEF OnList
<1>3. k \notin sh.using
  BY <1>0, <1>2
<1> HIDE DEF k
<1>4. Len(RemoveFirst(sh.order, k)) = Len(sh.order) - 1
  <2>1. PICK o \in Seq(Keys) : o = sh.order
    BY <1>0
  <2>2. NoDuplicates(o) /\ 1 \in 1..Len(o) /\ k = o[1]
    BY <1>0, <1>1, <2>1
  <2>3. Len(RemoveFirst(o, k)) = Len(o) - 1
    BY <2>2, RemoveIndex
  <2> QED BY <2>1, <2>3
<1>5. WithoutOldest(sh) = Without(sh, k)
  BY DEF WithoutOldest, k
<1>6. /\ GoodShard(Without(sh, k), i)
      /\ Without(sh, k).using = sh.using \ {k}
      /\ Without(sh, k).order = RemoveFirst(sh.order, k)
  BY <1>1, GoodWithout
<1>7. sh.using \ {k} = sh.using
  BY <1>3
<1> QED BY <1>4, <1>5, <1>6, <1>7

\* Prune of one shard.
LEMMA GoodPruned ==
  ASSUME NEW sh, NEW i, GoodShard(sh, i)
  PROVE  /\ GoodShard(Pruned(sh), i)
         /\ Pruned(sh).using = sh.using
         /\ Pruned(sh).order = << >>
<1> DEFINE charge == [k \in DOMAIN sh.charge |-> IF k \in sh.using THEN sh.charge[k] ELSE 0]
<1>0. /\ sh.order \in Seq(Keys) /\ NoDuplicates(sh.order)
      /\ sh.using \in SUBSET Keys /\ IsFiniteSet(sh.using) /\ sh.charge \in [Keys -> Nat]
      /\ \A x \in sh.using : ~OnList(sh.order, x)
      /\ \A x \in Keys : OnList(sh.order, x) \/ x \in sh.using => ShardOf[x] = i /\ sh.charge[x] = ChargeOf[x]
  BY DEF GoodShard, GoodFields
<1>1. charge \in [Keys -> Nat] /\ \A k \in sh.using : charge[k] = sh.charge[k]
  BY <1>0
<1> HIDE DEF charge
<1>2. << >> \in Seq(Keys) /\ NoDuplicates(<< >>) /\ \A k : ~OnList(<< >>, k)
  BY DEF NoDuplicates, OnList
<1>3. GoodFields(<< >>, sh.using, charge, i)
  BY <1>0, <1>1, <1>2 DEF GoodFields
<1>4. Pruned(sh) = [order |-> << >>, using |-> sh.using, charge |-> charge]
  <2>1. sh \in [order : Seq(Keys), using : SUBSET Keys, charge : [Keys -> Nat]]
    BY DEF GoodShard
  <2>2. Pruned(sh) = [sh EXCEPT !.order = << >>, !.charge = charge]
    BY DEF Pruned, charge
  <2> QED BY <2>1, <2>2
<1> QED BY <1>3, <1>4, MakeGood

-----------------------------------------------------------------------------
\* The shard after n rounds of Insert's loop, for n up to m.
Rounds(f, sh, m) == f = [n \in 0..m |-> IF n = 0 THEN sh ELSE WithoutOldest(f[n - 1])]

\* The rounds of Insert's loop as such a function.
LEMMA ShrunkForm ==
  ASSUME NEW sh, NEW capacity
  PROVE  LET After == CHOOSE f : Rounds(f, sh, Len(sh.order))
         IN Shrunk(sh, capacity) = After[Min({n \in 0..Len(sh.order) : ~MustEvict(After[n], capacity)})]
BY DEF Shrunk, Rounds

\* What such a function says of one round.
LEMMA RoundsAt ==
  ASSUME NEW f, NEW sh, NEW m \in Nat, Rounds(f, sh, m)
  PROVE  f[0] = sh /\ \A n \in 0..m : n # 0 => f[n] = WithoutOldest(f[n - 1])
<1>1. \A n \in 0..m : f[n] = IF n = 0 THEN sh ELSE WithoutOldest(f[n - 1])
  BY DEF Rounds
<1> QED BY <1>1

\* The function exists.
LEMMA RoundsExist ==
  ASSUME NEW sh
  PROVE  \A m \in Nat : \E f : Rounds(f, sh, m)
<1> DEFINE Q == {m \in Nat : \E f : Rounds(f, sh, m)}
<1>1. 0 \in Q
  <2> DEFINE f == [n \in 0..0 |-> sh]
  <2>1. f = [n \in 0..0 |-> IF n = 0 THEN sh ELSE WithoutOldest(f[n - 1])]
    OBVIOUS
  <2>2. Rounds(f, sh, 0)
    <3> HIDE DEF f
    <3> QED BY <2>1 DEF Rounds
  <2> QED BY <2>2
<1>2. ASSUME NEW m \in Nat, m \in Q PROVE m + 1 \in Q
  <2>1. PICK f : Rounds(f, sh, m)
    BY <1>2
  <2> DEFINE g == [n \in 0..(m + 1) |-> IF n = m + 1 THEN WithoutOldest(f[m]) ELSE f[n]]
  <2>2. f[0] = sh /\ \A n \in 0..m : n # 0 => f[n] = WithoutOldest(f[n - 1])
    BY <2>1, RoundsAt
  <2>3. ASSUME NEW n \in 0..(m + 1) PROVE g[n] = IF n = 0 THEN sh ELSE WithoutOldest(g[n - 1])
    <3>1. CASE n = 0
      BY <2>2, <3>1
    <3>2. CASE n = m + 1
      <4>1. g[n] = WithoutOldest(f[m]) /\ n - 1 = m /\ g[m] = f[m] /\ n # 0
        BY <3>2
      <4> HIDE DEF g
      <4> QED BY <4>1
    <3>3. CASE n # 0 /\ n # m + 1
      <4>1. n \in 0..m /\ n - 1 \in 0..m
        BY <3>3
      <4>2. g[n] = f[n] /\ g[n - 1] = f[n - 1]
        BY <4>1
      <4> HIDE DEF g
      <4> QED BY <2>2, <3>3, <4>1, <4>2
    <3> QED BY <3>1, <3>2, <3>3
  <2>4. g = [n \in 0..(m + 1) |-> g[n]]
    OBVIOUS
  <2> HIDE DEF g
  <2>5. Rounds(g, sh, m + 1)
    BY <2>3, <2>4 DEF Rounds
  <2> QED BY <2>5
<1>3. \A m \in Nat : m \in Q
  <2> HIDE DEF Q
  <2> QED BY <1>1, <1>2, NatSetInduction
<1> QED BY <1>3

\* Insert's loop lets unused entries go and ends.
LEMMA GoodShrunk ==
  ASSUME NEW sh, NEW i, GoodShard(sh, i), NEW capacity
  PROVE  /\ GoodShard(Shrunk(sh, capacity), i)
         /\ Shrunk(sh, capacity).using = sh.using
<1> DEFINE m == Len(sh.order)
           After == CHOOSE f : Rounds(f, sh, m)
           Ends == {n \in 0..m : ~MustEvict(After[n], capacity)}
<1>1. sh.order \in Seq(Keys) /\ m \in Nat
  BY DEF GoodShard, GoodFields
<1>2. Shrunk(sh, capacity) = After[Min(Ends)]
  BY ShrunkForm
<1> HIDE DEF m
<1>3. Rounds(After, sh, m)
  BY <1>1, RoundsExist
<1> HIDE DEF After
<1>4. After[0] = sh /\ \A n \in 0..m : n # 0 => After[n] = WithoutOldest(After[n - 1])
  BY <1>1, <1>3, RoundsAt
<1> DEFINE Q == {n \in Nat : n <= m => /\ GoodShard(After[n], i) /\ After[n].using = sh.using
                                       /\ Len(After[n].order) = m - n}
<1>5. \A n \in Nat : n \in Q
  <2>1. 0 \in Q
    BY <1>1, <1>4 DEF m
  <2>2. ASSUME NEW n \in Nat, n \in Q PROVE n + 1 \in Q
    <3> SUFFICES ASSUME n + 1 <= m
                 PROVE  /\ GoodShard(After[n + 1], i) /\ After[n + 1].using = sh.using
                        /\ Len(After[n + 1].order) = m - (n + 1)
      OBVIOUS
    <3>1. GoodShard(After[n], i) /\ After[n].using = sh.using /\ Len(After[n].order) = m - n
      BY <1>1, <2>2
    <3>2. n + 1 \in 0..m /\ n + 1 # 0 /\ (n + 1) - 1 = n /\ m - n > 0
      BY <1>1
    <3>3. After[n + 1] = WithoutOldest(After[n])
      BY <1>4, <3>2
    <3>4. /\ GoodShard(WithoutOldest(After[n]), i)
          /\ WithoutOldest(After[n]).using = After[n].using
          /\ Len(WithoutOldest(After[n]).order) = Len(After[n].order) - 1
      BY <3>1, <3>2, GoodWithoutOldest
    <3> QED BY <1>1, <3>1, <3>3, <3>4
  <2> HIDE DEF Q
  <2> QED BY <2>1, <2>2, NatSetInduction
<1>6. m \in Ends
  <2>1. GoodShard(After[m], i) /\ Len(After[m].order) = m - m
    BY <1>1, <1>5
  <2>2. After[m].order \in Seq(Keys)
    BY <2>1 DEF GoodShard, GoodFields
  <2>3. After[m].order = << >>
    BY <1>1, <2>1, <2>2
  <2>4. ~MustEvict(After[m], capacity)
    BY <2>3 DEF MustEvict
  <2> QED BY <1>1, <2>4
<1>7. Min(Ends) \in 0..m
  <2>1. Ends \in SUBSET Nat /\ Ends \subseteq 0..m
    BY <1>1
  <2> HIDE DEF Ends
  <2> QED BY <1>6, <2>1, LeastOfNats
<1> HIDE DEF Ends
<1>8. Min(Ends) \in Nat /\ Min(Ends) <= m
  BY <1>1, <1>7
<1>9. GoodShard(After[Min(Ends)], i) /\ After[Min(Ends)].using = sh.using
  BY <1>5, <1>8
<1> QED BY <1>2, <1>9

-----------------------------------------------------------------------------
\* The charge of some keys is the total of their charges.
LEMMA ChargeForm == ASSUME NEW K PROVE Charge(K) = Total(ChargeOf, K)
BY DEF Charge, Total, MapThenSumSet, MapThenFoldSet

\* Charges add up to a natural number.
LEMMA ChargeIsNat ==
  ASSUME NEW K \in SUBSET Keys, IsFiniteSet(K)
  PROVE  Charge(K) \in Nat
<1>1. \A x \in K : ChargeOf[x] \in Nat
  BY ShardedAssumption
<1> QED BY <1>1, TotalWithout, ChargeForm

\* More keys have the larger charge.
LEMMA ChargeGrows ==
  ASSUME NEW K \in SUBSET Keys, IsFiniteSet(K), NEW J \in SUBSET K
  PROVE  Charge(J) <= Charge(K)
<1>1. \A x \in K : ChargeOf[x] \in Nat
  BY ShardedAssumption
<1>2. Total(ChargeOf, J) <= Total(ChargeOf, K)
  BY <1>1, TotalGrows
<1> QED BY <1>2, ChargeForm

\* A shard reports the charges of its keys.
LEMMA UsageIsCharge ==
  ASSUME NEW sh, NEW i, GoodShard(sh, i)
  PROVE  Usage(sh) = Charge(CachedKeys(sh))
<1> DEFINE K == CachedKeys(sh)
           c == sh.charge
<1>1. IsFiniteSet(K) /\ \A k \in K : c[k] = ChargeOf[k]
  BY CachedForm
<1>2. Usage(sh) = Total(c, K)
  BY DEF Usage, Total, MapThenSumSet, MapThenFoldSet
<1> HIDE DEF K, c
<1>3. Total(c, K) = Total(ChargeOf, K)
  BY <1>1, TotalAgrees
<1> QED BY <1>2, <1>3, ChargeForm DEF K

\* One shard more is passed.
LEMMA PassedOneMore ==
  ASSUME NEW K \in SUBSET Keys, IsFiniteSet(K), NEW n \in Nat
  PROVE  Charge(Passed(K, n + 1)) = Charge(Passed(K, n)) + Charge({k \in K : ShardOf[k] = n})
<1> DEFINE S == Passed(K, n + 1)
           T == Passed(K, n)
<1>1. \A k \in K : ShardOf[k] \in Nat
  BY ShardedAssumption
<1>2. S \subseteq K /\ T \in SUBSET S
  BY <1>1 DEF Passed
<1>3. S \ T = {k \in K : ShardOf[k] = n}
  BY <1>1 DEF Passed
<1>4. IsFiniteSet(S)
  BY <1>2, FS_Subset
<1>5. \A x \in S : ChargeOf[x] \in Nat
  BY <1>2, ShardedAssumption
<1> HIDE DEF S, T
<1>6. Total(ChargeOf, S) = Total(ChargeOf, T) + Total(ChargeOf, S \ T)
  BY <1>2, <1>4, <1>5, TotalSplits
<1> QED BY <1>3, <1>6, ChargeForm DEF S, T

\* Every cached key is in its shard, and there are finitely many.
LEMMA AllCachedForm ==
  ASSUME NEW sh, GoodShards(sh)
  PROVE  /\ AllCached(sh) \subseteq Keys /\ IsFiniteSet(AllCached(sh))
         /\ \A k \in AllCached(sh) : k \in CachedKeys(sh[ShardOf[k]])
         /\ \A i \in Shards : CachedKeys(sh[i]) \subseteq AllCached(sh)
<1>0. \A i \in Shards : GoodShard(sh[i], i)
  BY DEF GoodShards
<1>1. \A i \in Shards : /\ CachedKeys(sh[i]) \subseteq Keys /\ IsFiniteSet(CachedKeys(sh[i]))
                        /\ \A k \in CachedKeys(sh[i]) : ShardOf[k] = i
  BY <1>0, CachedForm
<1>2. \A k \in AllCached(sh) : \E i \in Shards : k \in CachedKeys(sh[i])
  BY DEF AllCached
<1>3. \A i \in Shards : CachedKeys(sh[i]) \subseteq AllCached(sh)
  BY DEF AllCached
<1>4. IsFiniteSet(AllCached(sh))
  <2> DEFINE C == {CachedKeys(sh[i]) : i \in Shards}
             f == [i \in Shards |-> CachedKeys(sh[i])]
  <2>1. IsFiniteSet(Shards)
    BY FS_Interval, ShardedAssumption DEF Shards
  <2>2. f \in Surjection(Shards, C)
    BY DEF Surjection
  <2>3. \A T \in C : IsFiniteSet(T)
    BY <1>1
  <2>4. AllCached(sh) = UNION C
    BY DEF AllCached
  <2> HIDE DEF C, f
  <2>5. IsFiniteSet(C)
    BY <2>1, <2>2, FS_Surjection
  <2> QED BY <2>3, <2>4, <2>5, FS_UNION
<1> QED BY <1>1, <1>2, <1>3, <1>4

\* What nobody uses is on the list of its shard.
LEMMA EvictableForm ==
  ASSUME NEW sh, GoodShards(sh), NEW k \in Evictable(sh)
  PROVE  k \in Keys /\ OnList(sh[ShardOf[k]].order, k)
<1>1. PICK i \in Shards : k \in ToSet(sh[i].order)
  BY DEF Evictable
<1>2. GoodShard(sh[i], i)
  BY DEF GoodShards
<1>3. sh[i].order \in Seq(Keys)
  BY <1>2 DEF GoodShard, GoodFields
<1>4. OnList(sh[i].order, k)
  BY <1>1, <1>3, OnListForm
<1>5. k \in CachedKeys(sh[i])
  BY <1>1 DEF CachedKeys
<1>6. k \in Keys /\ ShardOf[k] = i
  BY <1>2, <1>5, CachedForm
<1> QED BY <1>4, <1>6

\* A step that changes one shard to a good one.
LEMMA OneShard ==
  ASSUME NEW sh, GoodShards(sh), NEW i \in Shards, NEW new, GoodShard(new[i], i), DOMAIN new = Shards,
         \A j \in Shards \ {i} : new[j] = sh[j]
  PROVE  GoodShards(new)
BY DEF GoodShards

-----------------------------------------------------------------------------
\* What the running calls may count on shrinks with every step of a shard.
LEMMA WatchKeeps ==
  ASSUME IInv, Watch, GoodShards(shard'), pc' = pc, total' = total,
         \A u \in Threads : \/ s'[u] = s[u]
                            \/ pc[u] = "prune" /\ \A k \in kept'[u] : ShardOf[k] >= s'[u]
  PROVE  /\ PruneSound' /\ ChargeSound'
         /\ DOMAIN kept' = Threads /\ DOMAIN seen' = Threads
<1>1. DOMAIN kept' = Threads /\ DOMAIN seen' = Threads
  BY DEF Watch
<1>2. \A u \in Threads : kept'[u] \subseteq kept[u]
  BY DEF Watch
<1>3. PruneSound'
  BY <1>2 DEF IInv, PruneSound
<1>4. ASSUME NEW u \in Threads, pc[u] = "charge"
      PROVE  /\ kept'[u] \subseteq AllCached(shard') /\ AllCached(shard') \subseteq seen'[u]
             /\ seen'[u] \subseteq Keys /\ IsFiniteSet(seen'[u])
             /\ Within(Passed(kept'[u], s'[u]), total'[u], Passed(seen'[u], s'[u]))
  <2>1. kept'[u] = kept[u] \cap AllCached(shard') /\ seen'[u] = seen[u] \union AllCached(shard')
    BY <1>4 DEF Watch
  <2>2. /\ kept[u] \subseteq AllCached(shard) /\ AllCached(shard) \subseteq seen[u]
        /\ seen[u] \subseteq Keys /\ IsFiniteSet(seen[u])
        /\ Within(Passed(kept[u], s[u]), total[u], Passed(seen[u], s[u]))
    BY <1>4 DEF IInv, ChargeSound
  <2>3. AllCached(shard') \subseteq Keys /\ IsFiniteSet(AllCached(shard'))
    BY AllCachedForm
  <2>4. IsFiniteSet(seen'[u]) /\ seen'[u] \subseteq Keys
    BY <2>1, <2>2, <2>3, FS_Union
  <2>5. s'[u] = s[u] /\ total'[u] = total[u]
    BY <1>4
  <2> DEFINE n == s[u]
             a == Passed(kept[u], n)
             b == Passed(kept'[u], n)
             c == Passed(seen[u], n)
             d == Passed(seen'[u], n)
  <2>6. b \subseteq a /\ c \subseteq d /\ a \subseteq c /\ d \subseteq Keys /\ d \subseteq seen'[u]
    BY <2>1, <2>2, <2>4 DEF Passed
  <2>7. IsFiniteSet(d)
    BY <2>4, <2>6, FS_Subset
  <2> HIDE DEF n, a, b, c, d
  <2>8. IsFiniteSet(a) /\ IsFiniteSet(b) /\ IsFiniteSet(c)
    BY <2>6, <2>7, FS_Subset
  <2>9. Charge(b) <= Charge(a) /\ Charge(c) <= Charge(d)
    BY <2>6, <2>7, <2>8, ChargeGrows
  <2>10. Charge(a) \in Nat /\ Charge(b) \in Nat /\ Charge(c) \in Nat /\ Charge(d) \in Nat
    BY <2>6, <2>7, <2>8, ChargeIsNat
  <2>11. Within(a, total[u], c)
    BY <2>2 DEF a, c, n
  <2>12. Within(b, total[u], d)
    BY <2>9, <2>10, <2>11 DEF Within
  <2>13. Within(Passed(kept'[u], s'[u]), total'[u], Passed(seen'[u], s'[u]))
    BY <2>5, <2>12 DEF b, d, n
  <2> QED BY <2>1, <2>4, <2>13
<1>5. ChargeSound'
  BY <1>4 DEF ChargeSound
<1> QED BY <1>1, <1>3, <1>5

\* The cache starts with empty shards and no handle.
LEMMA Initially == Init => IInv
<1> SUFFICES ASSUME Init PROVE IInv
  OBVIOUS
<1>1. GoodShards(shard)
  BY GoodEmpty DEF Init, GoodShards
<1>2. Typed
  BY ShardedAssumption DEF Init, Typed
<1>3. HandlesSound /\ PruneSound /\ ChargeSound
  BY DEF Init, HandlesSound, PruneSound, ChargeSound
<1> QED BY <1>1, <1>2, <1>3 DEF IInv

\* Orphaned keeps the handles of other keys, and none of this key stays cached.
LEMMA OrphanedFacts ==
  ASSUME Typed, NEW k \in Keys, NEW u \in Threads
  PROVE  /\ DOMAIN Orphaned(handle, k) = Threads
         /\ Orphaned(handle, k)[u] # None =>
              Orphaned(handle, k)[u] \in [key : Keys, cached : BOOLEAN]
         /\ Orphaned(handle, k)[u] # None /\ Orphaned(handle, k)[u].cached =>
              Orphaned(handle, k)[u] = handle[u] /\ handle[u].key # k
<1>1. DOMAIN Orphaned(handle, k) = Threads
  BY DEF Orphaned
<1>2. CASE handle[u] # None /\ handle[u].key = k
  <2>1. handle[u] \in [key : Keys, cached : BOOLEAN]
    BY <1>2 DEF Typed
  <2>2. Orphaned(handle, k)[u] = [handle[u] EXCEPT !.cached = FALSE]
    BY <1>2 DEF Orphaned
  <2>3. [handle[u] EXCEPT !.cached = FALSE] \in [key : Keys, cached : BOOLEAN]
    BY <2>1
  <2>4. [handle[u] EXCEPT !.cached = FALSE].cached = FALSE
    BY <2>1
  <2> QED BY <1>1, <2>2, <2>3, <2>4
<1>3. CASE ~(handle[u] # None /\ handle[u].key = k)
  <2>1. Orphaned(handle, k)[u] = handle[u]
    BY <1>3 DEF Orphaned
  <2> QED BY <1>1, <1>3, <2>1 DEF Typed
<1> QED BY <1>2, <1>3

\* A method that visits one shard keeps the invariant when it leaves the shards
\* good and the handles sound.
LEMMA MethodKeeps ==
  ASSUME IInv, Watch, UNCHANGED calls, GoodShards(shard'), DOMAIN handle' = Threads,
         \A u \in Threads : handle'[u] # None =>
           /\ handle'[u] \in [key : Keys, cached : BOOLEAN]
           /\ handle'[u].cached => handle'[u].key \in shard'[ShardOf[handle'[u].key]].using
  PROVE  IInv'
<1>1. pc' = pc /\ s' = s /\ total' = total
  BY DEF calls
<1>2. PruneSound' /\ ChargeSound' /\ DOMAIN kept' = Threads /\ DOMAIN seen' = Threads
  BY <1>1, WatchKeeps
<1>3. Typed'
  BY <1>1, <1>2 DEF IInv, Typed
<1>4. HandlesSound'
  BY DEF HandlesSound
<1> QED BY <1>2, <1>3, <1>4 DEF IInv

\* Insert.
LEMMA InsertKeeps ==
  ASSUME IInv, NEW t \in Threads, NEW k \in Keys, Insert(t, k)
  PROVE  IInv'
<1> DEFINE i == ShardOf[k]
           h == [key |-> k, cached |-> PerShard > 0]
<1>1. i \in Shards /\ GoodShards(shard) /\ GoodShard(shard[i], i) /\ Typed /\ HandlesSound
  BY ShardedAssumption DEF Shards, IInv, GoodShards
<1>2. Watch /\ UNCHANGED calls /\ handle' = [Orphaned(handle, k) EXCEPT ![t] = h]
  BY DEF Insert
<1>3. h \in [key : Keys, cached : BOOLEAN] /\ h.key = k /\ h.cached = (PerShard > 0)
  OBVIOUS
<1> HIDE DEF h
<1>4. DOMAIN handle' = Threads /\ handle'[t] = h
      /\ \A u \in Threads \ {t} : handle'[u] = Orphaned(handle, k)[u]
  <2>1. DOMAIN Orphaned(handle, k) = Threads
    BY <1>1, OrphanedFacts
  <2> QED BY <1>2, <2>1
<1>5. /\ GoodShards(shard')
      /\ PerShard > 0 => k \in shard'[i].using
      /\ \A j \in Shards : shard[j].using \subseteq shard'[j].using
  <2>1. CASE PerShard > 0
    <3> DEFINE x == Shrunk(Added(shard[i], k, ChargeOf[k]), PerShard)
    <3>1. shard' = [shard EXCEPT ![i] = x]
      BY <2>1 DEF Insert
    <3>2. GoodShard(Added(shard[i], k, ChargeOf[k]), i) /\ Added(shard[i], k, ChargeOf[k]).using = shard[i].using \union {k}
      BY <1>1, GoodAdded
    <3>3. GoodShard(x, i) /\ x.using = shard[i].using \union {k}
      BY <3>2, GoodShrunk
    <3> HIDE DEF x, i
    <3>4. GoodShards(shard') /\ shard'[i] = x /\ \A j \in Shards \ {i} : shard'[j] = shard[j]
      <4>1. DOMAIN shard' = Shards /\ shard'[i] = x /\ \A j \in Shards \ {i} : shard'[j] = shard[j]
        BY <1>1, <3>1 DEF GoodShards
      <4>2. GoodShard(shard'[i], i)
        BY <3>3, <4>1
      <4>3. GoodShards(shard')
        BY <1>1, <4>1, <4>2, OneShard
      <4> QED BY <4>1, <4>3
    <3> QED BY <3>3, <3>4
  <2>2. CASE ~(PerShard > 0)
    <3>1. shard' = shard
      BY <2>2 DEF Insert
    <3> QED BY <1>1, <2>2, <3>1
  <2> QED BY <2>1, <2>2
<1>6. ASSUME NEW u \in Threads, handle'[u] # None
      PROVE  /\ handle'[u] \in [key : Keys, cached : BOOLEAN]
             /\ handle'[u].cached => handle'[u].key \in shard'[ShardOf[handle'[u].key]].using
  <2>1. CASE u = t
    BY <1>3, <1>4, <1>5, <2>1
  <2>2. CASE u # t
    <3>1. handle'[u] = Orphaned(handle, k)[u]
      BY <1>4, <2>2
    <3>2. /\ handle'[u] \in [key : Keys, cached : BOOLEAN]
          /\ handle'[u].cached => handle'[u] = handle[u]
      BY <1>1, <1>6, <3>1, OrphanedFacts
    <3>3. ASSUME handle'[u].cached PROVE handle'[u].key \in shard'[ShardOf[handle'[u].key]].using
      <4>1. handle[u] # None /\ handle[u].cached /\ handle'[u] = handle[u]
        BY <1>6, <3>2, <3>3
      <4>2. handle[u].key \in shard[ShardOf[handle[u].key]].using
        BY <1>1, <4>1 DEF HandlesSound
      <4>3. handle[u].key \in Keys
        BY <3>2, <4>1
      <4>4. ShardOf[handle[u].key] \in Shards
        BY <4>3, ShardedAssumption DEF Shards
      <4>5. handle[u].key \in shard'[ShardOf[handle[u].key]].using
        BY <1>5, <4>2, <4>4
      <4> QED BY <4>1, <4>5
    <3> QED BY <3>2, <3>3
  <2> QED BY <2>1, <2>2
<1> QED BY <1>2, <1>4, <1>5, <1>6, MethodKeeps

\* Lookup.
LEMMA LookupKeeps ==
  ASSUME IInv, NEW t \in Threads, NEW k \in Keys, Lookup(t, k)
  PROVE  IInv'
<1> DEFINE i == ShardOf[k]
           h == [key |-> k, cached |-> TRUE]
<1>1. i \in Shards /\ GoodShards(shard) /\ GoodShard(shard[i], i) /\ Typed /\ HandlesSound
  BY ShardedAssumption DEF Shards, IInv, GoodShards
<1>2. /\ Watch /\ UNCHANGED calls /\ handle' = [handle EXCEPT ![t] = h]
      /\ k \in CachedKeys(shard[i]) /\ shard' = [shard EXCEPT ![i] = Used(shard[i], k)]
  BY DEF Lookup
<1>3. h \in [key : Keys, cached : BOOLEAN] /\ h.key = k
  OBVIOUS
<1> HIDE DEF h
<1>4. DOMAIN handle' = Threads /\ handle'[t] = h /\ \A u \in Threads \ {t} : handle'[u] = handle[u]
  BY <1>1, <1>2 DEF Typed
<1>5. GoodShards(shard') /\ k \in shard'[i].using /\ \A j \in Shards : shard[j].using \subseteq shard'[j].using
  <2> HIDE DEF i
  <2>1. GoodShard(Used(shard[i], k), i) /\ Used(shard[i], k).using = shard[i].using \union {k}
    BY <1>1, <1>2, GoodUsed
  <2>2. /\ GoodShards(shard') /\ shard'[i] = Used(shard[i], k)
        /\ \A j \in Shards \ {i} : shard'[j] = shard[j]
    <3>1. DOMAIN shard' = Shards /\ shard'[i] = Used(shard[i], k) /\ \A j \in Shards \ {i} : shard'[j] = shard[j]
      BY <1>1, <1>2 DEF GoodShards
    <3>2. GoodShard(shard'[i], i)
      BY <2>1, <3>1
    <3>3. GoodShards(shard')
      BY <1>1, <3>1, <3>2, OneShard
    <3> QED BY <3>1, <3>3
  <2> QED BY <2>1, <2>2
<1>6. ASSUME NEW u \in Threads, handle'[u] # None
      PROVE  /\ handle'[u] \in [key : Keys, cached : BOOLEAN]
             /\ handle'[u].cached => handle'[u].key \in shard'[ShardOf[handle'[u].key]].using
  <2>1. CASE u = t
    BY <1>3, <1>4, <1>5, <2>1
  <2>2. CASE u # t
    <3>1. handle'[u] = handle[u] /\ handle[u] \in [key : Keys, cached : BOOLEAN]
      BY <1>1, <1>4, <1>6, <2>2 DEF Typed
    <3>2. handle[u].key \in Keys /\ ShardOf[handle[u].key] \in Shards
      BY <3>1, ShardedAssumption DEF Shards
    <3>3. handle[u].cached => handle[u].key \in shard[ShardOf[handle[u].key]].using
      BY <1>1, <1>6, <3>1 DEF HandlesSound
    <3> QED BY <1>5, <3>1, <3>2, <3>3
  <2> QED BY <2>1, <2>2
<1> QED BY <1>2, <1>4, <1>5, <1>6, MethodKeeps

\* Release.
LEMMA ReleaseKeeps ==
  ASSUME IInv, NEW t \in Threads, Release(t)
  PROVE  IInv'
<1> DEFINE k == handle[t].key
           i == ShardOf[k]
<1>1. GoodShards(shard) /\ Typed /\ HandlesSound
  BY DEF IInv
<1>2. Watch /\ UNCHANGED calls /\ handle[t] # None /\ handle' = [handle EXCEPT ![t] = None]
  BY DEF Release
<1>3. handle[t] \in [key : Keys, cached : BOOLEAN] /\ k \in Keys /\ i \in Shards
  BY <1>1, <1>2, ShardedAssumption DEF Typed, Shards
<1>4. DOMAIN handle' = Threads /\ handle'[t] = None /\ \A u \in Threads \ {t} : handle'[u] = handle[u]
  BY <1>1, <1>2 DEF Typed
<1>5. /\ GoodShards(shard')
      /\ \A u \in Threads \ {t} : handle[u] # None /\ handle[u].cached =>
           handle[u].key \in shard'[ShardOf[handle[u].key]].using
  <2>1. CASE handle[t].cached /\ \A u \in Threads \ {t} : handle[u] # handle[t]
    <3>1. shard' = [shard EXCEPT ![i] = Unused(shard[i], k)]
      BY <2>1 DEF Release
    <3>2. k \in shard[i].using /\ GoodShard(shard[i], i)
      BY <1>1, <1>2, <1>3, <2>1 DEF HandlesSound, GoodShards
    <3> HIDE DEF i, k
    <3>3. GoodShard(Unused(shard[i], k), i) /\ Unused(shard[i], k).using = shard[i].using \ {k}
      BY <3>2, GoodUnused
    <3>4. GoodShards(shard') /\ shard'[i] = Unused(shard[i], k) /\ \A j \in Shards \ {i} : shard'[j] = shard[j]
      <4>1. DOMAIN shard' = Shards /\ shard'[i] = Unused(shard[i], k) /\ \A j \in Shards \ {i} : shard'[j] = shard[j]
        BY <1>1, <1>3, <3>1 DEF GoodShards
      <4>2. GoodShard(shard'[i], i)
        BY <3>3, <4>1
      <4>3. GoodShards(shard')
        BY <1>1, <1>3, <4>1, <4>2, OneShard
      <4> QED BY <4>1, <4>3
    <3>5. ASSUME NEW u \in Threads \ {t}, handle[u] # None, handle[u].cached
          PROVE  handle[u].key \in shard'[ShardOf[handle[u].key]].using
      <4>1. handle[u] \in [key : Keys, cached : BOOLEAN] /\ handle[u] # handle[t]
        BY <1>1, <2>1, <3>5 DEF Typed
      <4>2. handle[u].key # k
        BY <1>3, <2>1, <3>5, <4>1 DEF k
      <4>3. handle[u].key \in shard[ShardOf[handle[u].key]].using
        BY <1>1, <3>5 DEF HandlesSound
      <4>4. ShardOf[handle[u].key] \in Shards
        BY <4>1, ShardedAssumption DEF Shards
      <4> QED BY <3>3, <3>4, <4>2, <4>3, <4>4
    <3> QED BY <3>4, <3>5
  <2>2. CASE ~(handle[t].cached /\ \A u \in Threads \ {t} : handle[u] # handle[t])
    <3>1. shard' = shard
      BY <2>2 DEF Release
    <3> QED BY <1>1, <3>1 DEF HandlesSound
  <2> QED BY <2>1, <2>2
<1>6. ASSUME NEW u \in Threads, handle'[u] # None
      PROVE  /\ handle'[u] \in [key : Keys, cached : BOOLEAN]
             /\ handle'[u].cached => handle'[u].key \in shard'[ShardOf[handle'[u].key]].using
  <2>1. u # t /\ handle'[u] = handle[u]
    BY <1>4, <1>6
  <2>2. handle[u] \in [key : Keys, cached : BOOLEAN]
    BY <1>1, <1>6, <2>1 DEF Typed
  <2> QED BY <1>5, <1>6, <2>1, <2>2
<1> QED BY <1>2, <1>4, <1>5, <1>6, MethodKeeps

\* Erase.
LEMMA EraseKeeps ==
  ASSUME IInv, NEW t \in Threads, NEW k \in Keys, Erase(t, k)
  PROVE  IInv'
<1> DEFINE i == ShardOf[k]
<1>1. i \in Shards /\ GoodShards(shard) /\ GoodShard(shard[i], i) /\ Typed /\ HandlesSound
  BY ShardedAssumption DEF Shards, IInv, GoodShards
<1>2. /\ Watch /\ UNCHANGED calls /\ handle' = Orphaned(handle, k)
      /\ shard' = [shard EXCEPT ![i] = Without(shard[i], k)]
  BY DEF Erase
<1>3. DOMAIN handle' = Threads
  BY <1>1, <1>2, OrphanedFacts
<1>4. /\ GoodShards(shard') /\ shard'[i].using = shard[i].using \ {k}
      /\ \A j \in Shards \ {i} : shard'[j] = shard[j]
  <2> HIDE DEF i
  <2>1. GoodShard(Without(shard[i], k), i) /\ Without(shard[i], k).using = shard[i].using \ {k}
    BY <1>1, GoodWithout
  <2>2. /\ GoodShards(shard') /\ shard'[i] = Without(shard[i], k)
        /\ \A j \in Shards \ {i} : shard'[j] = shard[j]
    <3>1. DOMAIN shard' = Shards /\ shard'[i] = Without(shard[i], k) /\ \A j \in Shards \ {i} : shard'[j] = shard[j]
      BY <1>1, <1>2 DEF GoodShards
    <3>2. GoodShard(shard'[i], i)
      BY <2>1, <3>1
    <3>3. GoodShards(shard')
      BY <1>1, <3>1, <3>2, OneShard
    <3> QED BY <3>1, <3>3
  <2> QED BY <2>1, <2>2
<1>5. ASSUME NEW u \in Threads, handle'[u] # None
      PROVE  /\ handle'[u] \in [key : Keys, cached : BOOLEAN]
             /\ handle'[u].cached => handle'[u].key \in shard'[ShardOf[handle'[u].key]].using
  <2>1. /\ handle'[u] \in [key : Keys, cached : BOOLEAN]
        /\ handle'[u].cached => handle'[u] = handle[u] /\ handle[u].key # k
    BY <1>1, <1>2, <1>5, OrphanedFacts
  <2>2. ASSUME handle'[u].cached PROVE handle'[u].key \in shard'[ShardOf[handle'[u].key]].using
    <3>1. handle'[u] = handle[u] /\ handle[u].key # k /\ handle[u].key \in Keys
      BY <2>1, <2>2
    <3>2. handle[u].key \in shard[ShardOf[handle[u].key]].using
      BY <1>1, <1>5, <2>2, <3>1 DEF HandlesSound
    <3>3. ShardOf[handle[u].key] \in Shards
      BY <3>1, ShardedAssumption DEF Shards
    <3> HIDE DEF i
    <3> QED BY <1>4, <3>1, <3>2, <3>3
  <2> QED BY <2>1, <2>2
<1> QED BY <1>2, <1>3, <1>4, <1>5, MethodKeeps

\* A call that visits all shards begins.
LEMMA BeginKeeps ==
  ASSUME IInv, NEW t \in Threads, Prune(t) \/ TotalCharge(t)
  PROVE  IInv'
<1>1. GoodShards(shard) /\ Typed /\ HandlesSound /\ PruneSound /\ ChargeSound
  BY DEF IInv
<1>2. /\ shard' = shard /\ handle' = handle
      /\ s' = [s EXCEPT ![t] = 1] /\ total' = [total EXCEPT ![t] = 0]
      /\ seen' = [seen EXCEPT ![t] = AllCached(shard)]
      /\ \/ pc' = [pc EXCEPT ![t] = "prune"] /\ kept' = [kept EXCEPT ![t] = Evictable(shard)]
         \/ pc' = [pc EXCEPT ![t] = "charge"] /\ kept' = [kept EXCEPT ![t] = AllCached(shard)]
  BY DEF Prune, TotalCharge, Begin
<1>3. Typed'
  BY <1>1, <1>2, ShardedAssumption DEF Typed
<1>4. GoodShards(shard') /\ HandlesSound'
  BY <1>1, <1>2 DEF HandlesSound
<1>5. \A u \in Threads \ {t} : /\ pc'[u] = pc[u] /\ s'[u] = s[u] /\ total'[u] = total[u]
                               /\ kept'[u] = kept[u] /\ seen'[u] = seen[u]
  BY <1>1, <1>2 DEF Typed
<1>6. /\ s'[t] = 1 /\ total'[t] = 0 /\ seen'[t] = AllCached(shard)
      /\ \/ pc'[t] = "prune" /\ kept'[t] = Evictable(shard)
         \/ pc'[t] = "charge" /\ kept'[t] = AllCached(shard)
  BY <1>1, <1>2 DEF Typed
<1>7. PruneSound'
  <2>1. \A k \in Evictable(shard) : k \in Keys
    BY <1>1, EvictableForm
  <2>2. \A k \in Keys : ShardOf[k] >= 1
    BY ShardedAssumption
  <2> QED BY <1>1, <1>5, <1>6, <2>1, <2>2 DEF PruneSound
<1>8. ChargeSound'
  <2>1. AllCached(shard) \subseteq Keys /\ IsFiniteSet(AllCached(shard))
    BY <1>1, AllCachedForm
  <2>2. Passed(AllCached(shard), 1) = {}
    BY <2>1, ShardedAssumption DEF Passed
  <2>3. Charge({}) = 0
    <3>1. Total(ChargeOf, {}) = 0
      BY FS_EmptySet, TotalRecursion
    <3> QED BY <3>1, ChargeForm
  <2>4. Within({}, 0, {})
    BY <2>3 DEF Within
  <2>5. ASSUME pc'[t] = "charge"
        PROVE  /\ kept'[t] \subseteq AllCached(shard') /\ AllCached(shard') \subseteq seen'[t]
               /\ seen'[t] \subseteq Keys /\ IsFiniteSet(seen'[t])
               /\ Within(Passed(kept'[t], s'[t]), total'[t], Passed(seen'[t], s'[t]))
    <3>1. kept'[t] = AllCached(shard) /\ seen'[t] = AllCached(shard) /\ s'[t] = 1 /\ total'[t] = 0
      BY <1>6, <2>5
    <3>2. Within(Passed(kept'[t], s'[t]), total'[t], Passed(seen'[t], s'[t]))
      BY <2>2, <2>4, <3>1
    <3> QED BY <1>2, <2>1, <3>1, <3>2
  <2>6. ASSUME NEW u \in Threads \ {t}, pc'[u] = "charge"
        PROVE  /\ kept'[u] \subseteq AllCached(shard') /\ AllCached(shard') \subseteq seen'[u]
               /\ seen'[u] \subseteq Keys /\ IsFiniteSet(seen'[u])
               /\ Within(Passed(kept'[u], s'[u]), total'[u], Passed(seen'[u], s'[u]))
    <3>1. /\ pc'[u] = pc[u] /\ s'[u] = s[u] /\ total'[u] = total[u]
          /\ kept'[u] = kept[u] /\ seen'[u] = seen[u]
      BY <1>5
    <3>2. /\ kept[u] \subseteq AllCached(shard) /\ AllCached(shard) \subseteq seen[u]
          /\ seen[u] \subseteq Keys /\ IsFiniteSet(seen[u])
          /\ Within(Passed(kept[u], s[u]), total[u], Passed(seen[u], s[u]))
      BY <1>1, <2>6, <3>1 DEF ChargeSound
    <3> QED BY <1>2, <3>1, <3>2
  <2> QED BY <2>5, <2>6 DEF ChargeSound
<1> QED BY <1>3, <1>4, <1>7, <1>8 DEF IInv

\* One shard's turn in Prune.
LEMMA PruneShardKeeps ==
  ASSUME IInv, NEW t \in Threads, PruneShard(t)
  PROVE  IInv'
<1> DEFINE i == s[t]
<1>1. GoodShards(shard) /\ Typed /\ HandlesSound /\ PruneSound
  BY DEF IInv
<1>2. /\ pc[t] = "prune" /\ i <= kNumShards /\ Watch /\ handle' = handle /\ pc' = pc /\ total' = total
      /\ shard' = [shard EXCEPT ![i] = Pruned(shard[i])] /\ s' = [s EXCEPT ![t] = i + 1]
  BY DEF PruneShard, InLoop
<1>3. i \in Shards /\ GoodShard(shard[i], i)
  BY <1>1, <1>2, ShardedAssumption DEF Typed, Shards, GoodShards
<1>4. s' \in [Threads -> 1..(kNumShards + 1)] /\ s'[t] = i + 1 /\ \A u \in Threads \ {t} : s'[u] = s[u]
  BY <1>1, <1>2, ShardedAssumption DEF Typed
<1> HIDE DEF i
<1>5. GoodShard(Pruned(shard[i]), i) /\ Pruned(shard[i]).using = shard[i].using /\ Pruned(shard[i]).order = << >>
  BY <1>3, GoodPruned
<1>6. DOMAIN shard' = Shards /\ shard'[i] = Pruned(shard[i]) /\ \A j \in Shards \ {i} : shard'[j] = shard[j]
  BY <1>1, <1>2, <1>3 DEF GoodShards
<1>7. GoodShards(shard')
  <2>1. GoodShard(shard'[i], i)
    BY <1>5, <1>6
  <2> QED BY <1>1, <1>3, <1>6, <2>1, OneShard
<1>8. ASSUME NEW k \in kept'[t] PROVE ShardOf[k] >= i + 1
  <2>1. k \in kept[t] /\ k \in Evictable(shard')
    BY <1>2 DEF Watch
  <2>2. k \in Keys /\ ShardOf[k] >= i
    BY <1>1, <1>2, <2>1 DEF PruneSound, i
  <2>3. OnList(shard'[ShardOf[k]].order, k)
    BY <1>7, <2>1, EvictableForm
  <2>4. ~OnList(shard'[i].order, k)
    BY <1>5, <1>6 DEF OnList
  <2>5. ShardOf[k] # i
    BY <2>3, <2>4
  <2>6. ShardOf[k] \in Int /\ i \in Int
    BY <1>3, <2>2, ShardedAssumption DEF Shards
  <2> QED BY <2>2, <2>5, <2>6
<1>9. \A u \in Threads : \/ s'[u] = s[u]
                         \/ pc[u] = "prune" /\ \A k \in kept'[u] : ShardOf[k] >= s'[u]
  BY <1>2, <1>4, <1>8
<1>10. PruneSound' /\ ChargeSound' /\ DOMAIN kept' = Threads /\ DOMAIN seen' = Threads
  BY <1>2, <1>7, <1>9, WatchKeeps
<1>11. Typed'
  BY <1>1, <1>2, <1>4, <1>10 DEF Typed
<1>12. HandlesSound'
  <2>1. \A j \in Shards : shard'[j].using = shard[j].using
    BY <1>5, <1>6
  <2>2. \A u \in Threads : handle[u] # None => ShardOf[handle[u].key] \in Shards
    BY <1>1, ShardedAssumption DEF Typed, Shards
  <2> QED BY <1>1, <1>2, <2>1, <2>2 DEF HandlesSound
<1> QED BY <1>7, <1>10, <1>11, <1>12 DEF IInv

\* One shard's turn in TotalCharge.
LEMMA ChargeShardKeeps ==
  ASSUME IInv, NEW t \in Threads, ChargeShard(t)
  PROVE  IInv'
<1> DEFINE i == s[t]
           C == CachedKeys(shard[i])
<1>1. GoodShards(shard) /\ Typed /\ HandlesSound /\ PruneSound /\ ChargeSound
  BY DEF IInv
<1>2. /\ pc[t] = "charge" /\ i <= kNumShards
      /\ shard' = shard /\ handle' = handle /\ pc' = pc /\ kept' = kept /\ seen' = seen
      /\ total' = [total EXCEPT ![t] = total[t] + Usage(shard[i])] /\ s' = [s EXCEPT ![t] = i + 1]
  BY <1>1 DEF ChargeShard, InLoop, Typed
<1>3. i \in Shards /\ i \in Nat /\ GoodShard(shard[i], i)
  BY <1>1, <1>2, ShardedAssumption DEF Typed, Shards, GoodShards
<1>4. s' \in [Threads -> 1..(kNumShards + 1)] /\ s'[t] = i + 1 /\ \A u \in Threads \ {t} : s'[u] = s[u]
  BY <1>1, <1>2, ShardedAssumption DEF Typed
<1>5. /\ DOMAIN total' = Threads /\ total'[t] = total[t] + Usage(shard[i])
      /\ \A u \in Threads \ {t} : total'[u] = total[u]
  BY <1>1, <1>2 DEF Typed
<1>6. Typed'
  BY <1>1, <1>2, <1>4, <1>5 DEF Typed
<1>7. GoodShards(shard') /\ HandlesSound'
  BY <1>1, <1>2 DEF HandlesSound
<1>8. PruneSound'
  <2>1. \A u \in Threads : pc[u] = "prune" => s'[u] = s[u]
    BY <1>2, <1>4
  <2> QED BY <1>1, <1>2, <2>1 DEF PruneSound
<1>9. /\ kept[t] \subseteq AllCached(shard) /\ AllCached(shard) \subseteq seen[t]
      /\ seen[t] \subseteq Keys /\ IsFiniteSet(seen[t])
      /\ Within(Passed(kept[t], i), total[t], Passed(seen[t], i))
  BY <1>1, <1>2 DEF ChargeSound
<1>10. Usage(shard[i]) = Charge(C)
  BY <1>3, UsageIsCharge
<1> HIDE DEF i
<1> DEFINE a == Passed(kept[t], i)
           b == Passed(seen[t], i)
           KeptHere == {k \in kept[t] : ShardOf[k] = i}
           SeenHere == {k \in seen[t] : ShardOf[k] = i}
<1>11. IsFiniteSet(kept[t]) /\ kept[t] \in SUBSET Keys /\ seen[t] \in SUBSET Keys
  BY <1>9, FS_Subset
<1>12. Charge(Passed(kept[t], i + 1)) = Charge(a) + Charge(KeptHere)
  BY <1>3, <1>11, PassedOneMore
<1>13. Charge(Passed(seen[t], i + 1)) = Charge(b) + Charge(SeenHere)
  BY <1>3, <1>9, <1>11, PassedOneMore
<1>14. KeptHere \subseteq C
  BY <1>1, <1>9, AllCachedForm
<1>15. C \subseteq SeenHere
  <2>1. \A k \in C : ShardOf[k] = i
    BY <1>3, CachedForm
  <2>2. C \subseteq AllCached(shard)
    BY <1>1, <1>3, AllCachedForm
  <2> QED BY <1>9, <2>1, <2>2
<1>16. SeenHere \subseteq Keys /\ IsFiniteSet(SeenHere) /\ a \subseteq Keys /\ b \subseteq Keys
       /\ IsFiniteSet(a) /\ IsFiniteSet(b)
  BY <1>9, <1>11, FS_Subset DEF Passed
<1> HIDE DEF C, a, b, KeptHere, SeenHere
<1>17. IsFiniteSet(C) /\ C \subseteq Keys /\ IsFiniteSet(KeptHere) /\ KeptHere \subseteq Keys
  BY <1>14, <1>15, <1>16, FS_Subset
<1>18. Charge(KeptHere) <= Charge(C) /\ Charge(C) <= Charge(SeenHere)
  BY <1>14, <1>15, <1>16, <1>17, ChargeGrows
<1>19. /\ Charge(a) \in Nat /\ Charge(b) \in Nat /\ Charge(C) \in Nat
       /\ Charge(KeptHere) \in Nat /\ Charge(SeenHere) \in Nat
  BY <1>16, <1>17, ChargeIsNat
<1>20. total[t] \in Nat /\ Charge(a) <= total[t] /\ total[t] <= Charge(b)
  BY <1>9 DEF Within, a, b
<1>21. Within(Passed(kept[t], i + 1), total[t] + Charge(C), Passed(seen[t], i + 1))
  BY <1>12, <1>13, <1>18, <1>19, <1>20 DEF Within
<1>22. ASSUME NEW u \in Threads, pc'[u] = "charge"
       PROVE  /\ kept'[u] \subseteq AllCached(shard') /\ AllCached(shard') \subseteq seen'[u]
              /\ seen'[u] \subseteq Keys /\ IsFiniteSet(seen'[u])
              /\ Within(Passed(kept'[u], s'[u]), total'[u], Passed(seen'[u], s'[u]))
  <2>1. CASE u = t
    <3>1. Within(Passed(kept'[t], s'[t]), total'[t], Passed(seen'[t], s'[t]))
      BY <1>2, <1>4, <1>5, <1>10, <1>21
    <3> QED BY <1>2, <1>9, <2>1, <3>1
  <2>2. CASE u # t
    <3>1. /\ pc'[u] = pc[u] /\ s'[u] = s[u] /\ total'[u] = total[u]
          /\ kept'[u] = kept[u] /\ seen'[u] = seen[u]
      BY <1>2, <1>4, <1>5, <2>2
    <3>2. /\ kept[u] \subseteq AllCached(shard) /\ AllCached(shard) \subseteq seen[u]
          /\ seen[u] \subseteq Keys /\ IsFiniteSet(seen[u])
          /\ Within(Passed(kept[u], s[u]), total[u], Passed(seen[u], s[u]))
      BY <1>1, <1>22, <3>1 DEF ChargeSound
    <3> QED BY <1>2, <3>1, <3>2
  <2> QED BY <2>1, <2>2
<1>23. ChargeSound'
  BY <1>22 DEF ChargeSound
<1> QED BY <1>6, <1>7, <1>8, <1>23 DEF IInv

LEMMA ReturnKeeps ==
  ASSUME IInv, NEW t \in Threads, Return(t)
  PROVE  IInv'
<1>1. GoodShards(shard) /\ Typed /\ HandlesSound /\ PruneSound /\ ChargeSound
  BY DEF IInv
<1>2. /\ shard' = shard /\ handle' = handle /\ pc' = [pc EXCEPT ![t] = "idle"]
      /\ s' = [s EXCEPT ![t] = 1] /\ total' = [total EXCEPT ![t] = 0]
      /\ kept' = [kept EXCEPT ![t] = {}] /\ seen' = [seen EXCEPT ![t] = {}]
  BY DEF Return
<1>3. Typed'
  BY <1>1, <1>2, ShardedAssumption DEF Typed
<1>4. GoodShards(shard') /\ HandlesSound'
  BY <1>1, <1>2 DEF HandlesSound
<1>5. pc'[t] = "idle"
  BY <1>1, <1>2 DEF Typed
<1>6. \A u \in Threads \ {t} : /\ pc'[u] = pc[u] /\ s'[u] = s[u] /\ total'[u] = total[u]
                               /\ kept'[u] = kept[u] /\ seen'[u] = seen[u]
  BY <1>1, <1>2 DEF Typed
<1>7. PruneSound'
  BY <1>1, <1>5, <1>6 DEF PruneSound
<1>8. ASSUME NEW u \in Threads, pc'[u] = "charge"
      PROVE  /\ kept'[u] \subseteq AllCached(shard') /\ AllCached(shard') \subseteq seen'[u]
             /\ seen'[u] \subseteq Keys /\ IsFiniteSet(seen'[u])
             /\ Within(Passed(kept'[u], s'[u]), total'[u], Passed(seen'[u], s'[u]))
  <2>1. u # t
    BY <1>5, <1>8
  <2>2. /\ pc'[u] = pc[u] /\ s'[u] = s[u] /\ total'[u] = total[u]
        /\ kept'[u] = kept[u] /\ seen'[u] = seen[u]
    BY <1>6, <2>1
  <2>3. /\ kept[u] \subseteq AllCached(shard) /\ AllCached(shard) \subseteq seen[u]
        /\ seen[u] \subseteq Keys /\ IsFiniteSet(seen[u])
        /\ Within(Passed(kept[u], s[u]), total[u], Passed(seen[u], s[u]))
    BY <1>1, <1>8, <2>2 DEF ChargeSound
  <2> QED BY <1>2, <2>2, <2>3
<1>9. ChargeSound'
  BY <1>8 DEF ChargeSound
<1> QED BY <1>3, <1>4, <1>7, <1>9 DEF IInv

LEMMA Inductive == IInv /\ [Next]_vars => IInv'
<1> SUFFICES ASSUME IInv, [Next]_vars PROVE IInv'
  OBVIOUS
<1>1. CASE UNCHANGED vars
  BY <1>1 DEF vars, IInv, Typed, HandlesSound, PruneSound, ChargeSound
<1>2. CASE Next
  <2>1. PICK t \in Threads :
          \/ \E k \in Keys : Insert(t, k) \/ Lookup(t, k) \/ Erase(t, k)
          \/ Release(t) \/ Prune(t) \/ TotalCharge(t)
          \/ PruneShard(t) \/ ChargeShard(t) \/ Return(t)
    BY <1>2 DEF Next
  <2>2. CASE \E k \in Keys : Insert(t, k) \/ Lookup(t, k) \/ Erase(t, k)
    BY <2>2, InsertKeeps, LookupKeeps, EraseKeeps
  <2>3. CASE Release(t)
    BY <2>3, ReleaseKeeps
  <2>4. CASE Prune(t) \/ TotalCharge(t)
    BY <2>4, BeginKeeps
  <2>5. CASE PruneShard(t)
    BY <2>5, PruneShardKeeps
  <2>6. CASE ChargeShard(t)
    BY <2>6, ChargeShardKeeps
  <2>7. CASE Return(t)
    BY <2>7, ReturnKeeps
  <2> QED BY <2>1, <2>2, <2>3, <2>4, <2>5, <2>6, <2>7
<1> QED BY <1>1, <1>2

LEMMA Invariance == Spec => []IInv
  BY Initially, Inductive, PTL DEF Spec

-----------------------------------------------------------------------------
\* When Prune has visited the last shard, nothing is left that nobody used since
\* it began, and what TotalCharge has added up lies between what was cached all
\* the time and what was cached at some time, whatever other threads did between
\* the shards.
THEOREM CallsAccounted == Spec => []CallsAccountForShards
<1>1. ASSUME IInv PROVE CallsAccountForShards
  <2> SUFFICES ASSUME NEW t \in Threads, pc[t] # "idle", ~InLoop(t)
               PROVE  IF pc[t] = "prune" THEN kept[t] = {}
                      ELSE total[t] \in Charge(kept[t])..Charge(seen[t])
    BY DEF CallsAccountForShards
  <2>1. Typed /\ PruneSound /\ ChargeSound
    BY <1>1 DEF IInv
  <2>2. pc[t] \in {"prune", "charge"} /\ s[t] \in Nat /\ s[t] > kNumShards
    BY <2>1, ShardedAssumption DEF Typed, InLoop
  <2>3. \A k \in Keys : ShardOf[k] \in Nat /\ ShardOf[k] < s[t]
    BY <2>2, ShardedAssumption
  <2>4. CASE pc[t] = "prune"
    <3>1. \A k \in kept[t] : k \in Keys /\ ShardOf[k] >= s[t]
      BY <2>1, <2>4 DEF PruneSound
    <3>2. kept[t] = {}
      BY <2>2, <2>3, <3>1
    <3> QED BY <2>4, <3>2
  <2>5. CASE pc[t] = "charge"
    <3>1. /\ kept[t] \subseteq seen[t] /\ seen[t] \subseteq Keys /\ IsFiniteSet(seen[t])
          /\ Within(Passed(kept[t], s[t]), total[t], Passed(seen[t], s[t]))
      BY <2>1, <2>5 DEF ChargeSound
    <3>2. Passed(kept[t], s[t]) = kept[t] /\ Passed(seen[t], s[t]) = seen[t]
      BY <2>3, <3>1 DEF Passed
    <3>3. IsFiniteSet(kept[t]) /\ kept[t] \subseteq Keys
      BY <3>1, FS_Subset
    <3>4. Charge(kept[t]) \in Nat /\ Charge(seen[t]) \in Nat
      BY <3>1, <3>3, ChargeIsNat
    <3>5. total[t] \in Charge(kept[t])..Charge(seen[t])
      BY <3>1, <3>2, <3>4 DEF Within
    <3> QED BY <2>5, <3>5
  <2> QED BY <2>2, <2>4, <2>5
<1> QED BY <1>1, Invariance, PTL

=============================================================================
