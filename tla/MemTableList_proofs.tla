------------------------- MODULE MemTableList_proofs -------------------------
(***************************************************************************)
(* Proofs about the memtable's list and its memory: modules Arena,         *)
(* SkipList and MemTableList.                                              *)
(*                                                                         *)
(* Arena: regions lie in their blocks, are disjoint and aligned.           *)
(*                                                                         *)
(* Skip list: ListInv, the inductive invariant, has three parts.  MemoryOK *)
(* speaks of the history of stores: after every store the levels are       *)
(* sorted, links are only ever added, and a store without release goes to  *)
(* a node that is not linked on that level yet.  WriterOK says how far     *)
(* Insert got and that its prev still fits.  ReaderOK says that a reader   *)
(* sees its node linked on the level it searches, so a load of its link,   *)
(* however late or early, finds one state of the history.                  *)
(*                                                                         *)
(* Memtable: PlaceInv says that the region of a node has room for the      *)
(* links that are set and for the ones Insert is about to set.             *)
(***************************************************************************)
EXTENDS MemTableList, TLAPS

-----------------------------------------------------------------------------
\* The arena.

\* The inductive invariant of the arena.
ArenaInv == TypeOK /\ FreeTailUnused /\ RegionsInBlocks /\ RegionsDisjoint /\ AlignedRegions

\* A multiple of d leaves no remainder; the padding makes the address one of align.
LEMMA MultipleHasNoRemainder ==
  ASSUME NEW d \in Nat \ {0}, NEW k \in Int PROVE (d * k) % d = 0
<1> DEFINE r == (d * k) % d
           q == (d * k) \div d
<1>1. d * k \in Int /\ r \in Int /\ q \in Int /\ 0 <= r /\ r < d /\ d * k = d * q + r
  OBVIOUS
<1>2. k - q \in Int /\ d * (k - q) = r
  BY <1>1
<1>3. CASE k - q >= 1
  <2>1. d * (k - q) >= d
    BY <1>2, <1>3
  <2>2. QED
    BY <1>1, <1>2, <2>1
<1>4. CASE k - q <= -1
  <2>1. d * (k - q) <= -d
    BY <1>2, <1>4
  <2>2. QED
    BY <1>1, <1>2, <2>1
<1>5. CASE k - q = 0
  BY <1>2, <1>5
<1>6. QED
  BY <1>1, <1>3, <1>4, <1>5

\* The padding AllocateAligned adds ends at a multiple of align.
LEMMA PaddingAligns ==
  ASSUME ptr \in Nat PROVE Padding \in Nat /\ (ptr + Padding) % Align = 0
<1> USE ArenaAssumption
<1>1. ptr % Align \in Nat /\ ptr % Align < Align
  OBVIOUS
<1>2. CASE ptr % Align = 0
  BY <1>2 DEF Padding
<1>3. CASE ptr % Align # 0
  <2>1. Padding = Align - (ptr % Align) /\ Padding \in Nat
    BY <1>1, <1>3 DEF Padding
  <2> DEFINE q == ptr \div Align
  <2>2. q \in Int /\ ptr = Align * q + (ptr % Align)
    OBVIOUS
  <2>3. ptr + Padding = Align * (q + 1) /\ q + 1 \in Int
    BY <2>1, <2>2, <1>1
  <2>4. (Align * (q + 1)) % Align = 0
    BY <2>3, MultipleHasNoRemainder
  <2>5. QED
    BY <2>1, <2>3, <2>4
<1>4. QED
  BY <1>2, <1>3

\* A region taken from the free tail of the current block.
LEMMA TailKeeps ==
  ASSUME ArenaInv, NEW padding \in Nat, NEW bytes \in Requests, NEW al \in BOOLEAN,
         al => (ptr + padding) % Align = 0,
         bytes + padding <= remaining,
         ptr' = ptr + padding + bytes,
         remaining' = remaining - (padding + bytes),
         Give(cur, ptr + padding, bytes, al),
         UNCHANGED <<blocks, blockSize, cur, usage>>
  PROVE  ArenaInv'
<1> USE ArenaAssumption
<1> DEFINE n == [block |-> cur, start |-> ptr + padding, size |-> bytes, aligned |-> al]
<1>1. /\ bytes \in Nat \ {0} /\ ptr \in Nat /\ remaining \in Nat
      /\ cur \in 1..blocks /\ blocks \in Nat
      /\ ptr + remaining = blockSize[cur]
  BY DEF ArenaInv, TypeOK, FreeTailUnused
<1>2. regions' = regions \union {n}
  BY DEF Give
<1>3. /\ n.block = cur /\ n.start = ptr + padding /\ n.size = bytes /\ n.aligned = al
      /\ n \in [block : 1..blocks, start : Nat, size : Nat, aligned : BOOLEAN]
  BY <1>1
<1> HIDE DEF n
<1>4. \A r \in regions : r.block \in 1..blocks /\ r.start \in Nat /\ r.size \in Nat
  BY DEF ArenaInv, TypeOK
<1>5. TypeOK'
  BY <1>1, <1>2, <1>3 DEF ArenaInv, TypeOK
<1>6. FreeTailUnused'
  BY <1>1, <1>2, <1>3, <1>4 DEF ArenaInv, FreeTailUnused
<1>7. RegionsInBlocks'
  BY <1>1, <1>2, <1>3 DEF ArenaInv, RegionsInBlocks
<1>8. RegionsDisjoint'
  <2>1. \A r \in regions : r.block = n.block => r.start + r.size <= n.start
    BY <1>1, <1>3, <1>4 DEF ArenaInv, FreeTailUnused
  <2>2. QED
    BY <1>2, <2>1 DEF ArenaInv, RegionsDisjoint
<1>9. AlignedRegions'
  BY <1>2, <1>3 DEF ArenaInv, AlignedRegions
<1>10. QED
  BY <1>5, <1>6, <1>7, <1>8, <1>9 DEF ArenaInv

\* A region at the start of a new block.
LEMMA FallbackKeeps ==
  ASSUME ArenaInv, NEW bytes \in Requests, NEW al \in BOOLEAN, AllocateFallback(bytes, al)
  PROVE  ArenaInv'
<1> USE ArenaAssumption
<1> DEFINE n == [block |-> blocks + 1, start |-> 0, size |-> bytes, aligned |-> al]
<1>1. /\ bytes \in Nat \ {0} /\ ptr \in Nat /\ remaining \in Nat
      /\ blocks \in 0..MaxBlocks /\ cur \in 0..blocks
  BY DEF ArenaInv, TypeOK
<1>2. regions' = regions \union {n}
  BY DEF AllocateFallback, Give
<1>3. PICK size \in Nat :
        /\ size >= bytes /\ AllocateNewBlock(size)
        /\ \/ UNCHANGED <<cur, ptr, remaining>>
           \/ cur' = blocks + 1 /\ ptr' = bytes /\ remaining' = size - bytes
  BY <1>1 DEF AllocateFallback
<1>4. /\ blocks + 1 \in 1..MaxBlocks /\ blocks' = blocks + 1
      /\ blockSize' = [blockSize EXCEPT ![blocks + 1] = size]
      /\ usage' = usage + size
      /\ blockSize' \in [1..MaxBlocks -> Nat]
      /\ blockSize'[blocks + 1] = size
      /\ \A b \in 1..blocks : blockSize'[b] = blockSize[b]
  BY <1>1, <1>3 DEF AllocateNewBlock, ArenaInv, TypeOK
<1>5. /\ n.block = blocks + 1 /\ n.start = 0 /\ n.size = bytes /\ n.aligned = al
      /\ n \in [block : 1..(blocks + 1), start : Nat, size : Nat, aligned : BOOLEAN]
  BY <1>1, <1>4
<1> HIDE DEF n
<1>6. \A r \in regions : r.block \in 1..blocks /\ r.start \in Nat /\ r.size \in Nat
  BY DEF ArenaInv, TypeOK
<1>7. TypeOK'
  <2>1. regions' \subseteq [block : 1..blocks', start : Nat, size : Nat, aligned : BOOLEAN]
    <3>1. [block : 1..blocks, start : Nat, size : Nat, aligned : BOOLEAN]
            \subseteq [block : 1..blocks', start : Nat, size : Nat, aligned : BOOLEAN]
      BY <1>1, <1>4
    <3>2. QED
      BY <1>2, <1>4, <1>5, <3>1 DEF ArenaInv, TypeOK
  <2>2. QED
    BY <1>1, <1>3, <1>4, <2>1 DEF ArenaInv, TypeOK
<1>8. FreeTailUnused'
  BY <1>1, <1>2, <1>3, <1>4, <1>5, <1>6 DEF ArenaInv, FreeTailUnused
<1>9. RegionsInBlocks'
  BY <1>2, <1>3, <1>4, <1>5, <1>6 DEF ArenaInv, RegionsInBlocks
<1>10. RegionsDisjoint'
  BY <1>1, <1>2, <1>5, <1>6 DEF ArenaInv, RegionsDisjoint
<1>11. AlignedRegions'
  <2>1. 0 % Align = 0
    OBVIOUS
  <2>2. QED
    BY <1>2, <1>5, <2>1 DEF ArenaInv, AlignedRegions
<1>12. QED
  BY <1>7, <1>8, <1>9, <1>10, <1>11 DEF ArenaInv

\* Every allocation keeps the invariant.
LEMMA ArenaInductive == ArenaInv /\ [ArenaNext]_arenaVars => ArenaInv'
<1> SUFFICES ASSUME ArenaInv, [ArenaNext]_arenaVars PROVE ArenaInv'
  OBVIOUS
<1>1. ASSUME NEW bytes \in Requests, Allocate(bytes) PROVE ArenaInv'
  BY <1>1, TailKeeps, FallbackKeeps DEF Allocate, AllocateAfter
<1>2. ASSUME NEW bytes \in Requests, AllocateAligned(bytes) PROVE ArenaInv'
  <2>1. Padding \in Nat /\ (ptr + Padding) % Align = 0
    BY PaddingAligns DEF ArenaInv, TypeOK
  <2>2. QED
    BY <1>2, <2>1, TailKeeps, FallbackKeeps DEF AllocateAligned, AllocateAfter
<1>3. CASE UNCHANGED arenaVars
  BY <1>3 DEF arenaVars, ArenaInv, TypeOK, FreeTailUnused, RegionsInBlocks, RegionsDisjoint,
              AlignedRegions
<1>4. QED
  BY <1>1, <1>2, <1>3 DEF ArenaNext

\* A new arena has handed out nothing.
LEMMA ArenaInitially == ArenaInit => ArenaInv
BY ArenaAssumption
   DEF ArenaInit, ArenaInv, TypeOK, FreeTailUnused, RegionsInBlocks, RegionsDisjoint, AlignedRegions

\* The invariant of the arena on its own.
LEMMA ArenaInvariance == ArenaSpec => []ArenaInv
BY ArenaInitially, ArenaInductive, PTL DEF ArenaSpec

\* No two allocations share a byte: neither padding, nor large requests with
\* blocks of their own, nor the switch to a fresh block makes regions overlap.
THEOREM AllocationsDisjoint == ArenaSpec => []RegionsDisjoint
<1>1. ArenaInv => RegionsDisjoint
  BY DEF ArenaInv
<1>2. QED
  BY ArenaInvariance, <1>1, PTL

\* Every allocation lies inside a block that operator new returned.
THEOREM AllocationsInBlocks == ArenaSpec => []RegionsInBlocks
<1>1. ArenaInv => RegionsInBlocks
  BY DEF ArenaInv
<1>2. QED
  BY ArenaInvariance, <1>1, PTL

\* What AllocateAligned returns is aligned.
THEOREM AllocationsAligned == ArenaSpec => []AlignedRegions
<1>1. ArenaInv => AlignedRegions
  BY DEF ArenaInv
<1>2. QED
  BY ArenaInvariance, <1>1, PTL

\* A block is given up only when less than a quarter of a block and the padding is left.
THEOREM WasteIsBounded == ArenaSpec => WasteBounded
<1>1. ASSUME ArenaInv, [ArenaNext]_arenaVars, cur' # cur PROVE remaining < BlockSize \div 4 + Align
  <2> USE ArenaAssumption
  <2>1. ptr \in Nat /\ remaining \in Nat
    BY <1>1 DEF ArenaInv, TypeOK
  <2>2. Padding \in Nat /\ Padding < Align
    <3>1. ptr % Align \in Nat
      BY <2>1
    <3>2. QED
      BY <2>1, <3>1 DEF Padding
  <2>3. PICK bytes \in Requests, padding \in {0, Padding}, al \in BOOLEAN :
          bytes + padding > remaining /\ AllocateFallback(bytes, al)
    BY <1>1 DEF ArenaNext, arenaVars, Allocate, AllocateAligned, AllocateAfter
  <2>4. bytes <= BlockSize \div 4 /\ bytes \in Nat
    BY <1>1, <2>3 DEF AllocateFallback
  <2>5. QED
    BY <2>1, <2>2, <2>3, <2>4
<1>2. ArenaInv /\ [ArenaNext]_arenaVars => [cur' # cur => remaining < BlockSize \div 4 + Align]_arenaVars
  BY <1>1
<1>3. QED
  BY ArenaInvariance, <1>2, PTL DEF ArenaSpec, WasteBounded

-----------------------------------------------------------------------------
\* The skip list: stores and what they leave as it was.

USE KeysAssumption, HeightAssumption, ActorAssumption, PointerAssumption DEF head

\* The list after a store.
Pointers == Keys \union {Null, Uninit}
Memory == [next : [Nodes -> [Levels -> Pointers]], max_height : 1..kMaxHeight,
           made : SUBSET Nodes, loc : (Nodes \union {Null}) \X Levels, release : BOOLEAN]

\* A store appends one state to the history and changes no earlier one.
LEMMA StoreFacts ==
  ASSUME mem \in Seq(Memory), NEW m \in Memory, Store(m)
  PROVE  /\ mem' \in Seq(Memory) /\ Now \in Nat /\ Now' = Now + 1 /\ mem'[Now'] = m
         /\ \A t \in 1..Now : mem'[t] = mem[t]
BY DEF Store, Now

\* The history is never empty.
LEMMA NowFacts ==
  ASSUME mem \in Seq(Memory), mem # << >>
  PROVE  Now \in Nat \ {0} /\ Now \in 1..Now /\ mem[Now] \in Memory /\ \A t \in 1..Now : mem[t] \in Memory
BY DEF Now

\* The three kinds of stores: a link, max_height_, the key of a new node.
WithLink(m, n, l, y, b) == [m EXCEPT !.next[n][l] = y, !.loc = <<n, l>>, !.release = b]
WithHeight(m, h) == [m EXCEPT !.max_height = h, !.loc = <<Null, 0>>, !.release = FALSE]
WithNode(m, k) == [m EXCEPT !.made = @ \union {k}, !.loc = <<Null, 0>>, !.release = FALSE]

\* SetNext changes one link and nothing else.
LEMMA LinkForm ==
  ASSUME NEW m \in Memory, NEW n \in Nodes, NEW l \in Levels, NEW y \in Pointers, NEW b \in BOOLEAN
  PROVE  /\ WithLink(m, n, l, y, b) \in Memory
         /\ WithLink(m, n, l, y, b).max_height = m.max_height
         /\ WithLink(m, n, l, y, b).made = m.made
         /\ WithLink(m, n, l, y, b).loc = <<n, l>> /\ WithLink(m, n, l, y, b).release = b
         /\ \A p \in Nodes, i \in Levels :
              WithLink(m, n, l, y, b).next[p][i] = IF p = n /\ i = l THEN y ELSE m.next[p][i]
<1>0. PICK w : w = WithLink(m, n, l, y, b)
  OBVIOUS
<1> DEFINE f == [m.next EXCEPT ![n] = [m.next[n] EXCEPT ![l] = y]]
<1>1. /\ w.max_height = m.max_height /\ w.made = m.made /\ w.loc = <<n, l>> /\ w.release = b
      /\ w.next = f
  BY <1>0 DEF Memory, WithLink
<1>2. w = [next |-> w.next, max_height |-> w.max_height, made |-> w.made, loc |-> w.loc,
           release |-> w.release]
  BY <1>0 DEF Memory, WithLink
<1>3. /\ m.next \in [Nodes -> [Levels -> Pointers]] /\ m.max_height \in 1..kMaxHeight
      /\ m.made \in SUBSET Nodes
  BY DEF Memory
<1>4. f \in [Nodes -> [Levels -> Pointers]]
  BY <1>3
<1>5. \A p \in Nodes, i \in Levels : f[p][i] = IF p = n /\ i = l THEN y ELSE m.next[p][i]
  BY <1>3
<1>6. <<n, l>> \in (Nodes \union {Null}) \X Levels
  OBVIOUS
<1> HIDE DEF f
<1>7. w \in Memory
  BY <1>1, <1>2, <1>3, <1>4, <1>6 DEF Memory
<1>8. \A p \in Nodes, i \in Levels : w.next[p][i] = IF p = n /\ i = l THEN y ELSE m.next[p][i]
  BY <1>1, <1>5
<1> QED BY <1>0, <1>1, <1>7, <1>8

\* The store of max_height_ leaves links and nodes alone.
LEMMA HeightForm ==
  ASSUME NEW m \in Memory, NEW h \in 1..kMaxHeight
  PROVE  /\ WithHeight(m, h) \in Memory
         /\ WithHeight(m, h).next = m.next /\ WithHeight(m, h).max_height = h
         /\ WithHeight(m, h).made = m.made /\ WithHeight(m, h).loc = <<Null, 0>>
<1>1. 0 \in Levels
  BY DEF Levels
<1> QED BY <1>1 DEF Memory, WithHeight

\* The constructor of a node adds it and stores no link.
LEMMA NodeForm ==
  ASSUME NEW m \in Memory, NEW k \in Keys
  PROVE  /\ WithNode(m, k) \in Memory
         /\ WithNode(m, k).next = m.next /\ WithNode(m, k).max_height = m.max_height
         /\ WithNode(m, k).made = m.made \union {k} /\ WithNode(m, k).loc = <<Null, 0>>
<1>1. 0 \in Levels /\ k \in Nodes
  BY DEF Levels, Nodes
<1> QED BY <1>1 DEF Memory, WithNode

-----------------------------------------------------------------------------
\* The inductive invariant of the skip list.

\* What LevelsSorted says of one level of one state of the list.
SortedLevel(m, l) ==
  \A n \in Linked(m, l) \union {head} : Follows(Linked(m, l), n, m.next[n][l])

Sorted(m) ==
  \A l \in Levels : /\ SortedLevel(m, l)
                    /\ l > 0 => Linked(m, l) \subseteq Linked(m, l - 1)

\* Nodes are complete before they are linked, links are only added, and a store
\* without release goes to a node that no link of that level points to yet.
MemoryOK ==
  /\ mem \in Seq(Memory) /\ mem # << >>
  /\ \A t \in 1..Now : Sorted(mem[t])
  /\ \A t \in 1..Now, l \in Levels : Linked(mem[t], l) \subseteq mem[t].made
  /\ \A s, t \in 1..Now, l \in Levels : s <= t => Linked(mem[s], l) \subseteq Linked(mem[t], l)
  /\ \A t \in 1..Now, n \in Nodes, l \in Levels :
       mem[t].loc = <<n, l>> /\ ~mem[t].release => n # head /\ n \notin Linked(mem[t], l)

\* A reader is at a node that it sees linked on the level it searches.
ReaderOK(r) ==
  /\ view[r] \in 1..Now
  /\ node[r] \in Linked(mem[view[r]], 0) \union {Null}
  /\ search[r].op \in {"none", "ge", "lt", "last"}
  /\ search[r].op # "none" =>
       /\ search[r].level \in Levels
       /\ search[r].x \in Linked(mem[view[r]], search[r].level) \union {head}
       /\ search[r].op # "last" => search[r].target \in Keys /\ search[r].x < search[r].target

\* The list after the last store.
List == mem[Now]

\* prev[l] is the last node before the new one on level l.
PrevOK(l) ==
  /\ prev[l] \in Linked(List, l) \union {head}
  /\ prev[l] < newKey
  /\ List.next[prev[l]][l] # Null => List.next[prev[l]][l] \in Keys /\ List.next[prev[l]][l] > newKey

WriterTypes ==
  /\ prev \in [Levels -> Nodes \union {Uninit}] /\ height \in 1..kMaxHeight /\ level \in Levels
  /\ newKey \in Nodes
  /\ pc \in {"idle", "search", "height", "new", "link", "publish"}

\* Levels above max_height_ are empty, and a node that was not made has no links.
Unused ==
  /\ \A l \in Levels : l >= List.max_height => Linked(List, l) = {}
  /\ \A n \in Keys \ List.made, l \in Levels : List.next[n][l] = Uninit

\* Insert's search is left of the new key and has found prev on the levels above.
InSearch ==
  LET q == search[Writer] IN
  /\ q.op = "ge" /\ q.target = newKey /\ q.level < List.max_height
  /\ q.x \in Linked(List, q.level) \union {head} /\ q.x < newKey
  /\ \A l \in Levels : q.level < l /\ l < List.max_height => PrevOK(l)

\* Insert has linked the new node on the levels below level.
InLinking ==
  /\ newKey \in Keys /\ newKey \in List.made /\ level < height /\ height <= List.max_height
  /\ \A l \in Levels : level <= l /\ l < height => PrevOK(l) /\ newKey \notin Linked(List, l)
  /\ \A l \in Levels : l < level => newKey \in Linked(List, l)
  /\ \A l \in Levels : level < l => List.next[newKey][l] = Uninit
  /\ pc = "link" => List.next[newKey][level] = Uninit
  /\ pc = "publish" => List.next[newKey][level] = List.next[prev[level]][level]

WriterOK ==
  /\ WriterTypes
  /\ Unused
  /\ pc = "search" <=> search[Writer].op # "none"
  /\ pc \in {"search", "height", "new"} => newKey \in Keys /\ newKey \notin List.made
  /\ pc = "search" => InSearch
  /\ pc = "height" => \A l \in Levels : l < List.max_height => PrevOK(l)
  /\ pc = "new" => height <= List.max_height /\ \A l \in Levels : l < height => PrevOK(l)
  /\ pc \in {"link", "publish"} => InLinking

Searches == search \in [Actors -> [op : {"none", "ge", "lt", "last"}, x : Nodes,
                                   level : Levels, target : Nodes]]

ListTypes ==
  /\ Searches
  /\ view \in [Readers -> Nat]
  /\ node \in [Readers -> Keys \union {Null}]

ListInv == MemoryOK /\ ListTypes /\ WriterOK /\ \A r \in Readers : ReaderOK(r)

-----------------------------------------------------------------------------
\* Levels and histories.

\* Zero is a level, and head_ is no key.
LEMMA LevelFacts ==
  /\ Levels \subseteq Nat /\ 0 \in Levels /\ head \notin Keys /\ Keys \subseteq Nodes /\ head \in Nodes
  /\ Nodes \subseteq Nat
  /\ \A l \in Levels : l > 0 => l - 1 \in Levels
<1>1. Levels \subseteq Nat /\ 0 \in Levels
  BY DEF Levels
<1>2. head \notin Keys /\ Keys \subseteq Nodes /\ head \in Nodes /\ Nodes \subseteq Nat
  BY DEF Nodes
<1>3. \A l \in Levels : l > 0 => l - 1 \in Levels
  BY DEF Levels
<1> QED BY <1>1, <1>2, <1>3

\* What is linked has a successor or is the last on its level.
LEMMA NextOf ==
  ASSUME NEW m \in Memory, NEW l \in Levels, SortedLevel(m, l), NEW n \in Linked(m, l) \union {head}
  PROVE  /\ m.next[n][l] = Null \/ (m.next[n][l] \in Linked(m, l) /\ m.next[n][l] > n)
         /\ m.next[n][l] = Null => \A k \in Linked(m, l) : k <= n
         /\ m.next[n][l] # Null => \A k \in Linked(m, l) : k <= n \/ m.next[n][l] <= k
<1>1. Follows(Linked(m, l), n, m.next[n][l])
  BY DEF SortedLevel
<1>2. Linked(m, l) \subseteq Keys
  BY DEF Linked
<1> QED BY <1>1, <1>2 DEF Follows

\* A store that leaves the links alone.
LEMMA SameLinks ==
  ASSUME NEW m \in Memory, NEW w \in Memory, w.next = m.next
  PROVE  /\ \A l \in Levels : Linked(w, l) = Linked(m, l)
         /\ Sorted(m) => Sorted(w)
<1>1. \A l \in Levels : Linked(w, l) = Linked(m, l)
  BY DEF Linked
<1>2. ASSUME Sorted(m) PROVE Sorted(w)
  <2>1. ASSUME NEW l \in Levels PROVE SortedLevel(w, l)
    BY <1>1, <1>2 DEF Sorted, SortedLevel
  <2>2. ASSUME NEW l \in Levels, l > 0 PROVE Linked(w, l) \subseteq Linked(w, l - 1)
    <3>1. l - 1 \in Levels
      BY <2>2, LevelFacts
    <3> QED BY <1>1, <1>2, <2>2, <3>1 DEF Sorted
  <2> QED BY <2>1, <2>2 DEF Sorted
<1> QED BY <1>1, <1>2

\* The history after a store that keeps the list sorted and its links.
LEMMA HistoryKeeps ==
  ASSUME MemoryOK, NEW w \in Memory, Store(w), Sorted(w),
         \A l \in Levels : Linked(mem[Now], l) \subseteq Linked(w, l) /\ Linked(w, l) \subseteq w.made,
         \A n \in Nodes, l \in Levels :
           w.loc = <<n, l>> /\ ~w.release => n # head /\ n \notin Linked(w, l)
  PROVE  MemoryOK'
<1>1. /\ mem' \in Seq(Memory) /\ Now \in Nat /\ Now' = Now + 1 /\ mem'[Now'] = w
      /\ \A t \in 1..Now : mem'[t] = mem[t]
  BY StoreFacts DEF MemoryOK
<1>2. Now \in 1..Now /\ mem[Now] \in Memory /\ \A t \in 1..Now : mem[t] \in Memory
  <2>1. mem \in Seq(Memory) /\ mem # << >>
    BY DEF MemoryOK
  <2> QED BY <2>1, NowFacts
<1>3. ASSUME NEW t \in 1..Now'
      PROVE  (t \in 1..Now /\ mem'[t] = mem[t]) \/ (t = Now' /\ mem'[t] = w)
  <2>1. t \in 1..Now \/ t = Now'
    BY <1>1
  <2> QED BY <1>1, <2>1
<1>4. \A t \in 1..Now' : Sorted(mem'[t])
  BY <1>3 DEF MemoryOK
<1>5. ASSUME NEW t \in 1..Now', NEW l \in Levels PROVE Linked(mem'[t], l) \subseteq mem'[t].made
  <2>1. CASE t \in 1..Now /\ mem'[t] = mem[t]
    BY <2>1 DEF MemoryOK
  <2>2. CASE mem'[t] = w
    BY <2>2
  <2> QED BY <1>3, <2>1, <2>2
<1>6. ASSUME NEW s \in 1..Now', NEW t \in 1..Now', NEW l \in Levels, s <= t
      PROVE  Linked(mem'[s], l) \subseteq Linked(mem'[t], l)
  <2>1. CASE t \in 1..Now
    <3>1. s \in 1..Now
      BY <1>1, <1>6, <2>1
    <3> QED BY <1>1, <1>6, <2>1, <3>1 DEF MemoryOK
  <2>2. CASE t = Now' /\ s \in 1..Now
    <3>1. Linked(mem[s], l) \subseteq Linked(mem[Now], l)
      <4>1. s <= Now
        BY <2>2, <1>1
      <4> QED BY <1>2, <2>2, <4>1 DEF MemoryOK
    <3>2. mem'[s] = mem[s] /\ mem'[t] = w
      BY <1>1, <2>2
    <3> QED BY <3>1, <3>2
  <2>3. CASE t = Now' /\ s = Now'
    BY <2>3
  <2> QED BY <1>3, <2>1, <2>2, <2>3
<1>7. \A t \in 1..Now', n \in Nodes, l \in Levels :
        mem'[t].loc = <<n, l>> /\ ~mem'[t].release => n # head /\ n \notin Linked(mem'[t], l)
  BY <1>3 DEF MemoryOK
<1>8. mem' # << >>
  BY <1>1 DEF Now
<1> QED BY <1>1, <1>4, <1>5, <1>6, <1>7, <1>8 DEF MemoryOK

\* The history after a step without a store.
LEMMA HistorySame == ASSUME MemoryOK, UNCHANGED mem PROVE MemoryOK' /\ Now' = Now
BY DEF MemoryOK, Now

\* x->NoBarrier_SetNext(i, prev[i]->NoBarrier_Next(i)): a node that is not on the
\* level gets the successor of one that is.
LEMMA LinkingKeeps ==
  ASSUME NEW m \in Memory, Sorted(m), NEW k \in Keys, NEW l \in Levels, NEW p \in Nodes,
         k \notin Linked(m, l), p # k, NEW w \in Memory,
         \A n \in Nodes, i \in Levels :
           w.next[n][i] = IF n = k /\ i = l THEN m.next[p][l] ELSE m.next[n][i],
         m.next[k][l] = Uninit
  PROVE  Sorted(w) /\ \A i \in Levels : Linked(w, i) = Linked(m, i)
<1>0. p \in Nodes /\ k \in Nodes /\ head # k /\ Keys \subseteq Nodes
  BY LevelFacts
<1>1. ASSUME NEW i \in Levels PROVE Linked(w, i) = Linked(m, i)
  <2>1. ASSUME NEW y \in Keys, NEW n \in Nodes, w.next[n][i] = y PROVE \E a \in Nodes : m.next[a][i] = y
    BY <2>1, <1>0
  <2>2. ASSUME NEW y \in Keys, NEW n \in Nodes, m.next[n][i] = y PROVE \E a \in Nodes : w.next[a][i] = y
    BY <2>2, <1>0
  <2>3. \A y \in Keys : (\E n \in Nodes : w.next[n][i] = y) <=> (\E n \in Nodes : m.next[n][i] = y)
    BY <2>1, <2>2
  <2> QED BY <2>3 DEF Linked
<1>2. ASSUME NEW i \in Levels PROVE SortedLevel(w, i)
  <2>1. ASSUME NEW n \in Linked(m, i) \union {head} PROVE w.next[n][i] = m.next[n][i]
    <3>1. n \in Nodes /\ ~(n = k /\ i = l)
      <4>1. Linked(m, i) \subseteq Keys
        BY DEF Linked
      <4>2. n # k \/ i # l
        BY <1>0, <2>1
      <4> QED BY <1>0, <4>1, <4>2, LevelFacts
    <3> QED BY <3>1
  <2> QED BY <1>1, <2>1 DEF SortedLevel, Sorted
<1>3. \A i \in Levels : i > 0 => Linked(w, i) \subseteq Linked(w, i - 1)
  BY <1>1, LevelFacts DEF Sorted
<1> QED BY <1>1, <1>2, <1>3 DEF Sorted

\* prev[i]->SetNext(i, x): the new node takes its place on one level.
LEMMA PublishKeeps ==
  ASSUME NEW m \in Memory, Sorted(m), NEW k \in Keys, NEW l \in Levels,
         NEW p \in Linked(m, l) \union {head},
         k \notin Linked(m, l), p < k,
         m.next[k][l] = m.next[p][l],
         m.next[p][l] # Null => m.next[p][l] > k,
         l > 0 => k \in Linked(m, l - 1),
         NEW w \in Memory,
         \A n \in Nodes, i \in Levels :
           w.next[n][i] = IF n = p /\ i = l THEN k ELSE m.next[n][i]
  PROVE  /\ Sorted(w)
         /\ \A i \in Levels : Linked(w, i) = IF i = l THEN Linked(m, l) \union {k} ELSE Linked(m, i)
<1> DEFINE K == Linked(m, l)
           z == m.next[p][l]
<1>0. /\ p \in Nodes /\ k \in Nodes /\ head \in Nodes /\ K \subseteq Keys /\ Keys \subseteq Nodes
      /\ k \in Nat /\ p \in Nat /\ K \subseteq Nat /\ p # k
  BY LevelFacts DEF Linked
<1>s. SortedLevel(m, l)
  BY DEF Sorted
<1>z. /\ z = Null \/ (z \in K /\ z > k)
      /\ z = Null => \A j \in K : j <= p
      /\ z # Null => \A j \in K : j <= p \/ z <= j
  BY <1>s, NextOf
<1>1. Linked(w, l) = K \union {k}
  <2>1. ASSUME NEW y \in Keys, NEW n \in Nodes, w.next[n][l] = y PROVE y \in K \union {k}
    BY <2>1 DEF Linked
  <2>2. ASSUME NEW y \in Keys, NEW n \in Nodes, m.next[n][l] = y PROVE y \in Linked(w, l)
    <3>1. CASE n = p
      <4>1. w.next[k][l] = y
        BY <1>0, <2>2, <3>1
      <4> QED BY <1>0, <4>1 DEF Linked
    <3>2. CASE n # p
      BY <2>2, <3>2 DEF Linked
    <3> QED BY <3>1, <3>2
  <2>3. k \in Linked(w, l)
    BY <1>0 DEF Linked
  <2>4. K \subseteq Linked(w, l)
    <3>1. ASSUME NEW y \in K PROVE y \in Linked(w, l)
      <4>1. PICK n \in Nodes : y \in Keys /\ m.next[n][l] = y
        BY DEF Linked
      <4> QED BY <2>2, <4>1
    <3> QED BY <3>1
  <2>5. Linked(w, l) \subseteq K \union {k}
    <3>1. ASSUME NEW y \in Linked(w, l) PROVE y \in K \union {k}
      <4>1. PICK n \in Nodes : y \in Keys /\ w.next[n][l] = y
        BY DEF Linked
      <4> QED BY <2>1, <4>1
    <3> QED BY <3>1
  <2> QED BY <2>3, <2>4, <2>5
<1>2. ASSUME NEW i \in Levels, i # l PROVE Linked(w, i) = Linked(m, i)
  BY <1>2 DEF Linked
<1>3. SortedLevel(w, l)
  <2> SUFFICES ASSUME NEW n \in K \union {k} \union {head}
               PROVE  Follows(K \union {k}, n, w.next[n][l])
    BY <1>1 DEF SortedLevel
  <2>n. n \in Nodes /\ n \in Nat
    BY <1>0
  <2>1. CASE n = p
    <3>1. w.next[n][l] = k
      BY <1>0, <2>1
    <3>2. \A j \in K : j <= p \/ k <= j
      BY <1>0, <1>z
    <3> QED BY <1>0, <2>1, <3>1, <3>2 DEF Follows
  <2>2. CASE n = k
    <3>1. w.next[n][l] = z
      BY <1>0, <2>2
    <3>2. CASE z = Null
      BY <1>0, <1>z, <2>2, <3>1, <3>2 DEF Follows
    <3>3. CASE z # Null
      <4>1. \A j \in K : j <= k \/ z <= j
        BY <1>0, <1>z, <3>3
      <4> QED BY <1>0, <1>z, <2>2, <3>1, <3>3, <4>1 DEF Follows
    <3> QED BY <3>2, <3>3
  <2>3. CASE n # p /\ n # k
    <3> DEFINE y == m.next[n][l]
    <3>1. w.next[n][l] = y /\ n \in K \union {head}
      BY <2>3, <2>n
    <3>2. /\ y = Null \/ (y \in K /\ y > n)
          /\ y = Null => \A j \in K : j <= n
          /\ y # Null => \A j \in K : j <= n \/ y <= j
      BY <1>s, <3>1, NextOf
    <3> HIDE DEF y
    <3>3. CASE y = Null
      <4>1. k <= n
        BY <1>0, <1>z, <2>n, <2>3, <3>1, <3>2, <3>3
      <4> QED BY <1>0, <2>n, <3>1, <3>2, <3>3, <4>1 DEF Follows
    <3>4. CASE y # Null
      <4>1. k <= n \/ y <= k
        BY <1>0, <1>z, <2>n, <2>3, <3>1, <3>2, <3>4
      <4> QED BY <1>0, <2>n, <3>1, <3>2, <3>4, <4>1 DEF Follows
    <3> QED BY <3>3, <3>4
  <2> QED BY <2>1, <2>2, <2>3
<1>4. ASSUME NEW i \in Levels, i # l PROVE SortedLevel(w, i)
  <2>1. \A n \in Linked(m, i) \union {head} : n \in Nodes /\ w.next[n][i] = m.next[n][i]
    <3>1. Linked(m, i) \subseteq Keys
      BY DEF Linked
    <3> QED BY <1>0, <1>4, <3>1
  <2> QED BY <1>2, <1>4, <2>1 DEF SortedLevel, Sorted
<1>5. ASSUME NEW i \in Levels, i > 0 PROVE Linked(w, i) \subseteq Linked(w, i - 1)
  <2>1. i - 1 \in Levels /\ Linked(m, i) \subseteq Linked(m, i - 1)
    BY <1>5, LevelFacts DEF Sorted
  <2>2. CASE i = l
    <3>1. i - 1 # l
      BY <2>2, LevelFacts
    <3>2. k \in Linked(m, i - 1) /\ Linked(w, i) = K \union {k}
      BY <1>1, <1>5, <2>2
    <3>3. Linked(w, i - 1) = Linked(m, i - 1)
      BY <1>2, <2>1, <3>1
    <3>4. K \subseteq Linked(m, i - 1)
      BY <2>1, <2>2
    <3> QED BY <3>2, <3>3, <3>4
  <2>3. CASE i # l
    BY <1>1, <1>2, <2>1, <2>3
  <2> QED BY <2>2, <2>3
<1>6. \A i \in Levels : SortedLevel(w, i)
  BY <1>3, <1>4
<1> QED BY <1>1, <1>2, <1>5, <1>6 DEF Sorted

-----------------------------------------------------------------------------
\* The steps of Insert.

\* What MemoryOK says of the list as it is.
LEMMA ListFacts ==
  ASSUME MemoryOK
  PROVE  /\ mem \in Seq(Memory) /\ Now \in Nat /\ Now \in 1..Now /\ List \in Memory /\ Sorted(List)
         /\ \A l \in Levels : /\ Linked(List, l) \subseteq List.made /\ Linked(List, l) \subseteq Keys
                              /\ SortedLevel(List, l)
         /\ List.next \in [Nodes -> [Levels -> Pointers]] /\ List.max_height \in 1..kMaxHeight
         /\ List.made \subseteq Nodes
<1>1. mem \in Seq(Memory) /\ mem # << >>
  BY DEF MemoryOK
<1>2. Now \in Nat /\ Now \in 1..Now /\ List \in Memory
  BY <1>1, NowFacts DEF List
<1>3. Sorted(List)
  BY <1>2 DEF MemoryOK, List
<1>4. ASSUME NEW l \in Levels
      PROVE  /\ Linked(List, l) \subseteq List.made /\ Linked(List, l) \subseteq Keys
             /\ SortedLevel(List, l)
  <2>1. Linked(List, l) \subseteq List.made
    BY <1>2 DEF MemoryOK, List
  <2>2. Linked(List, l) \subseteq Keys
    BY DEF Linked
  <2>3. SortedLevel(List, l)
    BY <1>3 DEF Sorted
  <2> QED BY <2>1, <2>2, <2>3
<1>5. /\ List.next \in [Nodes -> [Levels -> Pointers]] /\ List.max_height \in 1..kMaxHeight
      /\ List.made \subseteq Nodes
  BY <1>2 DEF Memory
<1> QED BY <1>1, <1>2, <1>3, <1>4, <1>5

\* A node on a level, or head_, and what follows it there.
LEMMA Successor ==
  ASSUME MemoryOK, NEW l \in Levels, NEW n \in Linked(List, l) \union {head}
  PROVE  /\ n \in Nodes /\ n \in Nat
         /\ List.next[n][l] # Null =>
              List.next[n][l] \in Linked(List, l) /\ List.next[n][l] \in Keys /\ List.next[n][l] > n
  <1>1. List \in Memory /\ SortedLevel(List, l) /\ Linked(List, l) \subseteq Keys
    BY ListFacts
  <1>2. List.next[n][l] = Null \/ (List.next[n][l] \in Linked(List, l) /\ List.next[n][l] > n)
    BY <1>1, NextOf
  <1>3. n \in Nodes /\ n \in Nat
    BY <1>1, LevelFacts
  <1> QED BY <1>1, <1>2, <1>3

\* prev stays right while its level stays as it is.
LEMMA PrevKept ==
  ASSUME NEW l \in Levels, PrevOK(l), prev'[l] = prev[l], newKey' = newKey,
         Linked(List, l) \subseteq Linked(List', l),
         List'.next[prev[l]][l] = List.next[prev[l]][l]
  PROVE  PrevOK(l)'
BY DEF PrevOK

\* Stores never disturb what a reader has seen.
LEMMA ReaderKept ==
  ASSUME NEW r \in Readers, ReaderOK(r), Now \in Nat, Now' \in Nat, Now <= Now',
         \A t \in 1..Now : mem'[t] = mem[t],
         view'[r] = view[r], node'[r] = node[r], search'[r] = search[r]
  PROVE  ReaderOK(r)'
<1>1. view[r] \in 1..Now /\ mem'[view'[r]] = mem[view[r]]
  BY DEF ReaderOK
<1>2. view'[r] \in 1..Now'
  BY <1>1
<1> QED BY <1>1, <1>2 DEF ReaderOK

\* The call of Insert.
LEMMA BeginInsertKeeps == ASSUME ListInv, NEW k \in Keys, BeginInsert(k) PROVE ListInv'
<1>0. MemoryOK /\ ListTypes /\ WriterOK
  BY DEF ListInv
<1>u. UNCHANGED <<mem, view, node, height, level>> /\ newKey' = k /\ pc' = "search" /\ pc = "idle"
      /\ prev' = [l \in Levels |-> Uninit] /\ k \notin List.made
  BY DEF BeginInsert, List
<1>m. MemoryOK' /\ Now' = Now /\ List' = List
  BY <1>0, <1>u, HistorySame DEF List
<1>l. List.max_height \in 1..kMaxHeight
  BY <1>0, ListFacts
<1>1. /\ search' = [search EXCEPT ![Writer] =
            [op |-> "ge", x |-> head, level |-> List.max_height - 1, target |-> k]]
      /\ List.max_height - 1 \in Levels
  <2>1. MaxHeights(Writer) = {List.max_height}
    BY <1>0, ListFacts DEF MaxHeights, View, List
  <2>2. List.max_height - 1 \in Levels
    BY <1>l DEF Levels
  <2> QED BY <2>1, <2>2 DEF BeginInsert, BeginSearch
<1> DEFINE q == [op |-> "ge", x |-> head, level |-> List.max_height - 1, target |-> k]
<1>q. /\ q \in [op : {"none", "ge", "lt", "last"}, x : Nodes, level : Levels, target : Nodes]
      /\ q.op = "ge" /\ q.x = head /\ q.level = List.max_height - 1 /\ q.target = k
  BY <1>1, LevelFacts
<1> HIDE DEF q
<1>2. search'[Writer] = q /\ \A r \in Readers : search'[r] = search[r]
  BY <1>0, <1>1 DEF q, ListTypes, Searches, Actors
<1>3. ListTypes'
  BY <1>0, <1>1, <1>q, <1>u DEF q, ListTypes, Searches
<1>4. ASSUME NEW r \in Readers PROVE ReaderOK(r)'
  <2>1. ReaderOK(r) /\ Now \in Nat
    BY <1>0, ListFacts DEF ListInv
  <2> QED BY <1>2, <1>m, <1>u, <2>1, ReaderKept
<1>5. WriterTypes'
  BY <1>0, <1>u, LevelFacts DEF WriterOK, WriterTypes
<1>6. Unused'
  BY <1>0, <1>m DEF WriterOK, Unused
<1>7. InSearch'
  <2>1. 0 < k
    OBVIOUS
  <2>2. \A l \in Levels : ~(List.max_height - 1 < l /\ l < List.max_height)
    BY <1>l, LevelFacts
  <2>3. List.max_height - 1 < List.max_height
    BY <1>l
  <2> QED BY <1>2, <1>m, <1>q, <1>u, <2>1, <2>2, <2>3 DEF InSearch
<1>8. WriterOK'
  BY <1>2, <1>5, <1>6, <1>7, <1>m, <1>q, <1>u DEF WriterOK
<1> QED BY <1>3, <1>4, <1>8, <1>m DEF ListInv

SearchRecord == [op : {"none", "ge", "lt", "last"}, x : Nodes, level : Levels, target : Nodes]

\* What a search does next.
LEMMA SearchForms ==
  ASSUME NEW q \in SearchRecord, NEW n \in Nodes
  PROVE  /\ [q EXCEPT !.x = n] \in SearchRecord
         /\ [q EXCEPT !.x = n].x = n /\ [q EXCEPT !.x = n].level = q.level
         /\ [q EXCEPT !.x = n].op = q.op /\ [q EXCEPT !.x = n].target = q.target
         /\ q.level > 0 => /\ Descend(q) \in SearchRecord
                           /\ Descend(q).x = q.x /\ Descend(q).level = q.level - 1
                           /\ Descend(q).op = q.op /\ Descend(q).target = q.target
         /\ NoSearch \in SearchRecord /\ NoSearch.op = "none"
<1>1. q.level > 0 => q.level - 1 \in Levels
  BY LevelFacts DEF SearchRecord
<1> QED BY <1>1, LevelFacts DEF SearchRecord, Descend, NoSearch

\* One step of Insert's own search: the writer sees its own stores.
LEMMA WriterSearchKeeps == ASSUME ListInv, SearchStep(Writer) PROVE ListInv'
<1>0. MemoryOK /\ ListTypes /\ WriterOK
  BY DEF ListInv
<1> DEFINE q == search[Writer]
           n == List.next[q.x][q.level]
<1>1. /\ q.op # "none" /\ pc = "search" /\ InSearch
      /\ newKey \in Keys /\ newKey \notin List.made
  BY <1>0 DEF SearchStep, WriterOK
<1>q. q \in SearchRecord /\ search \in [Actors -> SearchRecord] /\ Writer \in Actors /\ Readers \subseteq Actors
  BY <1>0 DEF ListTypes, Searches, SearchRecord, Actors
<1>f. q.level \in Levels /\ q.level \in Nat /\ q.op = "ge" /\ q.target = newKey /\ q.x \in Nodes
  BY <1>1, <1>q, LevelFacts DEF InSearch, SearchRecord
<1>2. Visible(Writer, q.x, q.level) = {Now}
  BY <1>0, ListFacts DEF Visible, View
<1>u. UNCHANGED <<mem, newKey, height, level, view>>
  <2>1. Acquire(Writer, Now) = view
    BY DEF Acquire
  <2> QED BY <1>2, <2>1 DEF SearchStep
<1>s. IF ~StopsAt(q, n)
      THEN search' = [search EXCEPT ![Writer].x = n] /\ UNCHANGED <<node, prev, pc>>
      ELSE /\ prev' = [prev EXCEPT ![q.level] = q.x]
           /\ node' = node
           /\ IF q.level > 0
              THEN search' = [search EXCEPT ![Writer] = Descend(q)] /\ UNCHANGED pc
              ELSE search' = [search EXCEPT ![Writer] = NoSearch] /\ pc' = "height"
  BY <1>2 DEF SearchStep, List
<1>m. MemoryOK' /\ Now' = Now /\ List' = List
  BY <1>0, <1>u, HistorySame DEF List
<1>3. /\ q.x \in Nodes /\ q.x \in Nat
      /\ n # Null => n \in Linked(List, q.level) /\ n \in Keys /\ n > q.x
  BY <1>0, <1>1, <1>f, Successor DEF InSearch
<1>4. ASSUME NEW w \in SearchRecord, search' = [search EXCEPT ![Writer] = w], node' = node
      PROVE  ListTypes' /\ search'[Writer] = w /\ \A r \in Readers : ReaderOK(r)'
  <2>1. search'[Writer] = w /\ \A r \in Readers : search'[r] = search[r]
    BY <1>4, <1>q
  <2>2. ListTypes'
    BY <1>0, <1>4, <1>q, <1>u DEF ListTypes, Searches, SearchRecord
  <2>3. ASSUME NEW r \in Readers PROVE ReaderOK(r)'
    <3>1. ReaderOK(r) /\ Now \in Nat
      BY <1>0, ListFacts DEF ListInv
    <3> QED BY <1>4, <1>m, <1>u, <2>1, <3>1, ReaderKept
  <2> QED BY <2>1, <2>2, <2>3
<1>5. Unused'
  BY <1>0, <1>m DEF WriterOK, Unused
<1>6. CASE ~StopsAt(q, n)
  <2>1. n # Null /\ n < newKey
    <3>1. ~(n = Null \/ n >= newKey)
      BY <1>f, <1>6 DEF StopsAt
    <3>2. n # Null => n \in Nat
      BY <1>3
    <3>3. newKey \in Nat
      BY <1>1
    <3> HIDE DEF n
    <3> QED BY <3>1, <3>2, <3>3
  <2>2. n \in Nodes /\ n \in Linked(List, q.level)
    BY <1>3, <2>1, LevelFacts
  <2> DEFINE w == [q EXCEPT !.x = n]
  <2>3. w \in SearchRecord /\ w.x = n /\ w.level = q.level /\ w.op = q.op /\ w.target = q.target
    BY <1>q, <2>2, SearchForms
  <2>4. search' = [search EXCEPT ![Writer] = w] /\ UNCHANGED <<node, prev, pc>>
    BY <1>6, <1>s, <1>q
  <2> HIDE DEF w
  <2>5. ListTypes' /\ search'[Writer] = w /\ \A r \in Readers : ReaderOK(r)'
    BY <1>4, <2>3, <2>4
  <2>6. \A l \in Levels : PrevOK(l) => PrevOK(l)'
    BY <1>m, <1>u, <2>4, PrevKept
  <2>7. InSearch'
    <3> HIDE DEF n, q
    <3>1. w.op = "ge" /\ w.target = newKey /\ w.level < List.max_height
      BY <1>1, <2>3, <1>f DEF InSearch, q
    <3>2. \A l \in Levels : w.level < l /\ l < List.max_height => PrevOK(l)'
      BY <1>1, <2>3, <2>6 DEF InSearch, q
    <3> QED BY <1>m, <1>u, <2>1, <2>2, <2>3, <2>5, <3>1, <3>2 DEF InSearch
  <2>8. WriterTypes'
    BY <1>0, <1>u, <2>4 DEF WriterOK, WriterTypes
  <2>9. WriterOK'
    BY <1>1, <1>5, <1>f, <1>m, <1>u, <2>3, <2>4, <2>5, <2>7, <2>8 DEF WriterOK
  <2> QED BY <1>m, <2>5, <2>9 DEF ListInv
<1>7. CASE StopsAt(q, n)
  <2>1. n # Null => n > newKey
    <3>1. n # Null => n \in List.made /\ n \in Nat
      BY <1>0, <1>3, <1>f, ListFacts
    <3>2. n # Null => n >= newKey
      BY <1>f, <1>7 DEF StopsAt
    <3> QED BY <1>1, <3>1, <3>2
  <2>2. prev' = [prev EXCEPT ![q.level] = q.x] /\ node' = node
    BY <1>7, <1>s
  <2>j. PICK j \in Levels : j = q.level
    BY <1>f
  <2>3. prev'[j] = q.x /\ \A l \in Levels : l # j => prev'[l] = prev[l]
    BY <1>0, <2>2, <2>j DEF WriterOK, WriterTypes
  <2>4. PrevOK(j)'
    <3>1. q.x \in Linked(List, j) \union {head} /\ q.x < newKey
      BY <1>1, <2>j DEF InSearch
    <3>2. List.next[q.x][j] # Null => List.next[q.x][j] \in Keys /\ List.next[q.x][j] > newKey
      BY <1>3, <2>1, <2>j
    <3> HIDE DEF q
    <3> QED BY <1>m, <1>u, <2>3, <3>1, <3>2 DEF PrevOK
  <2>5. \A l \in Levels : l # j /\ PrevOK(l) => PrevOK(l)'
    BY <1>m, <1>u, <2>3, PrevKept
  <2>6. \A l \in Levels : q.level <= l /\ l < List.max_height => PrevOK(l)'
    <3>1. ASSUME NEW l \in Levels, q.level <= l, l < List.max_height PROVE PrevOK(l)'
      <4>1. CASE l = j
        BY <2>4, <4>1
      <4>2. CASE l # j
        <5>1. q.level < l
          BY <1>f, <2>j, <3>1, <4>2, LevelFacts
        <5>2. PrevOK(l)
          BY <1>1, <3>1, <5>1 DEF InSearch
        <5> QED BY <2>5, <4>2, <5>2
      <4> QED BY <4>1, <4>2
    <3> QED BY <3>1
  <2>7. WriterTypes' \/ pc' \notin {"search", "height"}
    BY <1>0, <1>f, <1>u, <2>2 DEF WriterOK, WriterTypes
  <2>8. CASE q.level > 0
    <3> DEFINE w == Descend(q)
    <3>1. w \in SearchRecord /\ w.x = q.x /\ w.level = q.level - 1 /\ w.op = q.op /\ w.target = q.target
      BY <1>q, <1>f, <2>8, SearchForms
    <3>2. search' = [search EXCEPT ![Writer] = w] /\ pc' = pc
      BY <1>7, <1>s, <2>8
    <3> HIDE DEF w
    <3>3. ListTypes' /\ search'[Writer] = w /\ \A r \in Readers : ReaderOK(r)'
      BY <1>4, <2>2, <3>1, <3>2
    <3>4. Linked(List, q.level) \subseteq Linked(List, q.level - 1)
      BY <1>0, <1>f, <2>8, ListFacts DEF Sorted
    <3>5. w.x \in Linked(List, w.level) \union {head} /\ w.x < newKey /\ w.level < List.max_height
      <4>1. q.level < List.max_height /\ List.max_height \in Nat
        BY <1>0, <1>1, ListFacts DEF InSearch
      <4> QED BY <1>1, <1>f, <3>1, <3>4, <4>1 DEF InSearch
    <3>6. ASSUME NEW l \in Levels, w.level < l, l < List.max_height PROVE PrevOK(l)'
      <4>1. q.level <= l
        <5>1. l \in Nat /\ q.level \in Nat /\ q.level - 1 < l
          BY <1>f, <3>1, <3>6, LevelFacts
        <5> HIDE DEF q
        <5> QED BY <5>1
      <4> QED BY <2>6, <3>6, <4>1
    <3>7. InSearch'
      BY <1>f, <1>m, <1>u, <3>1, <3>3, <3>5, <3>6 DEF InSearch
    <3>8. WriterOK'
      BY <1>1, <1>5, <1>f, <1>m, <1>u, <2>7, <3>1, <3>2, <3>3, <3>7 DEF WriterOK
    <3> QED BY <1>m, <3>3, <3>8 DEF ListInv
  <2>9. CASE ~(q.level > 0)
    <3>1. search' = [search EXCEPT ![Writer] = NoSearch] /\ pc' = "height"
      BY <1>7, <1>s, <2>9
    <3>2. NoSearch \in SearchRecord /\ NoSearch.op = "none"
      BY <1>q, <1>f, SearchForms
    <3>3. ListTypes' /\ search'[Writer] = NoSearch /\ \A r \in Readers : ReaderOK(r)'
      BY <1>4, <2>2, <3>1, <3>2
    <3>4. \A l \in Levels : l < List.max_height => PrevOK(l)'
      BY <1>f, <2>6, <2>9, LevelFacts
    <3>5. WriterOK'
      BY <1>1, <1>5, <1>f, <1>m, <1>u, <2>7, <3>1, <3>2, <3>3, <3>4 DEF WriterOK
    <3> QED BY <1>m, <3>3, <3>5 DEF ListInv
  <2> QED BY <2>8, <2>9
<1> QED BY <1>6, <1>7

\* A store that is not to a link has a place no link has.
LEMMA NotALink ==
  ASSUME NEW p, p = <<Null, 0>> PROVE \A n \in Nodes, l \in Levels : p # <<n, l>>
<1> SUFFICES ASSUME NEW n \in Nodes, NEW l \in Levels, <<Null, 0>> = <<n, l>> PROVE FALSE
  OBVIOUS
<1>1. <<Null, 0>>[1] = <<n, l>>[1]
  OBVIOUS
<1>2. Null = n
  BY <1>1
<1> QED BY <1>2, LevelFacts

\* A store of the writer leaves the readers alone.
LEMMA StoreKeepsReaders ==
  ASSUME ListInv, NEW w \in Memory, Store(w), UNCHANGED <<view, search, node>>
  PROVE  /\ ListTypes' /\ List' = w /\ \A r \in Readers : ReaderOK(r)'
<1>0. MemoryOK /\ ListTypes
  BY DEF ListInv
<1>1. /\ Now \in Nat /\ Now' = Now + 1 /\ mem'[Now'] = w
      /\ \A t \in 1..Now : mem'[t] = mem[t]
  BY StoreFacts, <1>0 DEF MemoryOK
<1>2. ListTypes'
  BY <1>0 DEF ListTypes, Searches
<1>3. Now' \in Nat /\ Now <= Now'
  BY <1>1
<1>4. ASSUME NEW r \in Readers PROVE ReaderOK(r)'
  BY <1>1, <1>3, ReaderKept DEF ListInv
<1> QED BY <1>1, <1>2, <1>4 DEF List

\* Insert chooses a height, and max_height_ may grow.
LEMMA InsertHeightKeeps == ASSUME ListInv, InsertHeight PROVE ListInv'
<1>0. MemoryOK /\ ListTypes /\ WriterOK /\ pc = "height" /\ pc' = "new"
      /\ UNCHANGED <<view, search, node, newKey, level>>
  BY DEF ListInv, InsertHeight
<1>1. PICK h \in 1..kMaxHeight : ChooseHeight(h)
  BY DEF InsertHeight
<1>2. /\ newKey \in Keys /\ newKey \notin List.made /\ search[Writer].op = "none"
      /\ \A l \in Levels : l < List.max_height => PrevOK(l)
      /\ Unused /\ WriterTypes
  BY <1>0 DEF WriterOK
<1>3. /\ height' = h
      /\ prev' = [l \in Levels |-> IF l \in List.max_height..(h - 1) THEN head ELSE prev[l]]
  BY <1>1 DEF ChooseHeight, List
<1>l. List.max_height \in 1..kMaxHeight /\ h \in Nat /\ List.max_height \in Nat /\ List \in Memory
  BY <1>0, ListFacts
<1>4. WriterTypes'
  BY <1>0, <1>2, <1>3, LevelFacts DEF WriterTypes
<1>5. ASSUME List'.next = List.next, NEW l \in Levels, l < h PROVE PrevOK(l)'
  <2>0. Linked(List', l) = Linked(List, l)
    BY <1>5 DEF Linked
  <2>1. CASE l < List.max_height
    <3>1. prev'[l] = prev[l] /\ PrevOK(l)
      BY <1>2, <1>3, <1>l, <2>1, LevelFacts
    <3> QED BY <1>0, <1>5, <2>0, <3>1, PrevKept
  <2>2. CASE ~(l < List.max_height)
    <3>1. prev'[l] = head /\ l >= List.max_height
      BY <1>3, <1>5, <1>l, <2>2, LevelFacts
    <3>2. Linked(List, l) = {}
      BY <1>2, <3>1 DEF Unused
    <3>3. List.next[head][l] = Null
      BY <1>0, <3>2, Successor
    <3>4. head < newKey
      BY <1>2
    <3> QED BY <1>0, <1>5, <2>0, <3>1, <3>3, <3>4 DEF PrevOK
  <2> QED BY <2>1, <2>2
<1>6. CASE h > List.max_height
  <2>1. PICK w : w = WithHeight(List, h) /\ Store(w)
    BY <1>1, <1>6 DEF ChooseHeight, List, WithHeight
  <2>2. /\ w \in Memory /\ w.max_height = h /\ w.made = List.made /\ w.loc = <<Null, 0>>
        /\ w.next = List.next
    BY <1>l, <2>1, HeightForm
  <2>3. ListTypes' /\ List' = w /\ \A r \in Readers : ReaderOK(r)'
    BY <1>0, <2>1, <2>2, StoreKeepsReaders
  <2>4. Sorted(w) /\ \A l \in Levels : Linked(w, l) = Linked(List, l)
    BY <1>0, <1>l, <2>2, ListFacts, SameLinks
  <2>5. \A n \in Nodes, l \in Levels : w.loc # <<n, l>>
    BY <2>2, NotALink
  <2>6. \A l \in Levels : Linked(mem[Now], l) \subseteq Linked(w, l) /\ Linked(w, l) \subseteq w.made
    BY <1>0, <2>2, <2>4, ListFacts DEF List
  <2>7. MemoryOK'
    BY <1>0, <2>1, <2>2, <2>4, <2>5, <2>6, HistoryKeeps
  <2>8. Unused'
    <3>1. \A l \in Levels : l >= h => l >= List.max_height
      BY <1>6, <1>l, LevelFacts
    <3>2. \A l \in Levels : l >= List'.max_height => Linked(List', l) = {}
      BY <1>2, <2>2, <2>3, <2>4, <3>1 DEF Unused
    <3>3. \A n \in Keys \ List'.made, l \in Levels : List'.next[n][l] = Uninit
      BY <1>2, <2>2, <2>3 DEF Unused
    <3> QED BY <3>2, <3>3 DEF Unused
  <2>9. \A l \in Levels : l < height' => PrevOK(l)'
    BY <1>3, <1>5, <2>2, <2>3
  <2>10. height' <= List'.max_height
    BY <1>3, <1>l, <2>2, <2>3
  <2>11. WriterOK'
    BY <1>0, <1>2, <1>4, <2>2, <2>3, <2>8, <2>9, <2>10 DEF WriterOK
  <2> QED BY <2>3, <2>7, <2>11 DEF ListInv
<1>7. CASE ~(h > List.max_height)
  <2>1. mem' = mem
    BY <1>1, <1>7 DEF ChooseHeight, List
  <2>2. MemoryOK' /\ Now' = Now /\ List' = List
    BY <1>0, <2>1, HistorySame DEF List
  <2>3. ListTypes'
    BY <1>0 DEF ListTypes, Searches
  <2>4. ASSUME NEW r \in Readers PROVE ReaderOK(r)'
    <3>1. ReaderOK(r) /\ Now \in Nat
      BY <1>0, ListFacts DEF ListInv
    <3> QED BY <1>0, <2>1, <2>2, <3>1, ReaderKept
  <2>5. Unused'
    BY <1>2, <2>2 DEF Unused
  <2>6. \A l \in Levels : l < height' => PrevOK(l)'
    BY <1>3, <1>5, <2>2
  <2>7. height' <= List'.max_height
    BY <1>3, <1>7, <1>l, <2>2
  <2>8. WriterOK'
    BY <1>0, <1>2, <1>4, <2>2, <2>5, <2>6, <2>7 DEF WriterOK
  <2> QED BY <2>2, <2>3, <2>4, <2>8 DEF ListInv
<1> QED BY <1>6, <1>7

\* NewNode, of which nobody knows yet.
LEMMA NewNodeKeeps == ASSUME ListInv, NewNode PROVE ListInv'
<1>0. /\ MemoryOK /\ ListTypes /\ WriterOK /\ pc = "new" /\ pc' = "link" /\ level' = 0
      /\ UNCHANGED <<view, search, node, newKey, height, prev>>
  BY DEF ListInv, NewNode
<1>2. /\ newKey \in Keys /\ newKey \notin List.made /\ search[Writer].op = "none"
      /\ height <= List.max_height /\ \A l \in Levels : l < height => PrevOK(l)
      /\ Unused /\ WriterTypes
  BY <1>0 DEF WriterOK
<1>3. PICK w : w = WithNode(List, newKey) /\ Store(w)
  BY DEF NewNode, List, WithNode
<1>4. /\ w \in Memory /\ w.max_height = List.max_height /\ w.made = List.made \union {newKey}
      /\ w.loc = <<Null, 0>> /\ w.next = List.next
  <2>1. List \in Memory
    BY <1>0, ListFacts
  <2> QED BY <1>2, <1>3, <2>1, NodeForm
<1>5. ListTypes' /\ List' = w /\ \A r \in Readers : ReaderOK(r)'
  BY <1>0, <1>3, <1>4, StoreKeepsReaders
<1>6. Sorted(w) /\ \A l \in Levels : Linked(w, l) = Linked(List, l)
  BY <1>0, <1>4, ListFacts, SameLinks
<1>7. \A n \in Nodes, l \in Levels : w.loc # <<n, l>>
  BY <1>4, NotALink
<1>8. \A l \in Levels : Linked(mem[Now], l) \subseteq Linked(w, l) /\ Linked(w, l) \subseteq w.made
  <2>1. \A l \in Levels : Linked(List, l) \subseteq List.made
    BY <1>0, ListFacts
  <2> QED BY <1>4, <1>6, <2>1 DEF List
<1>9. MemoryOK'
  BY <1>0, <1>3, <1>4, <1>6, <1>7, <1>8, HistoryKeeps
<1>10. Unused'
  <2>1. \A l \in Levels : l >= List'.max_height => Linked(List', l) = {}
    BY <1>2, <1>4, <1>5, <1>6 DEF Unused
  <2>2. \A n \in Keys \ List'.made, l \in Levels : List'.next[n][l] = Uninit
    BY <1>2, <1>4, <1>5 DEF Unused
  <2> QED BY <2>1, <2>2 DEF Unused
<1>11. WriterTypes'
  BY <1>0, <1>2, LevelFacts DEF WriterTypes
<1>12. InLinking'
  <2>1. \A l \in Levels : l < height => PrevOK(l)'
    BY <1>0, <1>2, <1>4, <1>5, <1>6, PrevKept
  <2>2. \A l \in Levels : newKey \notin Linked(List, l)
    BY <1>0, <1>2, ListFacts
  <2>3. \A l \in Levels : List'.next[newKey][l] = Uninit
    BY <1>2, <1>4, <1>5 DEF Unused
  <2>4. 0 < height /\ 0 \in Levels /\ \A l \in Levels : ~(l < 0)
    BY <1>2, LevelFacts DEF WriterTypes
  <2>5. newKey' \in List'.made /\ height' <= List'.max_height
    BY <1>0, <1>2, <1>4, <1>5
  <2>6. \A l \in Levels : newKey' \notin Linked(List', l)
    BY <1>0, <1>5, <1>6, <2>2
  <2> QED BY <1>0, <1>2, <2>1, <2>3, <2>4, <2>5, <2>6 DEF InLinking
<1>13. WriterOK'
  BY <1>0, <1>2, <1>10, <1>11, <1>12 DEF WriterOK
<1> QED BY <1>5, <1>9, <1>13 DEF ListInv

\* First half of the linking loop's body.
LEMMA LinkNewKeeps == ASSUME ListInv, LinkNew PROVE ListInv'
<1>0. /\ MemoryOK /\ ListTypes /\ WriterOK /\ pc = "link" /\ pc' = "publish"
      /\ UNCHANGED <<view, search, node, newKey, height, level, prev>>
  BY DEF ListInv, LinkNew
<1>1. InLinking /\ Unused /\ WriterTypes /\ search[Writer].op = "none"
  BY <1>0 DEF WriterOK
<1>2. /\ level \in Levels /\ newKey \in Keys /\ newKey \in Nodes /\ newKey \notin Linked(List, level)
      /\ PrevOK(level) /\ List.next[newKey][level] = Uninit /\ newKey \in List.made
      /\ level < height /\ height <= List.max_height
  <2>1. level \in Levels /\ level <= level
    BY <1>1, LevelFacts DEF WriterTypes
  <2> QED BY <1>0, <1>1, <2>1, LevelFacts DEF InLinking
<1>3. prev[level] \in Nodes /\ prev[level] \in Nat /\ prev[level] # newKey
      /\ List.next[prev[level]][level] # Uninit
  <2>1. prev[level] \in Linked(List, level) \union {head} /\ prev[level] < newKey
        /\ (List.next[prev[level]][level] # Null => List.next[prev[level]][level] \in Keys)
    BY <1>2 DEF PrevOK
  <2>2. prev[level] \in Nodes /\ prev[level] \in Nat
    BY <1>0, <1>2, <2>1, Successor
  <2> QED BY <1>2, <2>1, <2>2
<1> DEFINE y == List.next[prev[level]][level]
<1>4. List \in Memory /\ y \in Pointers /\ Sorted(List)
  BY <1>0, <1>2, <1>3, ListFacts
<1>5. PICK w : w = WithLink(List, newKey, level, y, FALSE) /\ Store(w)
  BY DEF LinkNew, NoBarrier_SetNext, WithLink, List
<1>y. y # Uninit /\ y = List.next[prev[level]][level]
  BY <1>3
<1> HIDE DEF y
<1>6. /\ w \in Memory /\ w.max_height = List.max_height /\ w.made = List.made
      /\ w.loc = <<newKey, level>>
      /\ \A p \in Nodes, i \in Levels :
           w.next[p][i] = IF p = newKey /\ i = level THEN y ELSE List.next[p][i]
  <2>1. PICK b \in BOOLEAN : b = FALSE
    OBVIOUS
  <2>2. w = WithLink(List, newKey, level, y, b)
    BY <1>5, <2>1
  <2> QED BY <1>2, <1>4, <2>2, LinkForm
<1>7. Sorted(w) /\ \A i \in Levels : Linked(w, i) = Linked(List, i)
  <2>1. PICK k \in Keys, l \in Levels, p \in Nodes : k = newKey /\ l = level /\ p = prev[level]
    BY <1>2, <1>3
  <2>2. /\ k \notin Linked(List, l) /\ p # k /\ List.next[k][l] = Uninit
        /\ \A n \in Nodes, i \in Levels :
             w.next[n][i] = IF n = k /\ i = l THEN List.next[p][l] ELSE List.next[n][i]
    BY <1>2, <1>3, <1>6, <1>y, <2>1
  <2>3. List \in Memory /\ w \in Memory /\ Sorted(List)
    BY <1>4, <1>6
  <2> QED BY <2>2, <2>3, LinkingKeeps
<1>8. ListTypes' /\ List' = w /\ \A r \in Readers : ReaderOK(r)'
  BY <1>0, <1>5, <1>6, StoreKeepsReaders
<1>9. MemoryOK'
  <2>1. \A l \in Levels : Linked(mem[Now], l) \subseteq Linked(w, l) /\ Linked(w, l) \subseteq w.made
    <3>1. \A l \in Levels : Linked(List, l) \subseteq List.made
      BY <1>0, ListFacts
    <3> QED BY <1>6, <1>7, <3>1 DEF List
  <2>2. \A n \in Nodes, l \in Levels : w.loc = <<n, l>> => n # head /\ n \notin Linked(w, l)
    BY <1>2, <1>6, <1>7
  <2> QED BY <1>0, <1>5, <1>6, <1>7, <2>1, <2>2, HistoryKeeps
<1>10. Unused'
  <2>1. \A l \in Levels : l >= List'.max_height => Linked(List', l) = {}
    BY <1>1, <1>6, <1>7, <1>8 DEF Unused
  <2>2. \A n \in Keys \ List'.made, l \in Levels : List'.next[n][l] = Uninit
    BY <1>1, <1>2, <1>6, <1>8, LevelFacts DEF Unused
  <2> QED BY <2>1, <2>2 DEF Unused
<1>11. WriterTypes'
  BY <1>0, <1>1 DEF WriterTypes
<1>12. InLinking'
  <2>1. ASSUME NEW l \in Levels, level <= l, l < height
        PROVE  PrevOK(l)' /\ newKey \notin Linked(List, l)
    <3>1. PrevOK(l) /\ newKey \notin Linked(List, l)
      BY <1>1, <2>1 DEF InLinking
    <3>2. prev[l] \in Linked(List, l) \union {head} /\ prev[l] < newKey
      BY <3>1 DEF PrevOK
    <3>3. prev[l] \in Nodes /\ prev[l] \in Nat
      BY <1>0, <3>2, Successor
    <3>4. prev[l] # newKey
      BY <1>2, <3>2, <3>3
    <3>5. w.next[prev[l]][l] = List.next[prev[l]][l]
      BY <1>6, <3>3, <3>4
    <3> QED BY <1>0, <1>7, <1>8, <3>1, <3>5, PrevKept
  <2>2. \A l \in Levels : l < level => newKey \in Linked(List, l)
    BY <1>1 DEF InLinking
  <2>3. ASSUME NEW l \in Levels, level < l PROVE w.next[newKey][l] = Uninit
    <3>1. List.next[newKey][l] = Uninit /\ l # level
      BY <1>1, <1>2, <2>3, LevelFacts DEF InLinking
    <3> QED BY <1>2, <1>6, <3>1
  <2>4. w.next[newKey][level] = w.next[prev[level]][level]
    BY <1>2, <1>3, <1>6, <1>y
  <2>5. \A l \in Levels : level' <= l /\ l < height' => PrevOK(l)' /\ newKey' \notin Linked(List', l)
    BY <1>0, <1>7, <1>8, <2>1
  <2>6. \A l \in Levels : l < level' => newKey' \in Linked(List', l)
    BY <1>0, <1>7, <1>8, <2>2
  <2>7. newKey' \in Keys /\ newKey' \in List'.made /\ level' < height' /\ height' <= List'.max_height
    BY <1>0, <1>2, <1>6, <1>8
  <2>8. \A l \in Levels : level' < l => List'.next[newKey'][l] = Uninit
    BY <1>0, <1>8, <2>3
  <2>9. List'.next[newKey'][level'] = List'.next[prev'[level']][level']
    BY <1>0, <1>8, <2>4
  <2> QED BY <1>0, <2>5, <2>6, <2>7, <2>8, <2>9 DEF InLinking
<1>13. WriterOK'
  BY <1>0, <1>1, <1>10, <1>11, <1>12 DEF WriterOK
<1> QED BY <1>8, <1>9, <1>13 DEF ListInv

\* Second half: the release store that makes the node part of a level.
LEMMA PublishStepKeeps == ASSUME ListInv, Publish PROVE ListInv'
<1>0. /\ MemoryOK /\ ListTypes /\ WriterOK /\ pc = "publish"
      /\ UNCHANGED <<view, search, node, newKey, height, prev>>
      /\ IF level + 1 < height
         THEN level' = level + 1 /\ pc' = "link"
         ELSE level' = 0 /\ pc' = "idle"
  BY DEF ListInv, Publish
<1>1. InLinking /\ Unused /\ WriterTypes /\ search[Writer].op = "none"
  BY <1>0 DEF WriterOK
<1>2. PICK k \in Keys, l \in Levels : k = newKey /\ l = level
  BY <1>1 DEF InLinking, WriterTypes
<1>3. /\ k \notin Linked(List, l) /\ PrevOK(l) /\ k \in List.made /\ k \in Nodes
      /\ l < height /\ height <= List.max_height
      /\ List.next[k][l] = List.next[prev[l]][l]
      /\ \A i \in Levels : i < l => k \in Linked(List, i)
      /\ l \in Nat
  <2>1. level <= level
    BY <1>2, LevelFacts
  <2> QED BY <1>0, <1>1, <1>2, <2>1, LevelFacts DEF InLinking
<1>4. PICK p \in Linked(List, l) \union {head} : p = prev[l]
  BY <1>3 DEF PrevOK
<1>5. /\ p \in Nodes /\ p \in Nat /\ p < k
      /\ List.next[p][l] # Null => List.next[p][l] > k
  <2>1. p \in Nodes /\ p \in Nat
    BY <1>0, <1>4, Successor
  <2> QED BY <1>2, <1>3, <1>4, <2>1 DEF PrevOK
<1>6. List \in Memory /\ Sorted(List) /\ k \in Pointers
  BY <1>0, ListFacts DEF Pointers
<1>7. PICK w : w = WithLink(List, p, l, k, TRUE) /\ Store(w)
  BY <1>2, <1>4 DEF Publish, SetNext, WithLink, List
<1>8. /\ w \in Memory /\ w.max_height = List.max_height /\ w.made = List.made
      /\ w.release = TRUE
      /\ \A n \in Nodes, i \in Levels :
           w.next[n][i] = IF n = p /\ i = l THEN k ELSE List.next[n][i]
  <2>1. PICK b \in BOOLEAN : b = TRUE
    OBVIOUS
  <2>2. w = WithLink(List, p, l, k, b)
    BY <1>7, <2>1
  <2>3. /\ w \in Memory /\ w.max_height = List.max_height /\ w.made = List.made
        /\ w.release = b
        /\ \A n \in Nodes, i \in Levels :
             w.next[n][i] = IF n = p /\ i = l THEN k ELSE List.next[n][i]
    BY <1>5, <1>6, <2>2, LinkForm
  <2> QED BY <2>1, <2>3
<1>9. /\ Sorted(w)
      /\ \A i \in Levels : Linked(w, i) = IF i = l THEN Linked(List, l) \union {k} ELSE Linked(List, i)
  <2>1. l > 0 => k \in Linked(List, l - 1)
    <3>1. l > 0 => l - 1 \in Levels /\ l - 1 < l
      BY <1>3, LevelFacts
    <3> QED BY <1>3, <3>1
  <2> QED BY <1>3, <1>4, <1>5, <1>6, <1>8, <2>1, PublishKeeps
<1>10. ListTypes' /\ List' = w /\ \A r \in Readers : ReaderOK(r)'
  BY <1>0, <1>7, <1>8, StoreKeepsReaders
<1>11. MemoryOK'
  <2>1. \A i \in Levels : Linked(mem[Now], i) \subseteq Linked(w, i) /\ Linked(w, i) \subseteq w.made
    <3>1. \A i \in Levels : Linked(List, i) \subseteq List.made
      BY <1>0, ListFacts
    <3> QED BY <1>3, <1>8, <1>9, <3>1 DEF List
  <2> QED BY <1>0, <1>7, <1>8, <1>9, <2>1, HistoryKeeps
<1>12. Unused'
  <2>1. ASSUME NEW i \in Levels, i >= List'.max_height PROVE Linked(List', i) = {}
    <3>1. List.max_height \in Nat /\ height \in Nat /\ i \in Nat
      BY <1>0, <1>1, ListFacts, LevelFacts DEF WriterTypes
    <3>2. i >= List.max_height /\ i # l
      BY <1>3, <1>8, <1>10, <2>1, <3>1
    <3>3. Linked(List, i) = {}
      BY <1>1, <3>2 DEF Unused
    <3> QED BY <1>9, <1>10, <3>2, <3>3
  <2>2. ASSUME NEW n \in Keys \ List'.made, NEW i \in Levels PROVE List'.next[n][i] = Uninit
    <3>1. n \notin List.made /\ n \in Nodes /\ List.next[n][i] = Uninit
      BY <1>1, <1>8, <1>10, LevelFacts DEF Unused
    <3>2. n # p \/ i # l
      <4>1. p \in Linked(List, l) \/ p = head
        BY <1>4
      <4>2. Linked(List, l) \subseteq List.made
        BY <1>0, ListFacts
      <4> QED BY <3>1, <4>1, <4>2
    <3> QED BY <1>8, <1>10, <3>1, <3>2
  <2> QED BY <2>1, <2>2 DEF Unused
<1>13. WriterTypes'
  <2>1. height \in 1..kMaxHeight /\ height \in Nat
    BY <1>1 DEF WriterTypes
  <2>2. level + 1 < height => level + 1 \in Levels
    BY <1>2, <1>3, <2>1 DEF Levels
  <2> QED BY <1>0, <1>1, <2>2, LevelFacts DEF WriterTypes
<1>14. CASE level + 1 < height
  <2>0. level' = l + 1 /\ pc' = "link" /\ height \in Nat
    BY <1>0, <1>1, <1>2, <1>14 DEF WriterTypes
  <2>1. ASSUME NEW i \in Levels, l + 1 <= i, i < height
        PROVE  PrevOK(i)' /\ k \notin Linked(w, i)
    <3>0. i # l /\ l <= i
      BY <1>3, <2>1, LevelFacts
    <3>1. PrevOK(i) /\ k \notin Linked(List, i)
      BY <1>1, <1>2, <2>1, <3>0 DEF InLinking
    <3>2. prev[i] \in Linked(List, i) \union {head}
      BY <3>1 DEF PrevOK
    <3>3. prev[i] \in Nodes
      BY <1>0, <3>2, Successor
    <3>5. w.next[prev[i]][i] = List.next[prev[i]][i] /\ Linked(w, i) = Linked(List, i)
      BY <1>8, <1>9, <3>0, <3>3
    <3> QED BY <1>0, <1>10, <3>1, <3>5, PrevKept
  <2>2. ASSUME NEW i \in Levels, i < l + 1 PROVE k \in Linked(w, i)
    <3>0. i \in Nat /\ l \in Nat
      BY LevelFacts
    <3>1. i = l \/ i < l
      BY <2>2, <3>0
    <3> QED BY <1>3, <1>9, <3>1
  <2>3. ASSUME NEW i \in Levels, l < i PROVE w.next[k][i] = Uninit
    <3>1. List.next[k][i] = Uninit /\ i # l
      BY <1>1, <1>2, <1>3, <2>3, LevelFacts DEF InLinking
    <3> QED BY <1>3, <1>8, <3>1
  <2>4. l + 1 \in Levels /\ l < l + 1
    <3>1. height \in 1..kMaxHeight
      BY <1>1 DEF WriterTypes
    <3> QED BY <1>2, <1>3, <1>14, <3>1 DEF Levels
  <2>5. \A i \in Levels : level' <= i /\ i < height' => PrevOK(i)' /\ newKey' \notin Linked(List', i)
    BY <1>0, <1>2, <1>10, <2>0, <2>1
  <2>6. \A i \in Levels : i < level' => newKey' \in Linked(List', i)
    BY <1>0, <1>2, <1>10, <2>0, <2>2
  <2>7. newKey' \in Keys /\ newKey' \in List'.made /\ level' < height' /\ height' <= List'.max_height
    BY <1>0, <1>2, <1>3, <1>8, <1>10, <1>14, <2>0
  <2>8. \A i \in Levels : level' < i => List'.next[newKey'][i] = Uninit
    <3>1. ASSUME NEW i \in Levels, l + 1 < i PROVE w.next[k][i] = Uninit
      <4>1. l < i
        BY <1>3, <3>1, LevelFacts
      <4> QED BY <2>3, <4>1
    <3> QED BY <1>0, <1>2, <1>10, <2>0, <3>1
  <2>9. List'.next[newKey'][level'] = Uninit
    BY <1>0, <1>2, <1>10, <2>0, <2>3, <2>4
  <2>10. InLinking'
    BY <2>0, <2>5, <2>6, <2>7, <2>8, <2>9 DEF InLinking
  <2>11. WriterOK'
    BY <1>0, <1>1, <1>12, <1>13, <2>0, <2>10 DEF WriterOK
  <2> QED BY <1>10, <1>11, <2>11 DEF ListInv
<1>15. CASE ~(level + 1 < height)
  <2>1. WriterOK'
    BY <1>0, <1>1, <1>12, <1>13, <1>15 DEF WriterOK
  <2> QED BY <1>10, <1>11, <2>1 DEF ListInv
<1> QED BY <1>14, <1>15

-----------------------------------------------------------------------------
\* The steps of the readers.

\* What a load of a link can return to a reader that sees the node on that level:
\* the link is set, and where it leads is complete in what the reader sees then.
LEMMA LoadFacts ==
  ASSUME ListInv, NEW r \in Readers, NEW l \in Levels,
         NEW x \in Linked(mem[view[r]], l) \union {head},
         NEW s \in Visible(r, x, l)
  PROVE  /\ s \in view[r]..Now /\ s \in 1..Now /\ mem[s] \in Memory /\ view[r] \in 1..Now
         /\ x \in Nodes /\ x \in Nat
         /\ x \in Linked(mem[s], l) \union {head}
         /\ Linked(mem[s], l) \subseteq Keys
         /\ Follows(Linked(mem[s], l), x, mem[s].next[x][l])
         /\ mem[s].next[x][l] # Null =>
              mem[s].next[x][l] \in Keys /\ mem[s].next[x][l] \in Linked(mem[Acquire(r, s)[r]], l)
         /\ mem[s].next[x][l] # Uninit
         /\ Acquire(r, s) \in [Readers -> Nat]
         /\ Acquire(r, s)[r] \in 1..Now /\ view[r] <= Acquire(r, s)[r]
         /\ \A a \in Readers : a # r => Acquire(r, s)[a] = view[a]
<1>0. MemoryOK /\ view \in [Readers -> Nat] /\ view[r] \in 1..Now /\ r # Writer /\ Now \in Nat
  BY ListFacts DEF ListInv, ListTypes, ReaderOK
<1>1. View(r) = view[r]
  BY <1>0 DEF View
<1>2. s = view[r] \/ (s \in (view[r] + 1)..Now /\ mem[s].loc = <<x, l>>)
  BY <1>1 DEF Visible
<1>3. s \in view[r]..Now /\ s \in 1..Now
  BY <1>0, <1>2
<1>4. mem[s] \in Memory /\ Sorted(mem[s])
  <2>1. mem \in Seq(Memory) /\ mem # << >>
    BY <1>0 DEF MemoryOK
  <2> QED BY <1>0, <1>3, <2>1, NowFacts DEF MemoryOK
<1>5. Linked(mem[view[r]], l) \subseteq Linked(mem[s], l)
  <2>1. view[r] <= s
    BY <1>3
  <2> QED BY <1>0, <1>3, <2>1 DEF MemoryOK
<1>6. x \in Linked(mem[s], l) \union {head} /\ Linked(mem[s], l) \subseteq Keys
  BY <1>5 DEF Linked
<1>7. x \in Nodes /\ x \in Nat
  BY <1>6, LevelFacts
<1>8. Follows(Linked(mem[s], l), x, mem[s].next[x][l])
  BY <1>4, <1>6 DEF Sorted, SortedLevel
<1>9. s # view[r] => mem[s].release
  <2> SUFFICES ASSUME mem[s].loc = <<x, l>>, ~mem[s].release PROVE FALSE
    BY <1>2
  <2>1. x # head /\ x \notin Linked(mem[s], l)
    BY <1>0, <1>3, <1>7 DEF MemoryOK
  <2> QED BY <1>6, <2>1
<1>10. /\ Acquire(r, s) \in [Readers -> Nat] /\ Acquire(r, s)[r] = s
       /\ \A a \in Readers : a # r => Acquire(r, s)[a] = view[a]
  <2>0. s \in Nat
    BY <1>3
  <2>1. CASE mem[s].release
    <3>1. Acquire(r, s) = [view EXCEPT ![r] = s]
      BY <1>0, <2>1 DEF Acquire
    <3> QED BY <1>0, <2>0, <3>1
  <2>2. CASE ~mem[s].release
    <3>1. Acquire(r, s) = view /\ s = view[r]
      BY <1>9, <2>2 DEF Acquire
    <3> QED BY <1>0, <3>1
  <2> QED BY <2>1, <2>2
<1>11. mem[s].next[x][l] # Null => mem[s].next[x][l] \in Linked(mem[s], l)
  BY <1>8 DEF Follows
<1>12. mem[s].next[x][l] # Uninit
  BY <1>6, <1>11
<1>13. view[r] <= s
  BY <1>3
<1>14. mem[s].next[x][l] # Null =>
         mem[s].next[x][l] \in Keys /\ mem[s].next[x][l] \in Linked(mem[Acquire(r, s)[r]], l)
  BY <1>6, <1>10, <1>11
<1> QED BY <1>0, <1>3, <1>4, <1>6, <1>7, <1>8, <1>10, <1>12, <1>13, <1>14

\* A step of reader r that stores nothing, and what is left to show of it.
LEMMA ReaderStepKeeps ==
  ASSUME ListInv, NEW r \in Readers, UNCHANGED <<mem, writerVars>>, ListTypes', ReaderOK(r)',
         search'[Writer] = search[Writer],
         \A a \in Readers \ {r} : view'[a] = view[a] /\ node'[a] = node[a] /\ search'[a] = search[a]
  PROVE  ListInv'
<1>0. MemoryOK /\ WriterOK /\ Now \in Nat
  BY ListFacts DEF ListInv
<1>1. MemoryOK' /\ Now' = Now /\ List' = List
  BY <1>0, HistorySame DEF List
<1>2. UNCHANGED <<pc, newKey, height, level, prev>>
  BY DEF writerVars
<1>3. ASSUME NEW a \in Readers PROVE ReaderOK(a)'
  <2>1. CASE a = r
    BY <2>1
  <2>2. CASE a # r
    <3>1. view'[a] = view[a] /\ node'[a] = node[a] /\ search'[a] = search[a] /\ ReaderOK(a)
      BY <2>2 DEF ListInv
    <3> QED BY <1>0, <1>1, <3>1, ReaderKept
  <2> QED BY <2>1, <2>2
<1>4. \A l \in Levels : PrevOK(l) <=> PrevOK(l)'
  BY <1>1, <1>2 DEF PrevOK
<1>5. WriterTypes' /\ Unused'
  BY <1>0, <1>1, <1>2 DEF WriterOK, WriterTypes, Unused
<1>6. InSearch => InSearch'
  BY <1>1, <1>2, <1>4 DEF InSearch
<1>7. InLinking => InLinking'
  BY <1>1, <1>2, <1>4 DEF InLinking
<1>8. WriterOK'
  BY <1>0, <1>1, <1>2, <1>4, <1>5, <1>6, <1>7 DEF WriterOK
<1> QED BY <1>1, <1>3, <1>8 DEF ListInv

\* A reader starts a search at head_, on a level that max_height_ once had.
LEMMA BeginSearchKeeps ==
  ASSUME ListInv, NEW r \in Readers, NEW op \in {"ge", "lt", "last"}, NEW k \in Nodes,
         op # "last" => k \in Keys,
         BeginSearch(r, op, k), UNCHANGED <<mem, view, node, writerVars>>
  PROVE  ListInv'
<1>0. MemoryOK /\ ListTypes /\ ReaderOK(r) /\ r # Writer /\ r \in Actors /\ Now \in Nat
  BY ListFacts DEF ListInv, Actors
<1>1. PICK h \in MaxHeights(r) :
        search' = [search EXCEPT ![r] = [op |-> op, x |-> head, level |-> h - 1, target |-> k]]
  BY DEF BeginSearch
<1>2. h \in 1..kMaxHeight
  <2>1. PICK t \in view[r]..Now : h = mem[t].max_height
    BY <1>0 DEF MaxHeights, View
  <2>2. t \in 1..Now
    BY <1>0, <2>1 DEF ReaderOK
  <2>3. mem[t] \in Memory
    <3>1. mem \in Seq(Memory) /\ mem # << >>
      BY <1>0 DEF MemoryOK
    <3> QED BY <2>2, <3>1, NowFacts
  <2> QED BY <2>1, <2>3 DEF Memory
<1>3. h - 1 \in Levels
  BY <1>2 DEF Levels
<1> DEFINE q == [op |-> op, x |-> head, level |-> h - 1, target |-> k]
<1>4. q \in SearchRecord /\ q.op = op /\ q.x = head /\ q.level = h - 1 /\ q.target = k
  BY <1>3, LevelFacts DEF SearchRecord
<1> HIDE DEF q
<1>5. search' = [search EXCEPT ![r] = q] /\ search \in [Actors -> SearchRecord] /\ Readers \subseteq Actors
      /\ Writer \in Actors
  BY <1>0, <1>1 DEF q, ListTypes, Searches, SearchRecord, Actors
<1>6. search'[r] = q /\ \A a \in Actors : a # r => search'[a] = search[a]
  BY <1>0, <1>5
<1>7. ListTypes'
  BY <1>0, <1>4, <1>5 DEF ListTypes, Searches, SearchRecord
<1>8. ReaderOK(r)'
  <2>1. Now' = Now /\ mem' = mem /\ view' = view /\ node' = node
    BY DEF Now
  <2>2. op # "last" => head < k
    <3>1. \A i \in Keys : head < i
      OBVIOUS
    <3> QED BY <3>1
  <2>3. q.op # "last" => q.target \in Keys /\ q.x < q.target
    BY <1>4, <2>2
  <2> QED BY <1>0, <1>3, <1>4, <1>6, <2>1, <2>3 DEF ReaderOK
<1>9. search'[Writer] = search[Writer] /\ \A a \in Readers \ {r} : search'[a] = search[a]
  BY <1>0, <1>5, <1>6
<1> QED BY <1>7, <1>8, <1>9, ReaderStepKeeps

\* node_ = n->Next(0)
LEMMA FollowKeeps ==
  ASSUME ListInv, NEW r \in Readers, NEW n \in Nodes, n = head \/ n = node[r], Follow(r, n)
  PROVE  ListInv'
<1>0. ListTypes /\ ReaderOK(r) /\ search[r].op = "none" /\ UNCHANGED <<mem, search, writerVars>>
      /\ 0 \in Levels
  BY LevelFacts DEF ListInv, Follow
<1>1. n \in Linked(mem[view[r]], 0) \union {head}
  <2>1. n # Null
    BY LevelFacts
  <2> QED BY <1>0, <2>1 DEF ReaderOK
<1>2. PICK s \in Visible(r, n, 0) :
        view' = Acquire(r, s) /\ node' = [node EXCEPT ![r] = mem[s].next[n][0]]
  BY DEF Follow
<1> DEFINE y == mem[s].next[n][0]
<1>3. /\ y # Null => y \in Keys /\ y \in Linked(mem[view'[r]], 0)
      /\ view' \in [Readers -> Nat] /\ view'[r] \in 1..Now
      /\ \A a \in Readers : a # r => view'[a] = view[a]
  BY <1>0, <1>1, <1>2, LoadFacts
<1> HIDE DEF y
<1>4. node' = [node EXCEPT ![r] = y] /\ node \in [Readers -> Keys \union {Null}]
  BY <1>0, <1>2 DEF y, ListTypes
<1>5. node'[r] = y /\ (\A a \in Readers : a # r => node'[a] = node[a])
      /\ node' \in [Readers -> Keys \union {Null}]
  BY <1>3, <1>4
<1>6. ListTypes'
  BY <1>0, <1>3, <1>5 DEF ListTypes, Searches
<1>7. ReaderOK(r)'
  <2>1. Now' = Now /\ mem' = mem /\ search'[r].op = "none"
    BY <1>0 DEF Now
  <2> QED BY <1>3, <1>5, <2>1 DEF ReaderOK
<1> QED BY <1>0, <1>3, <1>5, <1>6, <1>7, ReaderStepKeeps

\* The reader is bound to see everything written so far.
LEMMA SynchronizeKeeps == ASSUME ListInv, NEW r \in Readers, Synchronize(r) PROVE ListInv'
<1>0. /\ ListTypes /\ ReaderOK(r) /\ MemoryOK /\ Now \in Nat /\ Now \in 1..Now /\ 0 \in Levels
      /\ UNCHANGED <<mem, search, node, writerVars>> /\ view' = [view EXCEPT ![r] = Now]
      /\ view \in [Readers -> Nat]
  BY ListFacts, LevelFacts DEF ListInv, Synchronize, ListTypes
<1>1. view'[r] = Now /\ \A a \in Readers : a # r => view'[a] = view[a]
  BY <1>0
<1>2. ListTypes'
  BY <1>0 DEF ListTypes, Searches
<1>3. \A l \in Levels : Linked(mem[view[r]], l) \subseteq Linked(mem[Now], l)
  <2>1. view[r] \in 1..Now /\ view[r] <= Now
    BY <1>0 DEF ReaderOK
  <2> QED BY <1>0, <2>1 DEF MemoryOK
<1>4. ReaderOK(r)'
  <2>1. Now' = Now /\ mem' = mem /\ search' = search /\ node' = node
    BY <1>0 DEF Now
  <2> QED BY <1>0, <1>1, <1>3, <2>1 DEF ReaderOK
<1> QED BY <1>0, <1>1, <1>2, <1>4, ReaderStepKeeps

\* One load of a reader's search.
LEMMA ReaderSearchKeeps == ASSUME ListInv, NEW r \in Readers, SearchStep(r) PROVE ListInv'
<1> DEFINE q == search[r]
<1>0. /\ ListTypes /\ ReaderOK(r) /\ MemoryOK /\ r # Writer /\ r \in Actors /\ q.op # "none"
      /\ UNCHANGED <<mem, newKey, height, level>>
      /\ search \in [Actors -> SearchRecord] /\ q \in SearchRecord /\ Writer \in Actors
      /\ node \in [Readers -> Keys \union {Null}] /\ Readers \subseteq Actors
  BY DEF ListInv, SearchStep, ListTypes, Searches, SearchRecord, Actors
<1>1. PICK j \in Levels : j = q.level
  BY <1>0 DEF ReaderOK
<1>2. /\ q.x \in Linked(mem[view[r]], j) \union {head}
      /\ q.op \in {"ge", "lt", "last"}
      /\ q.op # "last" => q.target \in Keys /\ q.x < q.target
  BY <1>0, <1>1 DEF ReaderOK
<1>3. PICK s \in Visible(r, q.x, j) :
        LET n == mem[s].next[q.x][j] IN
        /\ view' = Acquire(r, s)
        /\ IF ~StopsAt(q, n)
           THEN search' = [search EXCEPT ![r].x = n] /\ UNCHANGED <<node, prev, pc>>
           ELSE /\ prev' = prev /\ pc' = pc
                /\ IF q.level > 0
                   THEN search' = [search EXCEPT ![r] = Descend(q)] /\ node' = node
                   ELSE /\ search' = [search EXCEPT ![r] = NoSearch]
                        /\ node' = [node EXCEPT ![r] = IF Result(q, n) = head THEN Null ELSE Result(q, n)]
  BY <1>0, <1>1 DEF SearchStep
<1> DEFINE n == mem[s].next[q.x][j]
           v == view'[r]
<1>4. /\ n # Null => n \in Keys /\ n \in Linked(mem[v], j)
      /\ view' \in [Readers -> Nat] /\ v \in 1..Now /\ view[r] <= v /\ view[r] \in 1..Now
      /\ \A a \in Readers : a # r => view'[a] = view[a]
      /\ q.x \in Nodes /\ q.x \in Nat
  BY <1>2, <1>3, LoadFacts
<1>5. \A l \in Levels : Linked(mem[view[r]], l) \subseteq Linked(mem[v], l)
  BY <1>0, <1>4 DEF MemoryOK
<1>6. UNCHANGED <<mem, writerVars>> /\ Now' = Now
  BY <1>0, <1>3 DEF writerVars, Now
<1>7. ASSUME NEW w \in SearchRecord, search' = [search EXCEPT ![r] = w],
             NEW b \in Keys \union {Null}, node' = [node EXCEPT ![r] = b] \/ (node' = node /\ b = node[r]),
             b # Null => b \in Linked(mem[v], 0),
             w.op # "none" =>
               /\ w.x \in Linked(mem[v], w.level) \union {head}
               /\ w.op # "last" => w.target \in Keys /\ w.x < w.target
      PROVE  ListInv'
  <2>1. search'[r] = w /\ \A a \in Actors : a # r => search'[a] = search[a]
    BY <1>0, <1>7
  <2>2. /\ node'[r] = b /\ node' \in [Readers -> Keys \union {Null}]
        /\ \A a \in Readers : a # r => node'[a] = node[a]
    BY <1>0, <1>7
  <2>3. search' \in [Actors -> SearchRecord]
    BY <1>0, <1>7
  <2>4. ListTypes'
    BY <1>4, <2>2, <2>3 DEF ListTypes, Searches, SearchRecord
  <2>5. ReaderOK(r)'
    <3>1. mem' = mem /\ w.op \in {"none", "ge", "lt", "last"} /\ w.level \in Levels
      BY <1>6 DEF SearchRecord
    <3> QED BY <1>4, <1>6, <1>7, <2>1, <2>2, <3>1 DEF ReaderOK
  <2>6. search'[Writer] = search[Writer] /\ \A a \in Readers \ {r} : search'[a] = search[a]
    BY <1>0, <2>1
  <2> QED BY <1>4, <1>6, <2>2, <2>4, <2>5, <2>6, ReaderStepKeeps
<1>8. node[r] \in Keys \union {Null} /\ (node[r] # Null => node[r] \in Linked(mem[v], 0))
  BY <1>0, <1>5, LevelFacts DEF ReaderOK
<1>9. CASE ~StopsAt(q, n)
  <2>1. n # Null /\ (q.op # "last" => ~(n >= q.target))
    <3> HIDE DEF q, n
    <3> QED BY <1>9, Zenon DEF StopsAt
  <2>2. n \in Keys /\ n \in Linked(mem[v], j) /\ n \in Nodes
    BY <1>4, <2>1, LevelFacts
  <2> DEFINE w == [q EXCEPT !.x = n]
  <2>3. w \in SearchRecord /\ w.x = n /\ w.level = q.level /\ w.op = q.op /\ w.target = q.target
    BY <1>0, <2>2, SearchForms
  <2>4. search' = [search EXCEPT ![r] = w] /\ node' = node
    BY <1>0, <1>3, <1>9
  <2> HIDE DEF w, n, q, v
  <2>5. ASSUME q.op # "last" PROVE n < q.target
    <3>1. ~(n >= q.target) /\ q.target \in Keys
      BY <1>2, <2>1, <2>5, Zenon
    <3>2. n \in Nat /\ q.target \in Nat
      BY <2>2, <3>1
    <3> QED BY <3>1, <3>2
  <2> QED BY <1>1, <1>2, <1>7, <1>8, <2>2, <2>3, <2>4, <2>5
<1>10. CASE StopsAt(q, n) /\ q.level > 0
  <2> DEFINE w == Descend(q)
  <2>1. w \in SearchRecord /\ w.x = q.x /\ w.level = q.level - 1 /\ w.op = q.op /\ w.target = q.target
    BY <1>0, <1>4, <1>10, SearchForms
  <2>2. search' = [search EXCEPT ![r] = w] /\ node' = node
    BY <1>3, <1>10
  <2>3. q.x \in Linked(mem[v], j - 1) \union {head}
    <3>1. Sorted(mem[v]) /\ j > 0
      BY <1>0, <1>1, <1>4, <1>10 DEF MemoryOK
    <3>2. Linked(mem[v], j) \subseteq Linked(mem[v], j - 1)
      BY <3>1 DEF Sorted
    <3> QED BY <1>2, <1>5, <3>2
  <2> HIDE DEF w, n, q, v
  <2> QED BY <1>1, <1>2, <1>7, <1>8, <2>1, <2>2, <2>3
<1>11. CASE StopsAt(q, n) /\ ~(q.level > 0)
  <2> DEFINE b == IF Result(q, n) = head THEN Null ELSE Result(q, n)
  <2>0. j = 0
    BY <1>1, <1>11, LevelFacts
  <2>1. b \in Keys \union {Null} /\ (b # Null => b \in Linked(mem[v], 0))
    <3>1. CASE q.op = "ge"
      BY <1>4, <2>0, <3>1 DEF Result
    <3>2. CASE q.op # "ge"
      <4>1. q.x # head => q.x \in Linked(mem[v], 0) /\ q.x \in Keys
        BY <1>2, <1>5, <2>0, LevelFacts DEF Linked
      <4> QED BY <3>2, <4>1 DEF Result
    <3> QED BY <3>1, <3>2
  <2>2. NoSearch \in SearchRecord /\ NoSearch.op = "none"
    BY <1>0, <1>4, SearchForms
  <2>3. search' = [search EXCEPT ![r] = NoSearch] /\ node' = [node EXCEPT ![r] = b]
    BY <1>3, <1>11
  <2> HIDE DEF b, n, q, v
  <2> QED BY <1>7, <2>1, <2>2, <2>3
<1> QED BY <1>9, <1>10, <1>11

-----------------------------------------------------------------------------
\* ListInv is an invariant, and what follows from it.

\* The calls a reader makes.
LEMMA ReaderCallKeeps == ASSUME ListInv, NEW r \in Readers, ReaderCall(r) PROVE ListInv'
<1>0. ReaderOK(r) /\ node[r] \in Keys \union {Null} /\ Keys \subseteq Nodes /\ head \in Nodes
  BY LevelFacts DEF ListInv, ListTypes
<1>1. ASSUME NEW k \in Keys, Seek(r, k) PROVE ListInv'
  BY <1>0, <1>1, BeginSearchKeeps DEF Seek
<1>2. CASE Prev(r)
  <2>1. node[r] \in Keys
    BY <1>0, <1>2 DEF Prev
  <2> QED BY <1>0, <1>2, <2>1, BeginSearchKeeps DEF Prev
<1>3. CASE SeekToLast(r)
  BY <1>0, <1>3, BeginSearchKeeps DEF SeekToLast
<1>4. CASE SeekToFirst(r)
  BY <1>0, <1>4, FollowKeeps DEF SeekToFirst
<1>5. CASE IterNext(r)
  <2>1. node[r] \in Nodes
    BY <1>0, <1>5 DEF IterNext
  <2> QED BY <1>5, <2>1, FollowKeeps DEF IterNext
<1>6. CASE Synchronize(r)
  BY <1>6, SynchronizeKeeps
<1> QED BY <1>1, <1>2, <1>3, <1>4, <1>5, <1>6 DEF ReaderCall

\* Every step of the writer and of the readers keeps the invariant.
LEMMA ListInductive == ListInv /\ [Next]_vars => ListInv'
<1> SUFFICES ASSUME ListInv, [Next]_vars PROVE ListInv'
  OBVIOUS
<1>1. ASSUME NEW k \in Keys, BeginInsert(k) PROVE ListInv'
  BY <1>1, BeginInsertKeeps
<1>2. CASE InsertStep
  BY <1>2, WriterSearchKeeps, InsertHeightKeeps, NewNodeKeeps, LinkNewKeeps, PublishStepKeeps
     DEF InsertStep
<1>3. ASSUME NEW r \in Readers, ReaderCall(r) PROVE ListInv'
  BY <1>3, ReaderCallKeeps
<1>4. ASSUME NEW r \in Readers, SearchStep(r) PROVE ListInv'
  BY <1>4, ReaderSearchKeeps
<1>5. CASE UNCHANGED vars
  <2>1. UNCHANGED <<mem, view, search, node, writerVars>> /\ UNCHANGED <<pc, newKey, height, level, prev>>
    BY <1>5 DEF vars, writerVars
  <2>2. ListTypes'
    BY <2>1 DEF ListInv, ListTypes, Searches
  <2>3. MemoryOK' /\ Now' = Now /\ List' = List /\ Now \in Nat
    BY <2>1, HistorySame, ListFacts DEF ListInv, List
  <2>4. ASSUME NEW r \in Readers PROVE ReaderOK(r)'
    <3>1. ReaderOK(r)
      BY DEF ListInv
    <3> QED BY <2>1, <2>3, <3>1, ReaderKept
  <2>5. WriterOK'
    BY <2>1, <2>3 DEF ListInv, WriterOK, WriterTypes, Unused, InSearch, InLinking, PrevOK
  <2> QED BY <2>2, <2>3, <2>4, <2>5 DEF ListInv
<1> QED BY <1>1, <1>2, <1>3, <1>4, <1>5 DEF Next

\* The invariant holds of the list the constructor leaves.
LEMMA ListInitially == Init => ListInv
<1> SUFFICES ASSUME Init PROVE ListInv
  OBVIOUS
<1> DEFINE f == [n \in Nodes |-> [l \in Levels |-> IF n = head THEN Null ELSE Uninit]]
           m == [next |-> f, max_height |-> 1, made |-> {head}, loc |-> <<head, 0>>, release |-> TRUE]
<1>1. mem = <<m>>
  BY DEF Init
<1>2. /\ f \in [Nodes -> [Levels -> Pointers]]
      /\ \A n \in Nodes, l \in Levels : f[n][l] = IF n = head THEN Null ELSE Uninit
  BY DEF Pointers
<1> HIDE DEF f
<1>3. m \in Memory /\ m.next = f /\ m.max_height = 1 /\ m.made = {head} /\ m.release = TRUE
  <2>1. /\ 1 \in 1..kMaxHeight /\ {head} \in SUBSET Nodes
        /\ <<head, 0>> \in (Nodes \union {Null}) \X Levels
    BY LevelFacts
  <2> QED BY <1>2, <2>1 DEF Memory
<1> HIDE DEF m
<1>4. mem \in Seq(Memory) /\ mem # << >> /\ Now = 1 /\ mem[1] = m /\ List = m
  BY <1>1, <1>3 DEF Now, List
<1>5. \A l \in Levels : Linked(m, l) = {}
  <2>1. \A n \in Nodes, l \in Levels : m.next[n][l] \notin Keys
    <3>1. Null \notin Keys /\ Uninit \notin Keys
      OBVIOUS
    <3>2. \A n \in Nodes, l \in Levels : f[n][l] = Null \/ f[n][l] = Uninit
      BY <1>2, Zenon
    <3>3. m.next = f
      BY <1>3
    <3> QED BY <3>1, <3>2, <3>3
  <2> QED BY <2>1 DEF Linked
<1>6. Sorted(m)
  <2>1. ASSUME NEW l \in Levels PROVE SortedLevel(m, l)
    <3>1. m.next[head][l] = Null
      BY <1>2, <1>3, LevelFacts
    <3> QED BY <1>5, <3>1 DEF SortedLevel, Follows
  <2>2. \A l \in Levels : l > 0 => Linked(m, l) \subseteq Linked(m, l - 1)
    BY <1>5
  <2> QED BY <2>1, <2>2 DEF Sorted
<1>7. MemoryOK
  <2>1. \A t \in 1..Now : t = 1 /\ mem[t] = m
    BY <1>4
  <2> QED BY <1>3, <1>4, <1>5, <1>6, <2>1 DEF MemoryOK
<1>8. NoSearch \in SearchRecord /\ NoSearch.op = "none"
  BY LevelFacts DEF NoSearch, SearchRecord
<1>9. search = [a \in Actors |-> NoSearch] /\ \A a \in Actors : search[a] = NoSearch
  BY DEF Init
<1>10. ListTypes
  BY <1>8, <1>9 DEF Init, ListTypes, Searches, SearchRecord
<1>11. ASSUME NEW r \in Readers PROVE ReaderOK(r)
  <2>1. search[r].op = "none" /\ view[r] = 1 /\ node[r] = Null
    BY <1>8, <1>9 DEF Init, Actors
  <2> QED BY <1>4, <2>1 DEF ReaderOK
<1>12. WriterTypes /\ pc = "idle"
  BY LevelFacts DEF Init, WriterTypes
<1>13. Unused
  <2>1. \A n \in Keys \ List.made, l \in Levels : List.next[n][l] = Uninit
    BY <1>2, <1>3, <1>4, LevelFacts
  <2> QED BY <1>4, <1>5, <2>1 DEF Unused
<1>14. search[Writer].op = "none"
  BY <1>8, <1>9 DEF Actors
<1>15. WriterOK
  BY <1>12, <1>13, <1>14 DEF WriterOK
<1> QED BY <1>7, <1>10, <1>11, <1>15 DEF ListInv

\* The invariant holds always, whatever the scheduling.
LEMMA ListInvariance == Init /\ [][Next]_vars => []ListInv
BY ListInitially, ListInductive, PTL

\* MemoryOK holds for every state of the history, LevelsSorted is part of it.
LEMMA SortedFollows == ListInv => LevelsSorted
BY DEF ListInv, MemoryOK, LevelsSorted, Sorted, SortedLevel

\* Where ReaderOK puts a reader, all it can load is set and complete.
LEMMA ReadsInitialized == ListInv => NoUninitializedRead
<1> SUFFICES ASSUME ListInv, NEW r \in Readers
             PROVE  /\ search[r].op # "none" =>
                         \A s \in Visible(r, search[r].x, search[r].level) :
                           LET n == mem[s].next[search[r].x][search[r].level] IN
                           /\ n # Uninit
                           /\ n # Null => n \in mem[Acquire(r, s)[r]].made
                    /\ node[r] # Null =>
                         /\ node[r] \in mem[view[r]].made
                         /\ \A s \in Visible(r, node[r], 0) : mem[s].next[node[r]][0] # Uninit
  BY DEF NoUninitializedRead
<1>0. ReaderOK(r) /\ MemoryOK /\ 0 \in Levels
  BY LevelFacts DEF ListInv
<1>m. \A t \in 1..Now, l \in Levels : Linked(mem[t], l) \subseteq mem[t].made
  BY <1>0 DEF MemoryOK
<1>1. ASSUME search[r].op # "none", NEW s \in Visible(r, search[r].x, search[r].level)
      PROVE  LET n == mem[s].next[search[r].x][search[r].level] IN
             /\ n # Uninit
             /\ n # Null => n \in mem[Acquire(r, s)[r]].made
  <2>1. PICK l \in Levels : l = search[r].level
    BY <1>0, <1>1 DEF ReaderOK
  <2>2. PICK x \in Linked(mem[view[r]], l) \union {head} : x = search[r].x
    BY <1>0, <1>1, <2>1 DEF ReaderOK
  <2>3. s \in Visible(r, x, l)
    BY <2>1, <2>2
  <2>4. /\ mem[s].next[x][l] # Uninit
        /\ mem[s].next[x][l] # Null => mem[s].next[x][l] \in Linked(mem[Acquire(r, s)[r]], l)
        /\ Acquire(r, s)[r] \in 1..Now
    BY <2>3, LoadFacts
  <2>5. mem[s].next[x][l] # Null => mem[s].next[x][l] \in mem[Acquire(r, s)[r]].made
    BY <1>m, <2>4
  <2> QED BY <2>1, <2>2, <2>4, <2>5
<1>2. ASSUME node[r] # Null
      PROVE  /\ node[r] \in mem[view[r]].made
             /\ \A s \in Visible(r, node[r], 0) : mem[s].next[node[r]][0] # Uninit
  <2>1. PICK x \in Linked(mem[view[r]], 0) : x = node[r]
    BY <1>0, <1>2 DEF ReaderOK
  <2>2. view[r] \in 1..Now
    BY <1>0 DEF ReaderOK
  <2>3. x \in mem[view[r]].made
    BY <1>0, <1>m, <2>1, <2>2
  <2>4. ASSUME NEW s \in Visible(r, x, 0) PROVE mem[s].next[x][0] # Uninit
    BY <1>0, <2>1, LoadFacts
  <2> QED BY <2>1, <2>3, <2>4
<1> QED BY <1>1, <1>2

-----------------------------------------------------------------------------
\* What a reader gets is exact.

\* The load that ends a search stands for the whole list it was made in: the
\* reader is before its target, and where it stops nothing lies between.
LEMMA StopIsAnswer ==
  ASSUME NEW m, NEW q \in SearchRecord, NEW n, q.op # "none",
         Linked(m, 0) \subseteq Keys, q.x \in Linked(m, 0) \union {head},
         q.op # "last" => q.target \in Keys /\ q.x < q.target,
         Follows(Linked(m, 0), q.x, n), StopsAt(q, n)
  PROVE  Answers(m, q, IF Result(q, n) = head THEN Null ELSE Result(q, n))
<1>0. PICK K \in SUBSET Keys : K = Linked(m, 0)
  OBVIOUS
<1>1. PICK x \in Nat : x = q.x
  BY LevelFacts
<1>k. K \subseteq Nat \ {0} /\ x \in K \union {0} /\ Null \notin K
  BY <1>0, <1>1
<1>2. /\ n = Null => \A k \in K : k <= x
      /\ n # Null => n \in K /\ x < n /\ \A k \in K : k <= x \/ n <= k
  BY <1>0, <1>1 DEF Follows
<1>3. CASE q.op = "ge"
  <2>1. PICK g \in Nat : g = q.target /\ x < g
    BY <1>1, <1>3
  <2>2. n = Null \/ n >= g
    BY <1>3, <2>1 DEF StopsAt
  <2>3. n # 0
    BY <1>k, <1>2
  <2>4. (IF Result(q, n) = head THEN Null ELSE Result(q, n)) = n
    BY <1>3, <2>3 DEF Result
  <2>5. n # Null => n \in K /\ n >= g
    BY <1>2, <2>2
  <2>6. ASSUME NEW j \in K, j >= g PROVE n # Null /\ n <= j
    BY <1>k, <1>2, <2>1, <2>6
  <2>7. Answers(m, q, n)
    BY <1>0, <1>3, <2>1, <2>5, <2>6, Zenon DEF Answers
  <2> QED BY <2>4, <2>7
<1>4. CASE q.op = "lt"
  <2>1. PICK g \in Nat : g = q.target /\ x < g
    BY <1>1, <1>4
  <2>2. n = Null \/ n >= g
    BY <1>4, <2>1 DEF StopsAt
  <2>3. PICK k : k = IF Result(q, n) = head THEN Null ELSE Result(q, n)
    OBVIOUS
  <2>4. k = IF x = 0 THEN Null ELSE x
    BY <1>1, <1>4, <2>3 DEF Result
  <2>5. k # Null => k \in K /\ k < g
    BY <1>k, <2>1, <2>4
  <2>6. ASSUME NEW j \in K, j < g PROVE k # Null /\ j <= k
    <3>0. ASSUME n # Null PROVE ~(n <= j)
      <4>1. n \in Nat /\ j \in Nat /\ n >= g
        BY <1>k, <1>2, <2>2, <3>0
      <4> QED BY <2>1, <2>6, <4>1
    <3>1. j <= x
      BY <1>2, <3>0
    <3>2. x # 0
      BY <1>k, <3>1
    <3> QED BY <2>4, <3>1, <3>2
  <2>7. Answers(m, q, k)
    BY <1>0, <1>4, <2>1, <2>5, <2>6, Zenon DEF Answers
  <2> QED BY <2>3, <2>7
<1>5. CASE q.op = "last"
  <2>2. n = Null
    BY <1>5 DEF StopsAt
  <2>3. PICK k : k = IF Result(q, n) = head THEN Null ELSE Result(q, n)
    OBVIOUS
  <2>4. k = IF x = 0 THEN Null ELSE x
    BY <1>1, <1>5, <2>3 DEF Result
  <2>5. k # Null => k \in K
    BY <1>k, <2>4
  <2>6. ASSUME NEW j \in K PROVE k # Null /\ j <= k
    <3>1. j <= x
      BY <1>2, <2>2
    <3>2. x # 0
      BY <1>k, <3>1
    <3> QED BY <2>4, <3>1, <3>2
  <2>7. Answers(m, q, k)
    BY <1>0, <1>5, <2>5, <2>6, Zenon DEF Answers
  <2> QED BY <2>3, <2>7
<1> QED BY <1>3, <1>4, <1>5 DEF SearchRecord

\* The step of a reader's search that ends it.
LEMMA SearchStepExact ==
  ASSUME ListInv, NEW r \in Readers, SearchStep(r), search'[r].op = "none"
  PROVE  \E t \in view[r]..Now : Answers(mem[t], search[r], node'[r])
<1> DEFINE q == search[r]
<1>0. /\ ReaderOK(r) /\ r # Writer /\ r \in Actors /\ q.op # "none"
      /\ search \in [Actors -> SearchRecord] /\ q \in SearchRecord
      /\ node \in [Readers -> Keys \union {Null}]
  BY DEF ListInv, SearchStep, ListTypes, Searches, SearchRecord, Actors
<1>1. PICK j \in Levels : j = q.level
  BY <1>0 DEF ReaderOK
<1>2. /\ q.x \in Linked(mem[view[r]], j) \union {head}
      /\ q.op # "last" => q.target \in Keys /\ q.x < q.target
  BY <1>0, <1>1 DEF ReaderOK
<1>3. PICK s \in Visible(r, q.x, j) :
        LET n == mem[s].next[q.x][j] IN
        /\ view' = Acquire(r, s)
        /\ IF ~StopsAt(q, n)
           THEN search' = [search EXCEPT ![r].x = n]
           ELSE IF q.level > 0
                THEN search' = [search EXCEPT ![r] = Descend(q)]
                ELSE node' = [node EXCEPT ![r] = IF Result(q, n) = head THEN Null ELSE Result(q, n)]
  BY <1>0, <1>1 DEF SearchStep
<1> DEFINE n == mem[s].next[q.x][j]
<1>4. /\ n # Null => n \in Keys
      /\ s \in view[r]..Now
      /\ q.x \in Linked(mem[s], j) \union {head} /\ q.x \in Nodes
      /\ Linked(mem[s], j) \subseteq Keys
      /\ Follows(Linked(mem[s], j), q.x, n)
  BY <1>2, <1>3, LoadFacts
<1>5. StopsAt(q, n)
  <2> SUFFICES ASSUME ~StopsAt(q, n) PROVE FALSE
    OBVIOUS
  <2>1. n # Null
    <3> HIDE DEF q, n
    <3> QED BY Zenon DEF StopsAt
  <2>2. n \in Nodes
    BY <1>4, <2>1, LevelFacts
  <2>3. [q EXCEPT !.x = n].op = q.op
    BY <1>0, <2>2, SearchForms
  <2>4. search' = [search EXCEPT ![r] = [q EXCEPT !.x = n]]
    BY <1>0, <1>3
  <2> HIDE DEF n
  <2>5. search'[r] = [q EXCEPT !.x = n]
    BY <1>0, <2>4
  <2>6. search'[r].op = q.op
    BY <2>3, <2>5
  <2> QED BY <1>0, <2>6
<1>6. ~(q.level > 0)
  <2> SUFFICES ASSUME q.level > 0 PROVE FALSE
    OBVIOUS
  <2>1. Descend(q).op = q.op
    BY <1>0, <1>4, SearchForms
  <2>2. search' = [search EXCEPT ![r] = Descend(q)]
    BY <1>3, <1>5
  <2>3. search'[r] = Descend(q)
    BY <1>0, <2>2
  <2> QED BY <1>0, <2>1, <2>3
<1>7. j = 0
  BY <1>1, <1>6, LevelFacts
<1>8. node'[r] = IF Result(q, n) = head THEN Null ELSE Result(q, n)
  <2>1. node' = [node EXCEPT ![r] = IF Result(q, n) = head THEN Null ELSE Result(q, n)]
    BY <1>3, <1>5, <1>6
  <2> QED BY <1>0, <2>1
<1>9. Answers(mem[s], q, IF Result(q, n) = head THEN Null ELSE Result(q, n))
  <2>1. /\ Linked(mem[s], 0) \subseteq Keys /\ q.x \in Linked(mem[s], 0) \union {head}
        /\ Follows(Linked(mem[s], 0), q.x, n)
    BY <1>4, <1>7
  <2> HIDE DEF n, q
  <2> QED BY <1>0, <1>2, <1>5, <2>1, StopIsAnswer
<1> QED BY <1>4, <1>8, <1>9

\* node_ = n->Next(0)
LEMMA FollowExact ==
  ASSUME ListInv, NEW r \in Readers, NEW x \in Linked(mem[view[r]], 0) \union {head}, Follow(r, x)
  PROVE  \E t \in view[r]..Now : Follows(Linked(mem[t], 0), x, node'[r])
<1>1. PICK s \in Visible(r, x, 0) : node' = [node EXCEPT ![r] = mem[s].next[x][0]]
  BY DEF Follow
<1>2. node'[r] = mem[s].next[x][0]
  BY <1>1 DEF ListInv, ListTypes
<1>3. s \in view[r]..Now /\ Follows(Linked(mem[s], 0), x, mem[s].next[x][0])
  BY LevelFacts, LoadFacts
<1> QED BY <1>2, <1>3

\* A search of a reader only ends in a step of that search.
LEMMA SearchEnds ==
  ASSUME ListInv, [Next]_vars, NEW r \in Readers, search[r].op # "none", search'[r].op = "none"
  PROVE  SearchStep(r)
<1>0. r # Writer /\ r \in Actors /\ Writer \in Actors /\ search' # search
      /\ search \in [Actors -> SearchRecord]
  BY DEF ListInv, ListTypes, Searches, SearchRecord, Actors
<1>1. ASSUME NEW a \in Actors, a # r, NEW v, search' = [search EXCEPT ![a] = v] PROVE FALSE
  <2>1. search'[r] = search[r]
    BY <1>0, <1>1
  <2> QED BY <2>1
<1>2. ASSUME NEW a \in Actors, a # r, NEW o, NEW k, BeginSearch(a, o, k) PROVE FALSE
  BY <1>1, <1>2 DEF BeginSearch
<1>3. ASSUME NEW a \in Actors, a # r, SearchStep(a) PROVE FALSE
  <2>1. \E v : search' = [search EXCEPT ![a] = v]
    BY <1>3 DEF SearchStep
  <2> QED BY <1>1, <1>3, <2>1
<1>4. CASE \E k \in Keys : BeginInsert(k)
  BY <1>0, <1>2, <1>4 DEF BeginInsert
<1>5. CASE InsertStep
  BY <1>0, <1>3, <1>5 DEF InsertStep, InsertHeight, NewNode, LinkNew, Publish
<1>6. ASSUME NEW a \in Readers, ReaderCall(a) PROVE FALSE
  <2>1. a \in Actors
    BY DEF Actors
  <2>2. CASE a = r
    BY <1>0, <1>6, <2>2
       DEF ReaderCall, Seek, Prev, SeekToLast, SeekToFirst, IterNext, Follow, Synchronize
  <2>3. CASE a # r
    BY <1>0, <1>2, <1>6, <2>1, <2>3
       DEF ReaderCall, Seek, Prev, SeekToLast, SeekToFirst, IterNext, Follow, Synchronize
  <2> QED BY <2>2, <2>3
<1>7. ASSUME NEW a \in Readers, SearchStep(a) PROVE a = r
  BY <1>3, <1>7 DEF Actors
<1>8. Next
  BY <1>0 DEF vars
<1> QED BY <1>4, <1>5, <1>6, <1>7, <1>8, <1>0 DEF Next

\* What ReadsExact says of one step.
LEMMA ExactStep == ListInv /\ [Next]_vars =>
  [ \A r \in Readers :
        /\ search[r].op # "none" /\ search'[r].op = "none" =>
             \E t \in view[r]..Now : Answers(mem[t], search[r], node'[r])
        /\ IterNext(r) =>
             \E t \in view[r]..Now : Follows(Linked(mem[t], 0), node[r], node'[r])
        /\ SeekToFirst(r) =>
             \E t \in view[r]..Now : Follows(Linked(mem[t], 0), head, node'[r]) ]_vars
<1> SUFFICES ASSUME ListInv, [Next]_vars, NEW r \in Readers
             PROVE  /\ search[r].op # "none" /\ search'[r].op = "none" =>
                         \E t \in view[r]..Now : Answers(mem[t], search[r], node'[r])
                    /\ IterNext(r) =>
                         \E t \in view[r]..Now : Follows(Linked(mem[t], 0), node[r], node'[r])
                    /\ SeekToFirst(r) =>
                         \E t \in view[r]..Now : Follows(Linked(mem[t], 0), head, node'[r])
  OBVIOUS
<1>1. ASSUME search[r].op # "none", search'[r].op = "none"
      PROVE  \E t \in view[r]..Now : Answers(mem[t], search[r], node'[r])
  BY <1>1, SearchEnds, SearchStepExact
<1>2. ASSUME IterNext(r)
      PROVE  \E t \in view[r]..Now : Follows(Linked(mem[t], 0), node[r], node'[r])
  <2>1. node[r] \in Linked(mem[view[r]], 0) \union {head} /\ Follow(r, node[r])
    BY <1>2 DEF IterNext, ListInv, ReaderOK
  <2> QED BY <2>1, FollowExact
<1>3. ASSUME SeekToFirst(r)
      PROVE  \E t \in view[r]..Now : Follows(Linked(mem[t], 0), head, node'[r])
  BY <1>3, FollowExact DEF SeekToFirst
<1> QED BY <1>1, <1>2, <1>3

\* Every read of every reader is exact for one state of the list.
LEMMA ExactReads == Init /\ [][Next]_vars => ReadsExact
BY ListInvariance, ExactStep, PTL DEF ReadsExact

-----------------------------------------------------------------------------
\* The nodes in the arena.

\* AllocateAligned gives out one region that nobody had, of the size asked for.
LEMMA NewRegion ==
  ASSUME ArenaInv, NEW bytes \in Requests, AllocateAligned(bytes)
  PROVE  \E n \in regions' : /\ regions' = regions \union {n} /\ n \notin regions
                             /\ n.size = bytes /\ n.aligned = TRUE
<1>0. /\ \A r \in regions : r.block \in 1..blocks /\ r.start \in Nat /\ r.size \in Nat
      /\ blocks \in Nat /\ ptr \in Nat /\ bytes \in Nat \ {0} /\ Padding \in Nat
  BY ArenaAssumption, PaddingAligns DEF ArenaInv, TypeOK
<1>1. PICK n : /\ regions' = regions \union {n}
               /\ n.size = bytes /\ n.aligned = TRUE
               /\ (n.block = cur /\ n.start = ptr + Padding) \/ n.block = blocks + 1
  <2>1. PICK b, p : /\ Give(b, p, bytes, TRUE)
                    /\ (b = cur /\ p = ptr + Padding) \/ b = blocks + 1
    <3>1. CASE Give(cur, ptr + Padding, bytes, TRUE)
      BY <3>1, Zenon
    <3>2. CASE Give(blocks + 1, 0, bytes, TRUE)
      BY <3>2, Zenon
    <3> QED BY <3>1, <3>2 DEF AllocateAligned, AllocateAfter, AllocateFallback
  <2> DEFINE n == [block |-> b, start |-> p, size |-> bytes, aligned |-> TRUE]
  <2>2. regions' = regions \union {n}
    BY <2>1 DEF Give
  <2>3. n.block = b /\ n.start = p /\ n.size = bytes /\ n.aligned = TRUE
    OBVIOUS
  <2> HIDE DEF n
  <2> QED BY <2>1, <2>2, <2>3
<1>2. n \notin regions
  <2>1. CASE n.block = cur /\ n.start = ptr + Padding
    <3>1. n \in regions => n.start + n.size <= ptr
      BY <2>1 DEF ArenaInv, FreeTailUnused
    <3> QED BY <1>0, <1>1, <2>1, <3>1
  <2>2. CASE n.block = blocks + 1
    BY <1>0, <2>2
  <2> QED BY <1>1, <2>1, <2>2
<1> QED BY <1>1, <1>2

\* A node keeps its region: it was aligned when it was given out, belongs to no other
\* node and has room for every link that is set, and for the ones Insert is about to set.
PlaceOK ==
  /\ place \in [Nodes -> SUBSET regions]
  /\ \A n \in Nodes, m \in Nodes : n # m => place[n] \cap place[m] = {}
  /\ \A n \in Nodes : \A r \in place[n] : r.aligned /\ r.size \in Nat

Fits(n, l) == \A r \in place[n] : NodeSize + LinkSize * l <= r.size

PlaceInv ==
  /\ PlaceOK
  /\ \A n \in List.made \ {head} : place[n] # {}
  /\ \A n \in Nodes, l \in Levels : List.next[n][l] # Uninit => Fits(n, l)
  /\ pc \in {"link", "publish"} => \A l \in Levels : l < height => Fits(newKey, l)

LInv == ListInv /\ ArenaInv /\ PlaceInv

\* A node that was just allocated has room for all its links.
LEMMA AllocateNodePlaces ==
  ASSUME ArenaInv, PlaceOK, NEW n \in Nodes, NEW h \in 1..kMaxHeight, AllocateNode(n, h)
  PROVE  /\ PlaceOK' /\ place'[n] # {} /\ \A m \in Nodes \ {n} : place'[m] = place[m]
         /\ \A l \in Levels : l < h => Fits(n, l)'
<1>0. NodeBytes(h) \in Requests /\ LinkSize \in Nat /\ NodeSize \in Nat
  BY NodeAssumption
<1>1. PICK x \in regions' : /\ regions' = regions \union {x} /\ x \notin regions
                            /\ x.size = NodeBytes(h) /\ x.aligned = TRUE
  BY <1>0, NewRegion DEF AllocateNode
<1>2. place' = [place EXCEPT ![n] = {x}]
  BY <1>1 DEF AllocateNode
<1>3. place'[n] = {x} /\ \A m \in Nodes \ {n} : place'[m] = place[m]
  BY <1>2 DEF PlaceOK
<1>4. \A m \in Nodes : place[m] \subseteq regions
  BY DEF PlaceOK
<1>5. place' \in [Nodes -> SUBSET regions']
  BY <1>1, <1>2, <1>4 DEF PlaceOK
<1>6. ASSUME NEW a \in Nodes, NEW b \in Nodes, a # b PROVE place'[a] \cap place'[b] = {}
  BY <1>1, <1>3, <1>4, <1>6 DEF PlaceOK
<1>7. x.size \in Nat
  BY <1>0, <1>1, ArenaAssumption
<1>8. \A m \in Nodes : \A r \in place'[m] : r.aligned /\ r.size \in Nat
  BY <1>1, <1>3, <1>7 DEF PlaceOK
<1>9. ASSUME NEW l \in Levels, l < h PROVE NodeSize + LinkSize * l <= x.size
  <2>1. l \in Nat /\ h - 1 \in Nat /\ l <= h - 1
    BY <1>9, LevelFacts
  <2>2. LinkSize * l <= LinkSize * (h - 1)
    <3>1. PICK d \in Nat : h - 1 = l + d
      BY <2>1
    <3>2. LinkSize * (h - 1) = LinkSize * l + LinkSize * d
      BY <1>0, <2>1, <3>1
    <3>3. LinkSize * d \in Nat /\ LinkSize * l \in Nat
      BY <1>0, <2>1
    <3> QED BY <3>2, <3>3
  <2>3. LinkSize * l \in Nat /\ LinkSize * (h - 1) \in Nat
    BY <1>0, <2>1
  <2>4. x.size = NodeSize + LinkSize * (h - 1)
    BY <1>1 DEF NodeBytes
  <2> QED BY <1>0, <2>2, <2>3, <2>4
<1>10. \A l \in Levels : l < h => Fits(n, l)'
  BY <1>3, <1>9 DEF Fits
<1> QED BY <1>3, <1>5, <1>6, <1>8, <1>10 DEF PlaceOK

\* The list after a store is what was stored.
LEMMA StoredList == ASSUME MemoryOK, NEW w \in Memory, Store(w) PROVE List' = w
<1>1. mem \in Seq(Memory)
  BY DEF MemoryOK
<1> QED BY <1>1, StoreFacts DEF List

\* What a step of Insert does to the nodes and to which of their links are set:
\* only the first half of the linking loop's body sets a link that was not.
LEMMA InsertStepSets ==
  ASSUME ListInv, InsertStep
  PROVE  /\ pc # "idle" /\ newKey' = newKey
         /\ pc' \in {"link", "publish"} => pc \in {"new", "link", "publish"} /\ height' = height
         /\ List'.made = IF pc = "new" THEN List.made \union {newKey} ELSE List.made
         /\ \A n \in Nodes, l \in Levels :
              List'.next[n][l] # Uninit =>
                List.next[n][l] # Uninit \/ (pc = "link" /\ n = newKey /\ l = level)
<1>0. MemoryOK /\ WriterOK /\ List \in Memory
  BY ListFacts DEF ListInv
<1>1. CASE SearchStep(Writer)
  <2>1. pc = "search" /\ mem' = mem /\ newKey' = newKey /\ height' = height
    BY <1>0, <1>1 DEF SearchStep, WriterOK
  <2>2. List' = List
    BY <2>1 DEF List, Now
  <2>3. pc' \in {"search", "height"}
    BY <1>1, <2>1 DEF SearchStep
  <2> QED BY <2>1, <2>2, <2>3
<1>2. CASE InsertHeight
  <2>1. pc = "height" /\ pc' = "new" /\ newKey' = newKey
    BY <1>2 DEF InsertHeight
  <2>2. PICK h \in 1..kMaxHeight : ChooseHeight(h)
    BY <1>2 DEF InsertHeight
  <2>3. List'.made = List.made /\ List'.next = List.next
    <3>1. CASE UNCHANGED mem
      BY <3>1 DEF List, Now
    <3>2. CASE Store(WithHeight(List, h))
      <4>1. /\ WithHeight(List, h) \in Memory /\ WithHeight(List, h).made = List.made
            /\ WithHeight(List, h).next = List.next
        BY <1>0, HeightForm
      <4> QED BY <1>0, <3>2, <4>1, StoredList
    <3> QED BY <2>2, <3>1, <3>2 DEF ChooseHeight, WithHeight, List
  <2> QED BY <2>1, <2>3
<1>3. CASE NewNode
  <2>1. pc = "new" /\ pc' = "link" /\ newKey' = newKey /\ height' = height /\ newKey \in Keys
    BY <1>0, <1>3 DEF NewNode, WriterOK
  <2>2. Store(WithNode(List, newKey))
    BY <1>3 DEF NewNode, WithNode, List
  <2>3. /\ WithNode(List, newKey) \in Memory /\ WithNode(List, newKey).next = List.next
        /\ WithNode(List, newKey).made = List.made \union {newKey}
    BY <1>0, <2>1, NodeForm
  <2>4. List' = WithNode(List, newKey)
    BY <1>0, <2>2, <2>3, StoredList
  <2> QED BY <2>1, <2>3, <2>4
<1>4. ASSUME NEW n \in Nodes, NEW l \in Levels, NEW y \in Pointers, NEW b \in BOOLEAN,
             Store(WithLink(List, n, l, y, b))
      PROVE  /\ List'.made = List.made
             /\ \A p \in Nodes, i \in Levels :
                  List'.next[p][i] = IF p = n /\ i = l THEN y ELSE List.next[p][i]
  <2>1. WithLink(List, n, l, y, b) \in Memory
    BY <1>0, LinkForm
  <2>2. List' = WithLink(List, n, l, y, b)
    BY <1>0, <1>4, <2>1, StoredList
  <2>3. /\ WithLink(List, n, l, y, b).made = List.made
        /\ \A p \in Nodes, i \in Levels :
             WithLink(List, n, l, y, b).next[p][i] = IF p = n /\ i = l THEN y ELSE List.next[p][i]
    BY <1>0, LinkForm
  <2> QED BY <2>2, <2>3
<1>5. ASSUME pc \in {"link", "publish"}
      PROVE  /\ newKey \in Keys /\ level \in Levels /\ level \in Nat
             /\ prev[level] \in Linked(List, level) \union {head}
             /\ prev[level] \in Nodes /\ List.next[prev[level]][level] # Uninit
             /\ List.next[prev[level]][level] \in Pointers
  <2>1. InLinking /\ level \in Levels /\ level \in Nat
    BY <1>0, <1>5, LevelFacts DEF WriterOK, WriterTypes
  <2>2. PrevOK(level) /\ newKey \in Keys
    <3>1. level <= level
      BY <2>1
    <3> QED BY <2>1, <3>1 DEF InLinking
  <2>3. prev[level] \in Linked(List, level) \union {head}
    BY <2>2 DEF PrevOK
  <2>4. prev[level] \in Nodes
    BY <2>3, LevelFacts DEF Linked
  <2>5. List.next[prev[level]][level] # Uninit
    BY <2>2 DEF PrevOK
  <2>6. List.next[prev[level]][level] \in Pointers
    BY <1>0, <2>1, <2>4 DEF Memory
  <2> QED BY <2>1, <2>2, <2>3, <2>4, <2>5, <2>6
<1>6. CASE LinkNew
  <2>1. pc = "link" /\ newKey' = newKey /\ height' = height
    BY <1>6 DEF LinkNew
  <2>2. PICK y \in Pointers, b \in BOOLEAN :
          y = List.next[prev[level]][level] /\ b = FALSE /\ Store(WithLink(List, newKey, level, y, b))
    BY <1>5, <1>6, <2>1 DEF LinkNew, NoBarrier_SetNext, WithLink, List
  <2>3. newKey \in Nodes /\ level \in Levels
    BY <1>5, <2>1, LevelFacts
  <2> QED BY <1>4, <2>1, <2>2, <2>3
<1>7. CASE Publish
  <2>1. pc = "publish" /\ newKey' = newKey /\ height' = height
    BY <1>7 DEF Publish
  <2>2. PICK p \in Nodes, l \in Levels, y \in Pointers, b \in BOOLEAN :
          /\ p = prev[level] /\ l = level /\ y = newKey /\ b = TRUE
          /\ Store(WithLink(List, p, l, y, b)) 
    <3>1. newKey \in Pointers /\ prev[level] \in Nodes /\ level \in Levels /\ TRUE \in BOOLEAN
      BY <1>5, <2>1 DEF Pointers
    <3>2. Store(WithLink(List, prev[level], level, newKey, TRUE))
      BY <1>7 DEF Publish, SetNext, WithLink, List
    <3> QED BY <3>1, <3>2
  <2>3. List.next[p][l] # Uninit
    BY <1>5, <2>1, <2>2
  <2>4. /\ List'.made = List.made
        /\ \A n \in Nodes, i \in Levels : List'.next[n][i] = IF n = p /\ i = l THEN y ELSE List.next[n][i]
    <3>1. Store(WithLink(List, p, l, y, b))
      BY <2>2
    <3> QED BY <1>4, <3>1
  <2> QED BY <2>1, <2>3, <2>4
<1> QED BY <1>1, <1>2, <1>3, <1>6, <1>7 DEF InsertStep

\* A step of the list in its arena is a step of the list and a step of the arena.
LEMMA StepOfBoth ==
  ASSUME ListInv, [LNext]_allVars
  PROVE  [Next]_vars /\ [ArenaNext]_arenaVars
<1>0. /\ \A h \in 1..kMaxHeight : NodeBytes(h) \in Requests
      /\ height \in 1..kMaxHeight /\ kMaxHeight \in 1..kMaxHeight
  BY NodeAssumption DEF ListInv, WriterOK, WriterTypes
<1>1. CASE Construct
  BY <1>0, <1>1 DEF Construct, AllocateNode, ArenaNext
<1>2. ASSUME NEW k \in Keys, Add(k) PROVE [Next]_vars /\ [ArenaNext]_arenaVars
  <2>1. PICK bytes \in EntrySizes : Allocate(bytes)
    BY <1>2 DEF Add
  <2>2. bytes \in Requests
    BY NodeAssumption
  <2> QED BY <1>2, <2>1, <2>2 DEF Add, Next, ArenaNext
<1>3. CASE LInsertStep
  <2>1. CASE InsertStep /\ Elsewhere
    BY <2>1 DEF Next, Elsewhere
  <2>2. CASE LNewNode
    BY <1>0, <2>2 DEF LNewNode, AllocateNode, Next, InsertStep, ArenaNext
  <2> QED BY <1>3, <2>1, <2>2 DEF LInsertStep
<1>4. ASSUME NEW r \in Readers, (ReaderCall(r) \/ SearchStep(r)) /\ Elsewhere
      PROVE  [Next]_vars /\ [ArenaNext]_arenaVars
  BY <1>4 DEF Next, Elsewhere
<1>5. CASE UNCHANGED allVars
  BY <1>5 DEF allVars
<1> QED BY <1>1, <1>2, <1>3, <1>4, <1>5 DEF LNext

\* A step that allocates no node and sets no link.
LEMMA PlacesKept ==
  ASSUME PlaceInv, UNCHANGED place, regions \subseteq regions', List' = List,
         pc' \in {"link", "publish"} => UNCHANGED <<pc, newKey, height>>
  PROVE  PlaceInv'
<1>1. PlaceOK'
  BY DEF PlaceInv, PlaceOK
<1>2. \A n \in Nodes, l \in Levels : Fits(n, l) => Fits(n, l)'
  BY DEF Fits
<1>3. ASSUME pc' \in {"link", "publish"}, NEW l \in Levels, l < height' PROVE Fits(newKey, l)'
  <2>1. Fits(newKey, l) /\ newKey' = newKey
    BY <1>3 DEF PlaceInv
  <2> QED BY <2>1 DEF Fits
<1>4. \A n \in Nodes, l \in Levels : List'.next[n][l] # Uninit => Fits(n, l)'
  BY <1>2 DEF PlaceInv
<1>5. \A n \in List'.made \ {head} : place'[n] # {}
  BY DEF PlaceInv
<1> QED BY <1>1, <1>3, <1>4, <1>5 DEF PlaceInv

\* The constructor's head_.
LEMMA ConstructPlaces == ASSUME LInv, Construct PROVE PlaceInv'
<1>0. /\ AllocateNode(head, kMaxHeight) /\ UNCHANGED <<pc, newKey, height>> /\ mem' = mem
      /\ PlaceOK /\ ArenaInv /\ ListInv /\ head \in Nodes /\ kMaxHeight \in 1..kMaxHeight
  BY LevelFacts DEF Construct, LInv, PlaceInv, vars
<1>1. /\ PlaceOK' /\ place'[head] # {} /\ \A n \in Nodes \ {head} : place'[n] = place[n]
      /\ \A l \in Levels : l < kMaxHeight => Fits(head, l)'
  BY <1>0, AllocateNodePlaces
<1>2. List' = List /\ List.made \subseteq Nodes
  BY <1>0, ListFacts DEF List, Now, ListInv
<1>3. \A n \in Nodes, l \in Levels : (n = head \/ Fits(n, l)) => Fits(n, l)'
  <2>1. \A l \in Levels : l < kMaxHeight
    BY DEF Levels
  <2> QED BY <1>1, <2>1 DEF Fits
<1>4. \A n \in List'.made \ {head} : place'[n] # {}
  BY <1>1, <1>2 DEF LInv, PlaceInv
<1>5. \A n \in Nodes, l \in Levels : List'.next[n][l] # Uninit => Fits(n, l)'
  BY <1>2, <1>3 DEF LInv, PlaceInv
<1>6. ASSUME pc' \in {"link", "publish"}, NEW l \in Levels, l < height' PROVE Fits(newKey, l)'
  <2>1. PICK k \in Nodes : k = newKey /\ Fits(k, l)
    BY <1>0, <1>6 DEF LInv, PlaceInv, ListInv, WriterOK, WriterTypes
  <2>2. Fits(k, l)' /\ newKey' = k
    BY <1>0, <1>3, <2>1
  <2> QED BY <2>2 DEF Fits
<1> QED BY <1>1, <1>4, <1>5, <1>6 DEF PlaceInv

\* NewNode's region.
LEMMA NewNodePlaces == ASSUME LInv, LNewNode PROVE PlaceInv'
<1>0. PICK k \in Keys, h \in 1..kMaxHeight :
        /\ k = newKey /\ h = height /\ AllocateNode(k, h)
        /\ k \notin List.made /\ k \in Nodes
        /\ UNCHANGED <<newKey, height>> /\ Unused /\ pc = "new"
  BY LevelFacts DEF LInv, LNewNode, NewNode, ListInv, WriterOK, WriterTypes
<1>1. /\ PlaceOK' /\ place'[k] # {} /\ \A n \in Nodes \ {k} : place'[n] = place[n]
      /\ \A l \in Levels : l < h => Fits(k, l)'
  BY <1>0, AllocateNodePlaces DEF LInv, PlaceInv
<1>2. /\ List'.made = List.made \union {k}
      /\ \A n \in Nodes, l \in Levels : List'.next[n][l] # Uninit => List.next[n][l] # Uninit
  BY <1>0, InsertStepSets DEF LInv, LNewNode, InsertStep
<1>3. List.made \subseteq Nodes
  BY ListFacts DEF LInv, ListInv
<1>4. \A n \in List'.made \ {head} : place'[n] # {}
  BY <1>1, <1>2, <1>3 DEF LInv, PlaceInv
<1>5. ASSUME NEW n \in Nodes, NEW l \in Levels, List'.next[n][l] # Uninit PROVE Fits(n, l)'
  <2>1. List.next[n][l] # Uninit
    BY <1>2, <1>5
  <2>2. n # k
    BY <1>0, <2>1 DEF Unused
  <2>3. place'[n] = place[n] /\ Fits(n, l)
    BY <1>1, <2>1, <2>2 DEF LInv, PlaceInv
  <2> QED BY <2>3 DEF Fits
<1>6. \A l \in Levels : l < height' => Fits(newKey, l)'
  <2>1. newKey' = k /\ height' = h
    BY <1>0
  <2> QED BY <1>1, <2>1 DEF Fits
<1> QED BY <1>1, <1>4, <1>5, <1>6 DEF PlaceInv

\* The other steps of Insert: a link is only set below the height.
LEMMA InsertStepPlaces == ASSUME LInv, pc # "new", InsertStep, Elsewhere PROVE PlaceInv'
<1>0. UNCHANGED <<regions, place>> /\ PlaceInv /\ ListInv
  BY DEF Elsewhere, arenaVars, LInv
<1>1. /\ newKey' = newKey
      /\ pc' \in {"link", "publish"} => pc \in {"link", "publish"} /\ height' = height
      /\ List'.made = List.made
      /\ \A n \in Nodes, l \in Levels :
           List'.next[n][l] # Uninit =>
             List.next[n][l] # Uninit \/ (pc = "link" /\ n = newKey /\ l = level)
  BY <1>0, InsertStepSets
<1>2. PlaceOK'
  BY <1>0 DEF PlaceInv, PlaceOK
<1>3. \A n \in Nodes, l \in Levels : Fits(n, l)' <=> Fits(n, l)
  BY <1>0 DEF Fits
<1>4. ASSUME NEW n \in Nodes, NEW l \in Levels, List'.next[n][l] # Uninit PROVE Fits(n, l)
  <2>1. CASE List.next[n][l] # Uninit
    BY <1>0, <2>1 DEF PlaceInv
  <2>2. CASE pc = "link" /\ n = newKey /\ l = level
    <3>1. level < height
      BY <1>0, <2>2 DEF ListInv, WriterOK, InLinking
    <3> QED BY <1>0, <2>2, <3>1 DEF PlaceInv
  <2> QED BY <1>1, <1>4, <2>1, <2>2
<1>5. ASSUME pc' \in {"link", "publish"}, NEW l \in Levels, l < height' PROVE Fits(newKey, l)'
  <2>1. Fits(newKey, l) /\ newKey' = newKey
    BY <1>0, <1>1, <1>5 DEF PlaceInv
  <2> QED BY <1>0, <2>1 DEF Fits
<1>6. \A n \in List'.made \ {head} : place'[n] # {}
  BY <1>0, <1>1 DEF PlaceInv
<1> QED BY <1>2, <1>3, <1>4, <1>5, <1>6 DEF PlaceInv

\* The memtable's invariant holds at the start and is kept by every step.
LEMMA PlacesInductive == LInv /\ [LNext]_allVars => LInv'
<1> SUFFICES ASSUME LInv, [LNext]_allVars PROVE LInv'
  OBVIOUS
<1>0. ListInv /\ ArenaInv /\ PlaceInv
  BY DEF LInv
<1>1. ListInv' /\ ArenaInv'
  BY <1>0, StepOfBoth, ListInductive, ArenaInductive
<1> SUFFICES PlaceInv'
  BY <1>1 DEF LInv
<1>2. CASE Construct
  BY <1>2, ConstructPlaces
<1>3. ASSUME NEW k \in Keys, Add(k) PROVE PlaceInv'
  <2>1. place' = place /\ mem' = mem /\ pc' = "search"
    BY <1>3 DEF Add, BeginInsert
  <2>2. regions \subseteq regions'
    BY <1>3 DEF Add, Allocate, AllocateAfter, AllocateFallback, Give
  <2>3. List' = List
    BY <2>1 DEF List, Now
  <2> QED BY <1>0, <2>1, <2>2, <2>3, PlacesKept
<1>4. CASE LInsertStep
  BY <1>4, InsertStepPlaces, NewNodePlaces DEF LInsertStep
<1>5. ASSUME NEW r \in Readers, (ReaderCall(r) \/ SearchStep(r)) /\ Elsewhere PROVE PlaceInv'
  <2>1. mem' = mem /\ UNCHANGED <<pc, newKey, height>>
    <3>1. r # Writer
      OBVIOUS
    <3>2. CASE ReaderCall(r)
      BY <3>2 DEF ReaderCall, Seek, Prev, SeekToLast, SeekToFirst, IterNext, Follow, Synchronize, writerVars
    <3>3. CASE SearchStep(r)
      BY <3>1, <3>3 DEF SearchStep
    <3> QED BY <1>5, <3>2, <3>3
  <2>2. List' = List /\ place' = place /\ regions' = regions
    BY <1>5, <2>1 DEF List, Now, Elsewhere, arenaVars
  <2> QED BY <1>0, <2>1, <2>2, PlacesKept
<1>6. CASE UNCHANGED allVars
  <2>1. mem' = mem /\ UNCHANGED <<pc, newKey, height>> /\ place' = place /\ regions' = regions
    BY <1>6 DEF allVars, vars, arenaVars
  <2>2. List' = List
    BY <2>1 DEF List, Now
  <2> QED BY <1>0, <2>1, <2>2, PlacesKept
<1> QED BY <1>2, <1>3, <1>4, <1>5, <1>6 DEF LNext

\* Before the constructor no node has a place.
LEMMA PlacesInitially == LInit => LInv
<1> SUFFICES ASSUME LInit PROVE LInv
  OBVIOUS
<1>1. ListInv /\ ArenaInv
  BY ListInitially, ArenaInitially DEF LInit
<1>2. place = [n \in Nodes |-> {}] /\ pc = "idle"
  BY DEF LInit, Init
<1>3. List.made = {head}
  BY DEF LInit, Init, List, Now
<1>4. PlaceOK /\ \A n \in Nodes, l \in Levels : Fits(n, l)
  BY <1>2 DEF PlaceOK, Fits
<1> QED BY <1>1, <1>2, <1>3, <1>4 DEF LInv, PlaceInv

\* The invariant of the list in its arena holds always.
LEMMA PlacesInvariance == LSpec => []LInv
BY PlacesInitially, PlacesInductive, PTL DEF LSpec

\* The list in its arena is the list.
LEMMA MemTableIsList == LSpec => Init /\ [][Next]_vars
<1>1. LInit => Init
  BY DEF LInit
<1>2. LInv /\ [LNext]_allVars => [Next]_vars
  BY StepOfBoth DEF LInv
<1> QED BY <1>1, <1>2, PlacesInvariance, PTL DEF LSpec

-----------------------------------------------------------------------------
\* After every single store of Insert each level is a sorted list from head_ that leaves
\* out no linked node and is part of the level below, for any keys, heights and readers,
\* on its own and in the arena of a memtable.
THEOREM ListStaysSorted == Spec \/ LSpec => []LevelsSorted
BY ListInvariance, MemTableIsList, SortedFollows, PTL DEF Spec

\* No reader ever loads a link or a key that was not stored, with no lock and only the
\* release of SetNext and the acquire of Next: max_height_ may be stale, nodes may be new.
THEOREM ReadersSeeCompleteNodes == Spec \/ LSpec => []NoUninitializedRead
BY ListInvariance, MemTableIsList, ReadsInitialized, PTL DEF Spec

\* Seek, Prev, SeekToLast, Next and SeekToFirst return what one state of the list holds,
\* one that is not older than what the reader was bound to see, however many inserts
\* happen between the loads of one search.
THEOREM ReadersGetExactAnswers == Spec \/ LSpec => ReadsExact
BY ExactReads, MemTableIsList, PTL DEF Spec

\* Every link Insert stored lies in an aligned region of its own node, for all heights,
\* node sizes, block sizes and sizes of the entries allocated in between.
THEOREM LinksStayInside == LSpec => []LinksInsideNode
<1>1. LInv => LinksInsideNode
  <2> SUFFICES ASSUME LInv, NEW n \in List.made, place[head] # {}
               PROVE  \E r \in place[n] :
                        /\ r.start % Align = 0
                        /\ \A l \in Levels : List.next[n][l] # Uninit =>
                             NodeSize + LinkSize * l <= r.size
                        /\ \A m \in Nodes \ {n} : r \notin place[m]
    BY DEF LinksInsideNode, List
  <2>1. n \in Nodes /\ place[n] # {}
    BY ListFacts DEF LInv, ListInv, PlaceInv
  <2>2. PICK r \in place[n] : TRUE
    BY <2>1
  <2>3. r \in regions /\ r.aligned
    BY <2>1 DEF LInv, PlaceInv, PlaceOK
  <2>4. r.start % Align = 0
    BY <2>3 DEF LInv, ArenaInv, AlignedRegions
  <2>5. \A m \in Nodes \ {n} : r \notin place[m]
    BY <2>1 DEF LInv, PlaceInv, PlaceOK
  <2>6. \A l \in Levels : List.next[n][l] # Uninit => NodeSize + LinkSize * l <= r.size
    BY <2>1 DEF LInv, PlaceInv, Fits
  <2> QED BY <2>4, <2>5, <2>6
<1> QED BY <1>1, PlacesInvariance, PTL

\* No node or entry of the memtable shares a byte with another.
THEOREM MemTableRegionsDisjoint == LSpec => []RegionsDisjoint
<1>1. LInv => RegionsDisjoint
  BY DEF LInv, ArenaInv
<1> QED BY <1>1, PlacesInvariance, PTL

=============================================================================
