------------------------------ MODULE SkipList ------------------------------
(***************************************************************************)
(* The concurrent skip list of memtable/skiplist.h: one writer at a time,  *)
(* any number of readers that take no lock.                                *)
(*                                                                         *)
(* Memory.  Only the writer stores, so its stores are totally ordered:     *)
(* mem[t] is the list after t - 1 stores, with the location the last store *)
(* wrote and whether it was a release store.  A reader has a view: the     *)
(* stores it is bound to see.  A load may return the value of its view or  *)
(* that of any later store to the same location; a load that acquires from *)
(* a release store moves the view up to that store.  The loads of          *)
(* max_height_ are relaxed and move nothing.                               *)
(*                                                                         *)
(* A node is named by its key.  The writer's own loads see the last store. *)
(***************************************************************************)
EXTENDS Naturals, Sequences

CONSTANTS Keys,        \* keys that may be inserted
          kMaxHeight,
          Readers,
          Writer,
          Null,        \* nullptr
          Uninit       \* content of next_[] of a node before its first store

head == 0              \* head_ sorts before every key

ASSUME KeysAssumption == Keys \subseteq Nat \ {0}
ASSUME HeightAssumption == kMaxHeight \in Nat \ {0}
ASSUME ActorAssumption == Writer \notin Readers
ASSUME PointerAssumption == Null \notin Nat /\ Uninit \notin Nat /\ Null # Uninit

Levels == 0..(kMaxHeight - 1)
Nodes == Keys \union {head}
Actors == Readers \union {Writer}

VARIABLES
  mem,     \* history of the shared memory
  view,    \* per reader: index in mem it is bound to see
  search,  \* per actor: locals of FindGreaterOrEqual, FindLessThan, FindLast
  node,    \* per reader: node_ of its iterator
  pc, newKey, height, level, prev   \* locals of Insert

vars == <<mem, view, search, node, pc, newKey, height, level, prev>>
writerVars == <<pc, newKey, height, level, prev>>

Now == Len(mem)
View(a) == IF a = Writer THEN Now ELSE view[a]

-----------------------------------------------------------------------------
NoSearch == [op |-> "none", x |-> head, level |-> 0, target |-> head]

\* The constructor: next_[] of head_ is null on every level.
Init ==
  /\ mem = << [next |-> [n \in Nodes |-> [l \in Levels |-> IF n = head THEN Null ELSE Uninit]],
               max_height |-> 1, made |-> {head}, loc |-> <<head, 0>>, release |-> TRUE] >>
  /\ view = [r \in Readers |-> 1]
  /\ search = [a \in Actors |-> NoSearch]
  /\ node = [r \in Readers |-> Null]
  /\ pc = "idle"
  /\ newKey = head
  /\ height = 1
  /\ level = 0
  /\ prev = [l \in Levels |-> Uninit]

\* The stores of the writer.
Store(m) == mem' = Append(mem, m)

SetNextRelaxed(n, l, y) ==
  Store([mem[Now] EXCEPT !.next[n][l] = y, !.loc = <<n, l>>, !.release = FALSE])

SetNext(n, l, y) ==
  Store([mem[Now] EXCEPT !.next[n][l] = y, !.loc = <<n, l>>, !.release = TRUE])

NoBarrier_SetNext(n, l, y) ==
  Store([mem[Now] EXCEPT !.next[n][l] = y, !.loc = <<n, l>>, !.release = FALSE])

\* Where a load of next_[l] of n by actor a may read from.
Visible(a, n, l) ==
  {View(a)} \union {t \in (View(a) + 1)..Now : mem[t].loc = <<n, l>>}

\* The view of actor a after an acquire load that read from mem[s].
Acquire(a, s) ==
  IF a # Writer /\ mem[s].release THEN [view EXCEPT ![a] = s] ELSE view

\* GetMaxHeight(), a relaxed load.
MaxHeights(a) == {mem[t].max_height : t \in View(a)..Now}

-----------------------------------------------------------------------------
\* The three searches start at head_ on the highest level and stop a level at
\* the first node that is not before the target (FindLast: at the end).
BeginSearch(a, op, k) ==
  \E h \in MaxHeights(a) :
    search' = [search EXCEPT ![a] = [op |-> op, x |-> head, level |-> h - 1, target |-> k]]

StopsPastEqual(q, n) ==
  IF q.op = "last" THEN n = Null ELSE n = Null \/ n > q.target

\* KeyIsAfterNode is false (ge); next is null or not before key (lt); null (last)
StopsAt(q, n) ==
  IF q.op = "last" THEN n = Null ELSE n = Null \/ n >= q.target

\* FindGreaterOrEqual returns next; the other two return x.
Result(q, n) == IF q.op = "ge" THEN n ELSE q.x

StaysOnLevel(q) == q

\* level--
Descend(q) == [q EXCEPT !.level = @ - 1]

\* One load of x->Next(level) and the branch on it.  Writer and readers differ
\* in what they do with the result.
SearchStep(a) ==
  LET q == search[a] IN
  /\ q.op # "none"
  /\ \E s \in Visible(a, q.x, q.level) :
       LET n == mem[s].next[q.x][q.level] IN
       /\ n # Uninit
       /\ view' = Acquire(a, s)
       /\ IF ~StopsAt(q, n)
          THEN /\ search' = [search EXCEPT ![a].x = n]
               /\ UNCHANGED <<node, prev, pc>>
          ELSE /\ prev' = IF a = Writer THEN [prev EXCEPT ![q.level] = q.x] ELSE prev
               /\ IF q.level > 0
                  THEN /\ search' = [search EXCEPT ![a] = Descend(q)]
                       /\ UNCHANGED <<node, pc>>
                  ELSE /\ search' = [search EXCEPT ![a] = NoSearch]
                       /\ IF a = Writer
                          THEN pc' = "height" /\ UNCHANGED node
                          ELSE /\ node' = [node EXCEPT ![a] =
                                             IF Result(q, n) = head THEN Null ELSE Result(q, n)]
                               /\ UNCHANGED pc
  /\ UNCHANGED <<mem, newKey, height, level>>

-----------------------------------------------------------------------------
\* Insert, for a key that is not in the list (REQUIRES of Insert).
BeginInsert(k) ==
  /\ pc = "idle"
  /\ k \notin mem[Now].made
  /\ BeginSearch(Writer, "ge", k)
  /\ newKey' = k
  /\ prev' = [l \in Levels |-> Uninit]
  /\ pc' = "search"
  /\ UNCHANGED <<mem, view, node, height, level>>

\* RandomHeight, and the levels the list did not have yet: prev is head_ there,
\* and max_height_ is stored without synchronization.
ChooseHeight(h) ==
  /\ height' = h
  /\ prev' = [l \in Levels |-> IF l \in mem[Now].max_height..(h - 1) THEN head ELSE prev[l]]
  /\ IF h > mem[Now].max_height
     THEN Store([mem[Now] EXCEPT !.max_height = h, !.loc = <<Null, 0>>, !.release = FALSE])
     ELSE UNCHANGED mem

InsertHeight ==
  /\ pc = "height"
  /\ \E h \in 1..kMaxHeight : ChooseHeight(h)
  /\ pc' = "new"
  /\ UNCHANGED <<view, search, node, newKey, level>>

\* NewNode: the constructor stores key; next_[] is raw arena memory.
NewNode ==
  /\ pc = "new"
  /\ Store([mem[Now] EXCEPT !.made = @ \union {newKey}, !.loc = <<Null, 0>>, !.release = FALSE])
  /\ level' = 0
  /\ pc' = "link"
  /\ UNCHANGED <<view, search, node, newKey, height, prev>>

LinkNewToLevelZero ==
  /\ pc = "link"
  /\ NoBarrier_SetNext(newKey, level, mem[Now].next[prev[level]][0])
  /\ pc' = "publish"
  /\ UNCHANGED <<view, search, node, newKey, height, level, prev>>

\* Body of the linking loop, first half: x->NoBarrier_SetNext(i, ...)
LinkNew ==
  /\ pc = "link"
  /\ NoBarrier_SetNext(newKey, level, mem[Now].next[prev[level]][level])
  /\ pc' = "publish"
  /\ UNCHANGED <<view, search, node, newKey, height, level, prev>>

\* Second half: prev[i]->SetNext(i, x), and the loop test.
Publish ==
  /\ pc = "publish"
  /\ SetNext(prev[level], level, newKey)
  /\ IF level + 1 < height
     THEN level' = level + 1 /\ pc' = "link"
     ELSE level' = 0 /\ pc' = "idle"
  /\ UNCHANGED <<view, search, node, newKey, height, prev>>

-----------------------------------------------------------------------------
\* Iterator operations and Contains, by a reader.  Contains(k) and Seek(k) are
\* the same search; Contains then compares the result with k.
Seek(r, k) ==
  /\ search[r].op = "none"
  /\ BeginSearch(r, "ge", k)
  /\ UNCHANGED <<mem, view, node, writerVars>>

Prev(r) ==
  /\ search[r].op = "none"
  /\ node[r] # Null
  /\ BeginSearch(r, "lt", node[r])
  /\ UNCHANGED <<mem, view, node, writerVars>>

SeekToLast(r) ==
  /\ search[r].op = "none"
  /\ BeginSearch(r, "last", head)
  /\ UNCHANGED <<mem, view, node, writerVars>>

\* node_ = n->Next(0)
Follow(r, n) ==
  /\ search[r].op = "none"
  /\ \E s \in Visible(r, n, 0) :
       /\ mem[s].next[n][0] # Uninit
       /\ view' = Acquire(r, s)
       /\ node' = [node EXCEPT ![r] = mem[s].next[n][0]]
  /\ UNCHANGED <<mem, search, writerVars>>

SeekToFirst(r) == Follow(r, head)

IterNext(r) == node[r] # Null /\ Follow(r, node[r])

\* The client of the list orders a reader after everything written so far, for
\* instance by taking the lock the writer held.
Synchronize(r) ==
  /\ view' = [view EXCEPT ![r] = Now]
  /\ UNCHANGED <<mem, search, node, writerVars>>

InsertStep == SearchStep(Writer) \/ InsertHeight \/ NewNode \/ LinkNew \/ Publish

ReaderCall(r) ==
  \/ \E k \in Keys : Seek(r, k)
  \/ Prev(r)
  \/ SeekToLast(r)
  \/ SeekToFirst(r)
  \/ IterNext(r)
  \/ Synchronize(r)

Next ==
  \/ \E k \in Keys : BeginInsert(k)
  \/ InsertStep
  \/ \E r \in Readers : ReaderCall(r) \/ SearchStep(r)

\* A thread inside Insert or inside a search keeps running.
Fairness == WF_vars(InsertStep) /\ \A r \in Readers : WF_vars(SearchStep(r))

Spec == Init /\ [][Next]_vars /\ Fairness

-----------------------------------------------------------------------------
\* Nodes some link of level l points to.
Linked(m, l) == {y \in Keys : \E n \in Nodes : m.next[n][l] = y}

\* y is what follows n among the keys K.
Follows(K, n, y) ==
  IF y = Null THEN \A k \in K : k <= n
  ELSE y \in K /\ n < y /\ \A k \in K : k <= n \/ y <= k

\* After every single store, each level is a sorted list that starts at head_
\* and leaves out no node linked on it, and a level only holds nodes of the
\* level below: what a reader finds on the way down is on the way down.
LevelsSorted ==
  \A t \in 1..Now : \A l \in Levels :
    /\ \A n \in Linked(mem[t], l) \union {head} :
          Follows(Linked(mem[t], l), n, mem[t].next[n][l])
    /\ l > 0 => Linked(mem[t], l) \subseteq Linked(mem[t], l - 1)

\* A reader never loads a link that was not stored yet, nor follows a pointer
\* to a node whose key it might see uninitialized: the release store of SetNext
\* and the order of the linking loop publish a node only when it is complete.
NoUninitializedRead ==
  \A r \in Readers :
    /\ search[r].op # "none" =>
         \A s \in Visible(r, search[r].x, search[r].level) :
           LET n == mem[s].next[search[r].x][search[r].level] IN
           /\ n # Uninit
           /\ n # Null => n \in mem[Acquire(r, s)[r]].made
    /\ node[r] # Null => /\ node[r] \in mem[view[r]].made
                         /\ \A s \in Visible(r, node[r], 0) : mem[s].next[node[r]][0] # Uninit

\* k is the answer of search q in the list m.
Answers(m, q, k) ==
  CASE q.op = "ge" -> /\ k # Null => k \in Linked(m, 0) /\ k >= q.target
                      /\ \A j \in Linked(m, 0) : j >= q.target => k # Null /\ k <= j
    [] q.op = "lt" -> /\ k # Null => k \in Linked(m, 0) /\ k < q.target
                      /\ \A j \in Linked(m, 0) : j < q.target => k # Null /\ j <= k
    [] q.op = "last" -> /\ k # Null => k \in Linked(m, 0)
                        /\ \A j \in Linked(m, 0) : k # Null /\ j <= k

\* What a reader gets is exact for one state of the list that is not older than
\* what it was bound to see, although the list changes between its loads and a
\* search may start at a stale max_height_: a finished search returns the answer,
\* Next() the key that follows the current one, SeekToFirst the first one.  So no
\* key inserted before the call is missed, and iteration skips no key and never
\* moves backwards.
ReadsExact ==
  [][ \A r \in Readers :
        /\ search[r].op # "none" /\ search'[r].op = "none" =>
             \E t \in view[r]..Now : Answers(mem[t], search[r], node'[r])
        /\ IterNext(r) =>
             \E t \in view[r]..Now : Follows(Linked(mem[t], 0), node[r], node'[r])
        /\ SeekToFirst(r) =>
             \E t \in view[r]..Now : Follows(Linked(mem[t], 0), head, node'[r]) ]_vars

\* The loops of FindGreaterOrEqual, FindLessThan and FindLast end, although the
\* writer keeps linking nodes in front of the reader: a reader that keeps
\* running comes back from every search.
SearchesReturn ==
  \A r \in Readers : search[r].op # "none" ~> search[r].op = "none"
=============================================================================
