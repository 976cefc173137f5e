----------------------------- MODULE LRUPolicy ------------------------------
(***************************************************************************)
(* What the methods of one cache shard do to its contents, without memory, *)
(* reference counts and lists.  A shard s is a record:                     *)
(*   order   the keys nobody uses, each once, least recently used first    *)
(*   using   the keys some client holds a handle of                        *)
(*   charge  the charge of each key that is cached                         *)
(***************************************************************************)
EXTENDS Integers, Sequences, SequencesExt, FiniteSets, FiniteSetsExt

EmptyShard(K) == [order |-> << >>, using |-> {}, charge |-> [k \in K |-> 0]]

CachedKeys(s) == ToSet(s.order) \union s.using
Usage(s) == MapThenSumSet(LAMBDA k : s.charge[k], CachedKeys(s))

\* The key is in use: found, or new.
Used(s, k) ==
  [order |-> RemoveFirst(s.order, k), using |-> s.using \union {k}, charge |-> s.charge]
Added(s, k, c) ==
  [order |-> RemoveFirst(s.order, k), using |-> s.using \union {k},
   charge |-> [s.charge EXCEPT ![k] = c]]

\* The last handle was released: the key is the most recently used one.
Unused(s, k) ==
  [order |-> Append(s.order, k), using |-> s.using \ {k}, charge |-> s.charge]

Without(s, k) ==
  [order |-> RemoveFirst(s.order, k), using |-> s.using \ {k},
   charge |-> [s.charge EXCEPT ![k] = 0]]

WithoutOldest(s) == Without(s, Head(s.order))

\* Insert's loop goes on.
MustEvict(s, capacity) == Usage(s) > capacity /\ s.order # << >>

\* The shard after Insert's loop: as few of the oldest keys as possible are gone.
Shrunk(s, capacity) ==
  LET After[n \in 0..Len(s.order)] == IF n = 0 THEN s ELSE WithoutOldest(After[n - 1])
  IN After[Min({n \in 0..Len(s.order) : ~MustEvict(After[n], capacity)})]

Pruned(s) == [s EXCEPT !.order = << >>,
                       !.charge = [k \in DOMAIN @ |-> IF k \in s.using THEN @[k] ELSE 0]]

=============================================================================
