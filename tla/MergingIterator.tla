-------------------------- MODULE MergingIterator ---------------------------
(***************************************************************************)
(* MergingIterator of table/merger.cpp over the IteratorWrappers of its    *)
(* children.  A child is an iterator over a sorted run of distinct keys,   *)
(* as the tables and memtables that feed it are; several children may hold *)
(* the same key.  pos[i] is the key the wrapper caches, or Bad when the    *)
(* child is not Valid().  A child whose file cannot be read becomes        *)
(* invalid and keeps a non-OK status.                                      *)
(*                                                                         *)
(* An iterator belongs to one thread, so each method is one action.        *)
(***************************************************************************)
EXTENDS Integers, FiniteSets, FiniteSetsExt

CONSTANTS N,          \* n_, the number of children (at least 2: NewMergingIterator)
          Keys,       \* keys, ordered as comparator_ orders them
          MaxErrors,  \* bound: children that fail
          Bad, NoChild

ASSUME MergerAssumption ==
  /\ N \in Nat /\ N >= 2
  /\ Keys \subseteq Int /\ IsFiniteSet(Keys)
  /\ MaxErrors \in Nat
  /\ Bad \notin Int /\ NoChild \notin Int

VARIABLES run,       \* the keys of each child
          pos,       \* children_[i]: cached key_, or Bad when not valid_
          failed,    \* children with a non-OK status
          current,   \* current_
          direction  \* direction_

vars == <<run, pos, failed, current, direction>>

Children == 1..N

Init ==
  /\ run \in [Children -> SUBSET Keys]
  /\ pos = [i \in Children |-> Bad]
  /\ failed = {}
  /\ current = NoChild
  /\ direction = "forward"

-----------------------------------------------------------------------------
Least(S) == IF S = {} THEN Bad ELSE Min(S)
Greatest(S) == IF S = {} THEN Bad ELSE Max(S)

\* A child's methods, as the wrapper calls them.
ChildSeek(i, k) == Least({x \in run[i] : x >= k})
ChildFirst(i) == Least(run[i])
ChildLast(i) == Greatest(run[i])
ChildNext(i, k) == Least({x \in run[i] : x > k})
ChildPrev(i, k) == Greatest({x \in run[i] : x < k})

\* The first child in array order among those with the smallest key.
FindSmallest(p) ==
  LET V == {i \in Children : p[i] # Bad}
  IN IF V = {} THEN NoChild
     ELSE CHOOSE i \in V : \A j \in V : p[i] < p[j] \/ (p[i] = p[j] /\ i <= j)

\* The last child in array order among those with the largest key.
FindLargest(p) ==
  LET V == {i \in Children : p[i] # Bad}
  IN IF V = {} THEN NoChild
     ELSE CHOOSE i \in V : \A j \in V : p[i] > p[j] \/ (p[i] = p[j] /\ i >= j)

Valid == current # NoChild
key == IF Valid THEN pos[current] ELSE Bad

\* status(): the first child status that is not OK.
Status == IF \E i \in Children : i \in failed THEN "error" ELSE "ok"

\* The children are moved to p, except those in F, whose move failed; then
\* FindSmallest or FindLargest runs.
Reposition(p, F, dir) ==
  /\ F \subseteq Children /\ Cardinality(failed \union F) <= MaxErrors
  /\ failed' = failed \union F
  /\ pos' = [i \in Children |-> IF i \in F THEN Bad ELSE p[i]]
  /\ direction' = dir
  /\ current' = IF dir = "forward" THEN FindSmallest(pos') ELSE FindLargest(pos')
  /\ UNCHANGED run

-----------------------------------------------------------------------------
SeekToFirst(F) == Reposition([i \in Children |-> ChildFirst(i)], F, "forward")

SeekToLast(F) == Reposition([i \in Children |-> ChildLast(i)], F, "reverse")

Seek(k, F) == Reposition([i \in Children |-> ChildSeek(i, k)], F, "forward")

\* Next: when the iterator was moving backwards, the other children are first
\* put after key(), past an entry equal to it; a child that is not touched
\* cannot fail.
Next(F) ==
  /\ Valid
  /\ IF direction = "forward"
     THEN /\ F \subseteq {current}
          /\ Reposition([pos EXCEPT ![current] = ChildNext(current, key)], F, "forward")
     ELSE Reposition([i \in Children |->
                        IF i # current /\ ChildSeek(i, key) # key
                        THEN ChildSeek(i, key)
                        ELSE ChildNext(i, key)], F, "forward")

PrevSeeksOnly(F, G) ==
  /\ Valid
  /\ F \subseteq Children /\ G = {}
  /\ IF direction = "reverse"
     THEN /\ F \subseteq {current}
          /\ Reposition([pos EXCEPT ![current] = ChildPrev(current, key)], F, "reverse")
     ELSE Reposition([i \in Children |->
                        IF i # current /\ ChildSeek(i, key) # Bad
                        THEN ChildPrev(i, key)
                        ELSE IF i = current THEN ChildPrev(i, key) ELSE Bad], F, "reverse")

\* Prev: when the iterator was moving forwards, the other children are first put
\* before key().  A child that is not Valid() after Seek is sent to its last
\* entry, also when (the children in G) Seek failed and not the child's end was
\* the reason.
Prev(F, G) ==
  /\ Valid
  /\ IF direction = "reverse"
     THEN /\ F \subseteq {current} /\ G = {}
          /\ Reposition([pos EXCEPT ![current] = ChildPrev(current, key)], F, "reverse")
     ELSE /\ G \subseteq Children \ (F \union {current})
          /\ Cardinality(failed \union F \union G) <= MaxErrors
          /\ LET p == [i \in Children |->
                         IF i \in F THEN Bad
                         ELSE IF i # current /\ (i \in G \/ ChildSeek(i, key) = Bad)
                              THEN ChildLast(i) ELSE ChildPrev(i, key)]
             IN /\ pos' = p
                /\ current' = FindLargest(p)
          /\ failed' = failed \union F \union G
          /\ direction' = "reverse"
          /\ UNCHANGED run

Step ==
  \E F \in SUBSET Children :
    \/ SeekToFirst(F) \/ SeekToLast(F)
    \/ \E k \in Keys : Seek(k, F)
    \/ Next(F)
    \/ \E G \in SUBSET Children : Prev(F, G)

Spec == Init /\ [][Step]_vars

-----------------------------------------------------------------------------
\* Where the iterator is: at the entry of a child, several of which may have the
\* same key.
Entries == {e \in Keys \X Children : e[1] \in run[e[2]]}
At == IF Valid THEN <<key, current>> ELSE Bad

Cursor == INSTANCE MergedCursor WITH entries <- Entries, at <- At, heading <- direction,
                                     status <- Status

\* Whatever mixture of seeks and steps it came by, the iterator is a cursor over
\* the entries of all children: it never skips a key or repeats an entry, it stops at
\* every copy of a key as long as it does not turn around, and the end of the data
\* is never reported with an OK status because a child could not be read.
IsMergedCursor == Cursor!Spec

\* iterator.h:37, "Moves to the next entry in the source", and iterator.h:42 the
\* same of the previous one: each step goes to the neighbouring entry, also when
\* children hold the same key and the iterator turns around.
MovesByOneEntry == Cursor!ExactSpec

=============================================================================
