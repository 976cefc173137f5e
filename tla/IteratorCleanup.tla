-------------------------- MODULE IteratorCleanup ---------------------------
(***************************************************************************)
(* The end of an iterator: the cleanup functions that clients register     *)
(* with it (include/lldb/iterator.h, table/iterator.cpp), for a merging    *)
(* iterator, whose destructor deletes its children first.                  *)
(*                                                                         *)
(* The head of the list lives in the iterator; further nodes are on the    *)
(* heap, in blocks that are recycled.  Functions are numbered in the order *)
(* they are registered.                                                    *)
(***************************************************************************)
EXTENDS MergingIterator, Sequences, SequencesExt

CONSTANTS CleanupNodes,  \* memory blocks a CleanupNode can be allocated in
          HeadNode,      \* cleanup_head_
          NoNode         \* nullptr

ASSUME CleanupAssumption ==
  IsFiniteSet(CleanupNodes) /\ HeadNode \notin CleanupNodes /\ NoNode \notin CleanupNodes \union {HeadNode}

VARIABLES function,    \* node -> its function, 0 for nullptr
          next,        \* node -> the node behind it
          heap,        \* nodes that are allocated
          registered,  \* functions registered so far
          ran,         \* functions that ran, in order
          children,    \* the children exist
          phase, walk  \* the destructor, and its loop variable node

cleanupVars == <<function, next, heap, registered, ran, children, phase, walk>>
allVars == <<vars, cleanupVars>>

CInit ==
  /\ Init
  /\ function = [n \in CleanupNodes \union {HeadNode} |-> 0]
  /\ next = [n \in CleanupNodes \union {HeadNode} |-> NoNode]
  /\ heap = {} /\ registered = 0 /\ ran = << >>
  /\ children = TRUE
  /\ phase = "alive" /\ walk = NoNode

\* Any method of the iterator, as long as it exists.
Use == phase = "alive" /\ Step /\ UNCHANGED cleanupVars

\* The first function goes into the head, the others right behind it.
RegisterCleanup ==
  /\ phase = "alive"
  /\ \/ /\ function[HeadNode] = 0
        /\ function' = [function EXCEPT ![HeadNode] = registered + 1]
        /\ UNCHANGED <<next, heap>>
     \/ /\ function[HeadNode] # 0
        /\ \E n \in CleanupNodes \ heap :
             /\ heap' = heap \union {n}
             /\ next' = [next EXCEPT ![n] = next[HeadNode], ![HeadNode] = n]
             /\ function' = [function EXCEPT ![n] = registered + 1]
  /\ registered' = registered + 1
  /\ UNCHANGED <<vars, ran, children, phase, walk>>

\* ~MergingIterator: delete[] children_, before the base class's destructor.
DeleteChildren ==
  /\ phase = "alive"
  /\ children' = FALSE
  /\ phase' = "base"
  /\ UNCHANGED <<vars, function, next, heap, registered, ran, walk>>

\* ~Iterator: the head's function runs, if there is one.
RunHead ==
  /\ phase = "base"
  /\ \/ /\ function[HeadNode] # 0
        /\ ran' = Append(ran, function[HeadNode])
        /\ walk' = next[HeadNode]
        /\ phase' = "walk"
     \/ /\ function[HeadNode] = 0
        /\ phase' = "dead"
        /\ UNCHANGED <<ran, walk>>
  /\ UNCHANGED <<vars, function, next, heap, registered, children>>

WalkAfterDelete ==
  /\ phase = "walk" /\ walk # NoNode
  /\ ran' = Append(ran, function[walk])
  /\ heap' = heap \ {walk}
  /\ next' = [next EXCEPT ![walk] = NoNode]
  /\ walk' = next'[walk]
  /\ UNCHANGED <<vars, function, registered, children, phase>>

\* One round of the loop: run, remember the next node, delete.  What freed
\* memory holds is unspecified; the model clears the link.
WalkNode ==
  /\ phase = "walk" /\ walk # NoNode
  /\ ran' = Append(ran, function[walk])
  /\ walk' = next[walk]
  /\ heap' = heap \ {walk}
  /\ next' = [next EXCEPT ![walk] = NoNode]
  /\ UNCHANGED <<vars, function, registered, children, phase>>

WalkEnd ==
  /\ phase = "walk" /\ walk = NoNode
  /\ phase' = "dead"
  /\ UNCHANGED <<vars, function, next, heap, registered, ran, children, walk>>

Dead == phase = "dead" /\ UNCHANGED allVars

CNext ==
  \/ Use \/ RegisterCleanup \/ DeleteChildren
  \/ RunHead \/ WalkNode \/ WalkEnd \/ Dead

CSpec == CInit /\ [][CNext]_allVars

-----------------------------------------------------------------------------
\* Every registered function runs once and only once when the iterator is
\* destroyed, after its children are gone (so that what they read can be
\* released), and the destructor walks only over memory it has not freed.
CleanupsRunOnce ==
  /\ walk # NoNode => walk \in heap
  /\ \A i, j \in 1..Len(ran) : ran[i] = ran[j] => i = j
  /\ ran # << >> => ~children
  /\ phase = "dead" => ToSet(ran) = 1..registered /\ heap = {}

=============================================================================
