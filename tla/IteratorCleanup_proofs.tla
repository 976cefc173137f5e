----------------------- MODULE IteratorCleanup_proofs -----------------------
(***************************************************************************)
(* Proofs about iterators: the destructor runs every registered cleanup    *)
(* function once, and a merging iterator is a cursor over the union of its *)
(* children.  They hold for any number of children, keys, functions and    *)
(* failures.                                                               *)
(***************************************************************************)
EXTENDS IteratorCleanup, FiniteSetTheorems, TLAPS

-----------------------------------------------------------------------------
\* The nodes behind the head hold the functions 2..left, newest first.
Left == IF Len(ran) = 0 THEN registered ELSE registered + 1 - Len(ran)

CleanupTypes ==
  /\ function \in [CleanupNodes \union {HeadNode} -> Nat]
  /\ next \in [CleanupNodes \union {HeadNode} -> CleanupNodes \union {HeadNode, NoNode}]
  /\ heap \subseteq CleanupNodes
  /\ registered \in Nat /\ ran \in Seq(Nat)
  /\ phase \in {"alive", "base", "walk", "dead"}
  /\ children \in BOOLEAN

Numbered ==
  /\ \A n \in heap : function[n] \in 2..Left
  /\ \A n, m \in heap : function[n] = function[m] => n = m
  /\ \A k \in 2..Left : \E n \in heap : function[n] = k

Linked ==
  \A n \in heap : \/ function[n] = 2 /\ next[n] = NoNode
                  \/ function[n] > 2 /\ next[n] \in heap /\ function[next[n]] = function[n] - 1

\* n is the first node behind the head.
First(n) == IF Left <= 1 THEN n = NoNode ELSE n \in heap /\ function[n] = Left

Destructor ==
  /\ phase = "alive" => ran = << >>
  /\ phase \in {"alive", "base"} =>
       /\ ran = << >> /\ First(next[HeadNode]) /\ walk = NoNode
       /\ function[HeadNode] = IF registered = 0 THEN 0 ELSE 1
  /\ phase # "alive" => ~children
  /\ phase = "walk" => First(walk) /\ ran # << >>
  /\ phase = "dead" => heap = {} /\ walk = NoNode
  /\ phase = "dead" => IF registered = 0 THEN ran = << >> ELSE Len(ran) = registered
  /\ \A i \in 1..Len(ran) : ran[i] = IF i = 1 THEN 1 ELSE registered + 2 - i
  /\ Len(ran) <= registered

CleanupInv == CleanupTypes /\ Numbered /\ Linked /\ Destructor

-----------------------------------------------------------------------------
\* Nothing is registered and nothing has run.
LEMMA CleanupInitial ==
  ASSUME CInit
  PROVE  CleanupInv
<1>i. /\ function = [n \in CleanupNodes \union {HeadNode} |-> 0]
      /\ next = [n \in CleanupNodes \union {HeadNode} |-> NoNode]
      /\ heap = {} /\ registered = 0 /\ ran = << >> /\ children = TRUE
      /\ phase = "alive" /\ walk = NoNode
  BY DEF CInit
<1>0. Left = 0
  BY <1>i DEF Left
<1>1. CleanupTypes
  BY <1>i DEF CleanupTypes
<1>2. Numbered /\ Linked
  BY <1>i, <1>0 DEF Numbered, Linked
<1>3. Destructor
  BY <1>i, <1>0 DEF Destructor, First
<1> QED BY <1>1, <1>2, <1>3 DEF CleanupInv

\* The new function goes into the head or right behind it.
LEMMA RegisterStep ==
  ASSUME CleanupInv, RegisterCleanup
  PROVE  CleanupInv'
<1>t. CleanupTypes /\ Numbered /\ Linked /\ Destructor
  BY DEF CleanupInv
<1>u. phase = "alive" /\ registered' = registered + 1 /\ UNCHANGED <<ran, children, phase, walk>>
  BY DEF RegisterCleanup
<1>i. /\ ran = << >> /\ Len(ran) = 0 /\ First(next[HeadNode]) /\ walk = NoNode
      /\ function[HeadNode] = IF registered = 0 THEN 0 ELSE 1
      /\ registered \in Nat
  BY <1>t, <1>u DEF Destructor, CleanupTypes
<1>l. Left = registered /\ Left' = registered + 1
  BY <1>i, <1>u DEF Left
<1>1. CASE /\ function[HeadNode] = 0
           /\ function' = [function EXCEPT ![HeadNode] = registered + 1] /\ UNCHANGED <<next, heap>>
  <2>1. registered = 0
    BY <1>1, <1>i
  <2>2. heap = {}
    BY <2>1, <1>l, <1>t DEF Numbered
  <2>3. CleanupTypes'
    BY <1>t, <1>u, <1>1, <1>i DEF CleanupTypes
  <2>4. Numbered' /\ Linked'
    BY <2>1, <2>2, <1>l, <1>1 DEF Numbered, Linked
  <2>5. function'[HeadNode] = 1
    BY <1>1, <2>1, <1>t DEF CleanupTypes
  <2>6. First(next[HeadNode])'
    BY <2>1, <1>l, <1>i, <1>1 DEF First
  <2>7. Destructor'
    BY <1>t, <1>u, <1>i, <2>1, <2>5, <2>6 DEF Destructor
  <2> QED BY <2>3, <2>4, <2>7 DEF CleanupInv
<1>2. ASSUME NEW n \in CleanupNodes \ heap, function[HeadNode] # 0,
             heap' = heap \union {n},
             next' = [next EXCEPT ![n] = next[HeadNode], ![HeadNode] = n],
             function' = [function EXCEPT ![n] = registered + 1]
      PROVE  CleanupInv'
  <2>h. n # HeadNode /\ HeadNode \notin heap /\ n \notin heap /\ registered >= 1
    BY <1>2, <1>i, <1>t, CleanupAssumption DEF CleanupTypes
  <2>n. /\ next'[HeadNode] = n /\ next'[n] = next[HeadNode]
        /\ \A m \in heap : next'[m] = next[m]
    BY <1>2, <2>h, <1>t DEF CleanupTypes
  <2>f. /\ function'[n] = registered + 1 /\ function'[HeadNode] = function[HeadNode]
        /\ \A m \in heap : function'[m] = function[m]
    BY <1>2, <2>h, <1>t DEF CleanupTypes
  <2>1. CleanupTypes'
    <3>1. function' \in [CleanupNodes \union {HeadNode} -> Nat]
      BY <1>2, <1>i, <1>t DEF CleanupTypes
    <3>2. next' \in [CleanupNodes \union {HeadNode} -> CleanupNodes \union {HeadNode, NoNode}]
      BY <1>2, <1>t DEF CleanupTypes
    <3> QED BY <1>2, <1>t, <1>u, <1>i, <3>1, <3>2 DEF CleanupTypes
  <2>2. \A m \in heap : function[m] \in 2..registered
    BY <1>t, <1>l DEF Numbered
  <2>3. Numbered'
    <3>1. \A m \in heap' : function'[m] \in 2..(registered + 1)
      <4>1. \A m \in heap : function'[m] \in 2..(registered + 1)
        BY <2>f, <2>2, <1>i
      <4>2. function'[n] \in 2..(registered + 1)
        BY <2>f, <2>h, <1>i
      <4> QED BY <1>2, <4>1, <4>2
    <3>2. \A m, q \in heap' : function'[m] = function'[q] => m = q
      <4>1. \A m \in heap : function'[m] # registered + 1
        BY <2>f, <2>2, <1>i
      <4>2. \A m, q \in heap : function[m] = function[q] => m = q
        BY <1>t DEF Numbered
      <4> QED BY <1>2, <2>f, <4>1, <4>2
    <3>3. ASSUME NEW k \in 2..(registered + 1) PROVE \E m \in heap' : function'[m] = k
      <4>1. CASE k = registered + 1
        BY <4>1, <1>2, <2>f
      <4>2. CASE k # registered + 1
        <5>1. k \in 2..Left
          BY <4>2, <1>l, <1>i
        <5>2. \E m \in heap : function[m] = k
          BY <5>1, <1>t DEF Numbered
        <5> QED BY <5>2, <1>2, <2>f
      <4> QED BY <4>1, <4>2
    <3> QED BY <3>1, <3>2, <3>3, <1>l DEF Numbered
  <2>4. Linked'
    <3>1. ASSUME NEW m \in heap
          PROVE  \/ function'[m] = 2 /\ next'[m] = NoNode
                 \/ function'[m] > 2 /\ next'[m] \in heap' /\ function'[next'[m]] = function'[m] - 1
      <4>1. \/ function[m] = 2 /\ next[m] = NoNode
            \/ function[m] > 2 /\ next[m] \in heap /\ function[next[m]] = function[m] - 1
        BY <1>t DEF Linked
      <4>2. function'[m] = function[m] /\ next'[m] = next[m]
        BY <2>n, <2>f
      <4>3. next[m] \in heap => next[m] \in heap' /\ function'[next[m]] = function[next[m]]
        BY <1>2, <2>f
      <4> QED BY <4>1, <4>2, <4>3
    <3>2. \/ function'[n] = 2 /\ next'[n] = NoNode
          \/ function'[n] > 2 /\ next'[n] \in heap' /\ function'[next'[n]] = function'[n] - 1
      <4>1. CASE registered = 1
        BY <4>1, <1>i, <1>l, <2>n, <2>f DEF First
      <4>2. CASE registered # 1
        <5>1. next[HeadNode] \in heap /\ function[next[HeadNode]] = registered
          BY <4>2, <2>h, <1>i, <1>l DEF First
        <5>2. function'[next[HeadNode]] = registered
          BY <5>1, <2>f
        <5> QED BY <4>2, <5>1, <5>2, <2>h, <2>n, <2>f, <1>2, <1>i
      <4> QED BY <4>1, <4>2
    <3> QED BY <3>1, <3>2, <1>2 DEF Linked
  <2>5. First(next[HeadNode])'
    BY <1>2, <1>l, <1>i, <2>h, <2>n, <2>f DEF First
  <2>6. Destructor'
    BY <1>t, <1>u, <1>i, <2>f, <2>h, <2>5 DEF Destructor
  <2> QED BY <2>1, <2>3, <2>4, <2>6 DEF CleanupInv
<1> QED BY <1>1, <1>2 DEF RegisterCleanup

\* One function more has run, and its node is freed after its link was read.
LEMMA WalkStep ==
  ASSUME CleanupInv, WalkNode
  PROVE  CleanupInv'
<1>t. CleanupTypes /\ Numbered /\ Linked /\ Destructor
  BY DEF CleanupInv
<1>u. /\ phase = "walk" /\ walk # NoNode /\ ran' = Append(ran, function[walk]) /\ walk' = next[walk]
      /\ heap' = heap \ {walk} /\ next' = [next EXCEPT ![walk] = NoNode]
      /\ UNCHANGED <<function, registered, children, phase>>
  BY DEF WalkNode
<1>i. First(walk) /\ ran # << >> /\ ran \in Seq(Nat) /\ registered \in Nat /\ Len(ran) <= registered
  BY <1>t, <1>u DEF Destructor, CleanupTypes
<1>1. Len(ran) \in Nat /\ Len(ran) >= 1
  BY <1>i
<1>2. Left = registered + 1 - Len(ran) /\ Left \in Int
  BY <1>1, <1>i DEF Left
<1>3. Left >= 2 /\ walk \in heap /\ function[walk] = Left
  BY <1>2, <1>i, <1>u DEF First
<1>4. walk \in CleanupNodes /\ function[walk] \in Nat
  BY <1>3, <1>t DEF CleanupTypes
<1>5. /\ ran' \in Seq(Nat) /\ Len(ran') = Len(ran) + 1
      /\ ran'[Len(ran) + 1] = Left /\ \A i \in 1..Len(ran) : ran'[i] = ran[i]
  BY <1>u, <1>i, <1>3, <1>4
<1>6. Left' = Left - 1
  <2>1. Len(ran') # 0 /\ registered' = registered /\ Len(ran') = Len(ran) + 1
    BY <1>1, <1>5, <1>u
  <2>2. Left' = registered + 1 - (Len(ran) + 1)
    BY <2>1 DEF Left
  <2> QED BY <2>2, <1>1, <1>2, <1>i
<1>7. CleanupTypes'
  <2>1. next' \in [CleanupNodes \union {HeadNode} -> CleanupNodes \union {HeadNode, NoNode}]
    BY <1>t, <1>u DEF CleanupTypes
  <2>2. heap' \subseteq CleanupNodes /\ ran' \in Seq(Nat)
    BY <1>t, <1>u, <1>5 DEF CleanupTypes
  <2>3. UNCHANGED <<function, registered, children, phase>>
    BY <1>u
  <2> QED BY <1>t, <2>1, <2>2, <2>3 DEF CleanupTypes
<1>8. \A m \in heap' : m \in heap /\ m # walk /\ function[m] \in 2..Left' /\ next'[m] = next[m]
  <2>1. \A m \in heap' : m \in heap /\ m # walk /\ m \in CleanupNodes
    BY <1>u, <1>t DEF CleanupTypes
  <2>2. \A m \in heap' : function[m] \in 2..Left /\ function[m] # Left
    BY <2>1, <1>3, <1>t DEF Numbered
  <2>3. \A m \in heap' : function[m] \in 2..(Left - 1)
    BY <2>2, <1>2
  <2>4. \A m \in heap' : next'[m] = next[m]
    BY <2>1, <1>u, <1>t DEF CleanupTypes
  <2> QED BY <2>1, <2>3, <2>4, <1>6
<1>9. Numbered'
  <2>1. \A m, q \in heap' : function'[m] = function'[q] => m = q
    BY <1>8, <1>u, <1>t DEF Numbered
  <2>2. ASSUME NEW k \in 2..Left' PROVE \E m \in heap' : function'[m] = k
    <3>1. k \in 2..Left /\ k # Left
      BY <1>6, <1>2
    <3>2. PICK m \in heap : function[m] = k
      BY <3>1, <1>t DEF Numbered
    <3> QED BY <3>1, <3>2, <1>3, <1>u
  <2> QED BY <2>1, <2>2, <1>8, <1>u DEF Numbered
<1>10. Linked'
  <2>1. ASSUME NEW m \in heap'
        PROVE  \/ function[m] = 2 /\ next'[m] = NoNode
               \/ function[m] > 2 /\ next'[m] \in heap' /\ function[next'[m]] = function[m] - 1
    <3>1. m \in heap /\ next'[m] = next[m] /\ function[m] \in 2..(Left - 1)
      BY <1>8, <1>6
    <3>2. \/ function[m] = 2 /\ next[m] = NoNode
          \/ function[m] > 2 /\ next[m] \in heap /\ function[next[m]] = function[m] - 1
      BY <3>1, <1>t DEF Linked
    <3>3. function[m] > 2 /\ next[m] \in heap /\ function[next[m]] = function[m] - 1 => next[m] # walk
      BY <3>1, <1>2, <1>3
    <3> QED BY <3>1, <3>2, <3>3, <1>u
  <2> QED BY <2>1, <1>u DEF Linked
<1>11. First(walk)'
  <2>1. CASE Left = 2
    <3>1. next[walk] = NoNode
      BY <2>1, <1>3, <1>t DEF Linked
    <3> QED BY <2>1, <3>1, <1>6, <1>u DEF First
  <2>2. CASE Left # 2
    <3>1. next[walk] \in heap /\ function[next[walk]] = Left - 1
      BY <2>2, <1>3, <1>t DEF Linked
    <3>2. next[walk] # walk
      BY <3>1, <1>2, <1>3
    <3>3. ~(Left' <= 1)
      BY <2>2, <1>2, <1>3, <1>6
    <3> QED BY <3>1, <3>2, <3>3, <1>6, <1>u DEF First
  <2> QED BY <2>1, <2>2
<1>12. \A i \in 1..Len(ran') : ran'[i] = IF i = 1 THEN 1 ELSE registered + 2 - i
  <2>1. ASSUME NEW i \in 1..Len(ran') PROVE ran'[i] = IF i = 1 THEN 1 ELSE registered + 2 - i
    <3>1. CASE i \in 1..Len(ran)
      BY <3>1, <1>5, <1>t DEF Destructor
    <3>2. CASE i = Len(ran) + 1
      BY <3>2, <1>5, <1>2, <1>1, <1>i
    <3> QED BY <3>1, <3>2, <1>5, <1>1
  <2> QED BY <2>1
<1>13. Len(ran') <= registered /\ ran' # << >>
  BY <1>5, <1>2, <1>3, <1>1, <1>i
<1>14. Destructor'
  BY <1>t, <1>u, <1>11, <1>12, <1>13 DEF Destructor
<1> QED BY <1>7, <1>9, <1>10, <1>14 DEF CleanupInv

\* The remaining steps of the destructor, and uses of the iterator.
LEMMA CleanupStep ==
  ASSUME CleanupInv, [CNext]_allVars
  PROVE  CleanupInv'
<1>t. CleanupTypes /\ Numbered /\ Linked /\ Destructor
  BY DEF CleanupInv
<1>1. CASE UNCHANGED cleanupVars
  <2>1. UNCHANGED <<function, next, heap, registered, ran, children, phase, walk>>
    BY <1>1 DEF cleanupVars
  <2> QED BY <1>t, <2>1 DEF CleanupInv, CleanupTypes, Numbered, Linked, Destructor, First, Left
<1>2. CASE DeleteChildren
  <2>1. /\ UNCHANGED <<function, next, heap, registered, ran, walk>>
        /\ phase = "alive" /\ children' = FALSE /\ phase' = "base"
    BY <1>2 DEF DeleteChildren
  <2>2. CleanupTypes' /\ Numbered' /\ Linked'
    BY <1>t, <2>1 DEF CleanupTypes, Numbered, Linked, Left
  <2>3. Destructor'
    BY <1>t, <2>1 DEF Destructor, First, Left
  <2> QED BY <2>2, <2>3 DEF CleanupInv
<1>3. CASE RunHead
  <2>u. /\ UNCHANGED <<function, next, heap, registered, children>> /\ phase = "base"
        /\ ran = << >> /\ Len(ran) = 0 /\ First(next[HeadNode]) /\ walk = NoNode /\ registered \in Nat
        /\ function[HeadNode] = IF registered = 0 THEN 0 ELSE 1
        /\ ~children
    BY <1>3, <1>t DEF RunHead, Destructor, CleanupTypes
  <2>l. Left = registered
    BY <2>u DEF Left
  <2>1. CASE function[HeadNode] = 0
    <3>1. registered = 0 /\ phase' = "dead" /\ UNCHANGED <<ran, walk>>
      BY <2>1, <2>u, <1>3 DEF RunHead
    <3>2. heap = {}
      BY <3>1, <2>l, <1>t DEF Numbered
    <3>3. CleanupTypes' /\ Numbered' /\ Linked'
      BY <1>t, <2>u, <3>1 DEF CleanupTypes, Numbered, Linked, Left
    <3>4. Destructor'
      BY <1>t, <2>u, <3>1, <3>2 DEF Destructor
    <3> QED BY <3>3, <3>4 DEF CleanupInv
  <2>2. CASE function[HeadNode] # 0
    <3>1. /\ registered >= 1 /\ function[HeadNode] = 1
          /\ ran' = Append(ran, 1) /\ walk' = next[HeadNode] /\ phase' = "walk"
      BY <2>2, <2>u, <1>3 DEF RunHead
    <3>2. ran' \in Seq(Nat) /\ Len(ran') = 1 /\ ran'[1] = 1 /\ ran' # << >>
      BY <3>1, <2>u
    <3>3. Left' = Left
      BY <3>2, <2>u, <2>l DEF Left
    <3>4. CleanupTypes'
      BY <1>t, <2>u, <3>1, <3>2 DEF CleanupTypes
    <3>5. Numbered' /\ Linked'
      BY <1>t, <2>u, <3>3 DEF Numbered, Linked
    <3>6. First(walk)'
      BY <2>u, <3>1, <3>3 DEF First
    <3>7. Destructor'
      BY <2>u, <3>1, <3>2, <3>6 DEF Destructor
    <3> QED BY <3>4, <3>5, <3>7 DEF CleanupInv
  <2> QED BY <2>1, <2>2
<1>4. CASE WalkEnd
  <2>u. /\ UNCHANGED <<function, next, heap, registered, ran, children, walk>>
        /\ phase = "walk" /\ walk = NoNode /\ phase' = "dead"
    BY <1>4 DEF WalkEnd
  <2>1. First(NoNode) /\ NoNode \notin heap /\ registered \in Nat /\ ran \in Seq(Nat) /\ ran # << >>
        /\ Len(ran) <= registered
    BY <2>u, <1>t, CleanupAssumption DEF Destructor, CleanupTypes
  <2>2. Left <= 1 /\ Len(ran) \in Nat /\ Len(ran) >= 1
    BY <2>1 DEF First
  <2>3. Len(ran) = registered
    BY <2>1, <2>2 DEF Left
  <2>4. heap = {}
    <3>1. Left \in Int
      BY <2>1, <2>2 DEF Left
    <3> QED BY <2>2, <3>1, <1>t DEF Numbered
  <2>5. CleanupTypes' /\ Numbered' /\ Linked'
    BY <1>t, <2>u DEF CleanupTypes, Numbered, Linked, Left
  <2>6. Destructor'
    BY <1>t, <2>u, <2>1, <2>2, <2>3, <2>4 DEF Destructor
  <2> QED BY <2>5, <2>6 DEF CleanupInv
<1>5. CASE Use \/ Dead \/ UNCHANGED allVars
  <2>1. UNCHANGED cleanupVars
    BY <1>5 DEF Use, Dead, allVars
  <2> QED BY <2>1, <1>1
<1> QED BY <1>2, <1>3, <1>4, <1>5, RegisterStep, WalkStep DEF CNext

\* Every registered cleanup function runs once, after the children are gone, and
\* the destructor's loop never follows a pointer into memory it has freed.
THEOREM EveryCleanupOnce == CSpec => []CleanupsRunOnce
<1>1. CInit => CleanupInv
  BY CleanupInitial
<1>2. CleanupInv /\ [CNext]_allVars => CleanupInv'
  BY CleanupStep
<1>3. ASSUME CleanupInv PROVE CleanupsRunOnce
  <2>t. CleanupTypes /\ Numbered /\ Destructor
    BY <1>3 DEF CleanupInv
  <2>0. registered \in Nat /\ ran \in Seq(Nat) /\ Len(ran) \in Nat /\ Len(ran) <= registered
        /\ \A i \in 1..Len(ran) : ran[i] = IF i = 1 THEN 1 ELSE registered + 2 - i
    BY <2>t DEF Destructor, CleanupTypes
  <2>1. walk # NoNode => walk \in heap
    BY <2>t DEF Destructor, First, CleanupTypes
  <2>2. \A i, j \in 1..Len(ran) : ran[i] = ran[j] => i = j
    BY <2>0
  <2>3. ran # << >> => ~children
    BY <2>t DEF Destructor, CleanupTypes
  <2>4. ASSUME phase = "dead" PROVE ToSet(ran) = 1..registered /\ heap = {}
    <3>1. heap = {} /\ Len(ran) = registered
      BY <2>4, <2>t DEF Destructor
    <3>2. ToSet(ran) = {ran[i] : i \in 1..registered}
      <4>1. DOMAIN ran = 1..registered
        BY <2>0, <3>1
      <4> QED BY <4>1 DEF ToSet
    <3>3. \A i \in 1..registered : ran[i] \in 1..registered
      BY <2>0, <3>1
    <3>4. ASSUME NEW k \in 1..registered PROVE k \in ToSet(ran)
      <4>1. CASE k = 1
        BY <4>1, <3>1, <3>2, <2>0
      <4>2. CASE k # 1
        <5>1. registered + 2 - k \in 1..registered /\ registered + 2 - k # 1
              /\ registered + 2 - (registered + 2 - k) = k
          BY <4>2, <2>0
        <5>2. ran[registered + 2 - k] = k
          BY <5>1, <3>1, <2>0
        <5> QED BY <5>1, <5>2, <3>2
      <4> QED BY <4>1, <4>2
    <3> QED BY <3>1, <3>2, <3>3, <3>4
  <2> QED BY <2>1, <2>2, <2>3, <2>4 DEF CleanupsRunOnce
<1> QED BY <1>1, <1>2, <1>3, PTL DEF CSpec

-----------------------------------------------------------------------------
\* A finite set that is not empty has a first element in any total order R: a
\* smallest set that had none, less one of its elements, would have one.
LEMMA HasFirst ==
  ASSUME NEW S, IsFiniteSet(S), S # {}, NEW R,
         \A a, b \in S : <<a, b>> \in R \/ <<b, a>> \in R,
         \A a, b, c \in S : <<a, b>> \in R /\ <<b, c>> \in R => <<a, c>> \in R
  PROVE  \E x \in S : \A y \in S : <<x, y>> \in R
<1> DEFINE Without == {T \in FiniteSubsetsOf(S) : T # {} /\ ~ \E x \in T : \A y \in T : <<x, y>> \in R}
<1>1. Without = {}
  <2> SUFFICES ASSUME Without # {} PROVE FALSE
    OBVIOUS
  <2>1. IsWellFoundedOn(StrictSubsetOrdering(S), FiniteSubsetsOf(S)) /\ Without \subseteq FiniteSubsetsOf(S)
    BY FS_StrictSubsetOrderingWellFounded
  <2>2. PICK T \in Without : \A U \in Without : ~ (<<U, T>> \in StrictSubsetOrdering(S))
    <3> HIDE DEF Without
    <3> QED BY <2>1, WFMin
  <2>3. T \in SUBSET S /\ IsFiniteSet(T) /\ T # {} /\ ~ \E x \in T : \A y \in T : <<x, y>> \in R
    BY DEF FiniteSubsetsOf
  <2>4. PICK x : x \in T
    BY <2>3
  <2>5. IsFiniteSet(T \ {x})
    BY <2>3, FS_RemoveElement
  <2>6. <<T \ {x}, T>> \in StrictSubsetOrdering(S)
    BY <2>3, <2>4 DEF StrictSubsetOrdering
  <2>7. T \ {x} \notin Without
    BY <2>2, <2>6
  <2>8. T \ {x} \in FiniteSubsetsOf(S)
    BY <2>3, <2>5 DEF FiniteSubsetsOf
  <2>9. T \ {x} = {} \/ \E u \in T \ {x} : \A y \in T \ {x} : <<u, y>> \in R
    BY <2>7, <2>8
  <2>10. <<x, x>> \in R
    BY <2>3, <2>4
  <2>11. CASE T \ {x} = {}
    <3>1. \A y \in T : <<x, y>> \in R
      BY <2>10, <2>11
    <3> QED BY <2>3, <2>4, <3>1
  <2>12. ASSUME NEW u \in T \ {x}, \A y \in T \ {x} : <<u, y>> \in R PROVE FALSE
    <3>1. u \in S /\ x \in S /\ u \in T
      BY <2>3, <2>4
    <3>2. CASE <<x, u>> \in R
      <4>1. ASSUME NEW y \in T PROVE <<x, y>> \in R
        <5>1. y # x => <<u, y>> \in R
          BY <2>12
        <5> QED BY <5>1, <2>3, <2>10, <3>1, <3>2
      <4> QED BY <2>3, <2>4, <4>1
    <3>3. CASE <<u, x>> \in R
      <4>1. \A y \in T : <<u, y>> \in R
        BY <2>12, <3>3
      <4> QED BY <2>3, <3>1, <4>1
    <3> QED BY <3>1, <3>2, <3>3
  <2> QED BY <2>9, <2>11, <2>12
<1>2. S \in FiniteSubsetsOf(S)
  BY DEF FiniteSubsetsOf
<1> QED BY <1>1, <1>2

\* A finite set of keys that is not empty has a least and a greatest element.
LEMMA HasExtremes ==
  ASSUME NEW S \in SUBSET Int, IsFiniteSet(S), S # {}
  PROVE  /\ \E x \in S : \A y \in S : x <= y
         /\ \E x \in S : \A y \in S : x >= y
<1>1. \E x \in S : \A y \in S : x <= y
  <2>1. ASSUME NEW R, R = {e \in Int \X Int : e[1] <= e[2]} PROVE \E x \in S : \A y \in S : <<x, y>> \in R
    <3>1. \A a, b \in S : <<a, b>> \in R \/ <<b, a>> \in R
      BY <2>1
    <3>2. \A a, b, c \in S : <<a, b>> \in R /\ <<b, c>> \in R => <<a, c>> \in R
      BY <2>1
    <3> QED BY <3>1, <3>2, HasFirst
  <2>2. \E x \in S : \A y \in S : <<x, y>> \in {e \in Int \X Int : e[1] <= e[2]}
    BY <2>1
  <2> QED BY <2>2
<1>2. \E x \in S : \A y \in S : x >= y
  <2>1. ASSUME NEW R, R = {e \in Int \X Int : e[1] >= e[2]} PROVE \E x \in S : \A y \in S : <<x, y>> \in R
    <3>1. \A a, b \in S : <<a, b>> \in R \/ <<b, a>> \in R
      BY <2>1
    <3>2. \A a, b, c \in S : <<a, b>> \in R /\ <<b, c>> \in R => <<a, c>> \in R
      BY <2>1
    <3> QED BY <3>1, <3>2, HasFirst
  <2>2. \E x \in S : \A y \in S : <<x, y>> \in {e \in Int \X Int : e[1] >= e[2]}
    BY <2>1
  <2> QED BY <2>2
<1> QED BY <1>1, <1>2

\* x is where an iterator over S that looks for its first, or last, entry is.
IsLeast(x, S) == (S = {} /\ x = Bad) \/ (x \in S /\ \A y \in S : x <= y)
IsGreatest(x, S) == (S = {} /\ x = Bad) \/ (x \in S /\ \A y \in S : x >= y)

\* Least and Greatest find it.
LEMMA LeastFound ==
  ASSUME NEW S \in SUBSET Int, IsFiniteSet(S)
  PROVE  IsLeast(Least(S), S)
<1>1. CASE S = {}
  BY <1>1 DEF IsLeast, Least
<1>2. CASE S # {}
  <2>1. \E x \in S : \A y \in S : x <= y
    BY <1>2, HasExtremes
  <2>2. Min(S) \in S /\ \A y \in S : Min(S) <= y
    BY <2>1 DEF Min
  <2> QED BY <1>2, <2>2 DEF IsLeast, Least
<1> QED BY <1>1, <1>2

LEMMA GreatestFound ==
  ASSUME NEW S \in SUBSET Int, IsFiniteSet(S)
  PROVE  IsGreatest(Greatest(S), S)
<1>1. CASE S = {}
  BY <1>1 DEF IsGreatest, Greatest
<1>2. CASE S # {}
  <2>1. \E x \in S : \A y \in S : x >= y
    BY <1>2, HasExtremes
  <2>2. Max(S) \in S /\ \A y \in S : Max(S) >= y
    BY <2>1 DEF Max
  <2> QED BY <1>2, <2>2 DEF IsGreatest, Greatest
<1> QED BY <1>1, <1>2

\* FindSmallest's loop over the children finds the first of those with the smallest key.
LEMMA SmallestFound ==
  ASSUME NEW p \in [Children -> Keys \union {Bad}]
  PROVE  \/ FindSmallest(p) = NoChild /\ \A i \in Children : p[i] = Bad
         \/ /\ FindSmallest(p) \in Children /\ p[FindSmallest(p)] \in Keys
            /\ \A j \in Children : p[j] # Bad =>
                 p[FindSmallest(p)] < p[j] \/ (p[FindSmallest(p)] = p[j] /\ FindSmallest(p) <= j)
<1>k. N \in Nat /\ Keys \subseteq Int /\ Bad \notin Int /\ Bad \notin Keys
  BY MergerAssumption
<1> DEFINE V == {i \in Children : p[i] # Bad}
<1>1. CASE V = {}
  BY <1>1 DEF FindSmallest
<1>2. CASE V # {}
  <2>1. IsFiniteSet(V)
    <3>1. IsFiniteSet(1..N)
      BY <1>k, FS_Interval
    <3> QED BY <3>1, FS_Subset DEF Children
  <2>2. \A i \in V : i \in Int /\ p[i] \in Int /\ p[i] \in Keys
    <3>1. \A i \in V : i \in Children /\ p[i] \in Keys
      OBVIOUS
    <3>2. \A i \in Children : i \in Int
      BY <1>k DEF Children
    <3> QED BY <3>1, <3>2, <1>k
  <2>3. \E i \in V : \A j \in V : p[i] < p[j] \/ (p[i] = p[j] /\ i <= j)
    <3>1. ASSUME NEW R, R = {e \in V \X V : p[e[1]] < p[e[2]] \/ (p[e[1]] = p[e[2]] /\ e[1] <= e[2])}
          PROVE  \E x \in V : \A y \in V : <<x, y>> \in R
      <4>1. \A a, b \in V : <<a, b>> \in R <=> p[a] < p[b] \/ (p[a] = p[b] /\ a <= b)
        <5> HIDE DEF V
        <5>1. ASSUME NEW a \in V, NEW b \in V
              PROVE  <<a, b>> \in R <=> p[a] < p[b] \/ (p[a] = p[b] /\ a <= b)
          <6>1. <<a, b>> \in V \X V /\ <<a, b>>[1] = a /\ <<a, b>>[2] = b
            OBVIOUS
          <6>2. ASSUME NEW e \in V \X V
                PROVE  e \in R <=> p[e[1]] < p[e[2]] \/ (p[e[1]] = p[e[2]] /\ e[1] <= e[2])
            BY <3>1, Zenon
          <6> QED BY <6>1, <6>2
        <5> QED BY <5>1
      <4>2. ASSUME NEW a \in V, NEW b \in V PROVE <<a, b>> \in R \/ <<b, a>> \in R
        <5>1. a \in Int /\ b \in Int /\ p[a] \in Int /\ p[b] \in Int
          BY <2>2
        <5>2. \/ p[a] < p[b] \/ (p[a] = p[b] /\ a <= b)
              \/ p[b] < p[a] \/ (p[b] = p[a] /\ b <= a)
          BY <5>1
        <5> HIDE DEF V
        <5> QED BY <5>2, <4>1
      <4>3. \A a, b, c \in V : <<a, b>> \in R /\ <<b, c>> \in R => <<a, c>> \in R
        BY <4>1, <2>2
      <4> HIDE DEF V
      <4> QED BY <1>2, <2>1, <4>2, <4>3, HasFirst
    <3>2. \E x \in V : \A y \in V :
            <<x, y>> \in {e \in V \X V : p[e[1]] < p[e[2]] \/ (p[e[1]] = p[e[2]] /\ e[1] <= e[2])}
      BY <3>1
    <3> QED BY <3>2
  <2>4. FindSmallest(p) = CHOOSE i \in V : \A j \in V : p[i] < p[j] \/ (p[i] = p[j] /\ i <= j)
    BY <1>2 DEF FindSmallest
  <2>5. FindSmallest(p) \in V
        /\ \A j \in V : \/ p[FindSmallest(p)] < p[j]
                        \/ p[FindSmallest(p)] = p[j] /\ FindSmallest(p) <= j
    BY <2>3, <2>4
  <2> QED BY <2>2, <2>5
<1> QED BY <1>1, <1>2

\* FindLargest's loop over the children finds the last of those with the largest key.
LEMMA LargestFound ==
  ASSUME NEW p \in [Children -> Keys \union {Bad}]
  PROVE  \/ FindLargest(p) = NoChild /\ \A i \in Children : p[i] = Bad
         \/ /\ FindLargest(p) \in Children /\ p[FindLargest(p)] \in Keys
            /\ \A j \in Children : p[j] # Bad =>
                 p[FindLargest(p)] > p[j] \/ (p[FindLargest(p)] = p[j] /\ FindLargest(p) >= j)
<1>k. N \in Nat /\ Keys \subseteq Int /\ Bad \notin Int /\ Bad \notin Keys
  BY MergerAssumption
<1> DEFINE V == {i \in Children : p[i] # Bad}
<1>1. CASE V = {}
  BY <1>1 DEF FindLargest
<1>2. CASE V # {}
  <2>1. IsFiniteSet(V)
    <3>1. IsFiniteSet(1..N)
      BY <1>k, FS_Interval
    <3> QED BY <3>1, FS_Subset DEF Children
  <2>2. \A i \in V : i \in Int /\ p[i] \in Int /\ p[i] \in Keys
    <3>1. \A i \in V : i \in Children /\ p[i] \in Keys
      OBVIOUS
    <3>2. \A i \in Children : i \in Int
      BY <1>k DEF Children
    <3> QED BY <3>1, <3>2, <1>k
  <2>3. \E i \in V : \A j \in V : p[i] > p[j] \/ (p[i] = p[j] /\ i >= j)
    <3>1. ASSUME NEW R, R = {e \in V \X V : p[e[1]] > p[e[2]] \/ (p[e[1]] = p[e[2]] /\ e[1] >= e[2])}
          PROVE  \E x \in V : \A y \in V : <<x, y>> \in R
      <4>1. \A a, b \in V : <<a, b>> \in R <=> p[a] > p[b] \/ (p[a] = p[b] /\ a >= b)
        <5> HIDE DEF V
        <5>1. ASSUME NEW a \in V, NEW b \in V
              PROVE  <<a, b>> \in R <=> p[a] > p[b] \/ (p[a] = p[b] /\ a >= b)
          <6>1. <<a, b>> \in V \X V /\ <<a, b>>[1] = a /\ <<a, b>>[2] = b
            OBVIOUS
          <6>2. ASSUME NEW e \in V \X V
                PROVE  e \in R <=> p[e[1]] > p[e[2]] \/ (p[e[1]] = p[e[2]] /\ e[1] >= e[2])
            BY <3>1, Zenon
          <6> QED BY <6>1, <6>2
        <5> QED BY <5>1
      <4>2. ASSUME NEW a \in V, NEW b \in V PROVE <<a, b>> \in R \/ <<b, a>> \in R
        <5>1. a \in Int /\ b \in Int /\ p[a] \in Int /\ p[b] \in Int
          BY <2>2
        <5>2. \/ p[a] > p[b] \/ (p[a] = p[b] /\ a >= b)
              \/ p[b] > p[a] \/ (p[b] = p[a] /\ b >= a)
          BY <5>1
        <5> HIDE DEF V
        <5> QED BY <5>2, <4>1
      <4>3. \A a, b, c \in V : <<a, b>> \in R /\ <<b, c>> \in R => <<a, c>> \in R
        BY <4>1, <2>2
      <4> HIDE DEF V
      <4> QED BY <1>2, <2>1, <4>2, <4>3, HasFirst
    <3>2. \E x \in V : \A y \in V :
            <<x, y>> \in {e \in V \X V : p[e[1]] > p[e[2]] \/ (p[e[1]] = p[e[2]] /\ e[1] >= e[2])}
      BY <3>1
    <3> QED BY <3>2
  <2>4. FindLargest(p) = CHOOSE i \in V : \A j \in V : p[i] > p[j] \/ (p[i] = p[j] /\ i >= j)
    BY <1>2 DEF FindLargest
  <2>5. FindLargest(p) \in V
        /\ \A j \in V : \/ p[FindLargest(p)] > p[j]
                        \/ p[FindLargest(p)] = p[j] /\ FindLargest(p) >= j
    BY <2>3, <2>4
  <2> QED BY <2>2, <2>5
<1> QED BY <1>1, <1>2

-----------------------------------------------------------------------------
\* The state of the merging iterator: where its children are when no child has
\* failed.
MergeTypes ==
  /\ run \in [Children -> SUBSET Keys]
  /\ pos \in [Children -> Keys \union {Bad}]
  /\ \A i \in Children : pos[i] \in run[i] \union {Bad}
  /\ failed \subseteq Children
  /\ direction \in {"forward", "reverse"}
  /\ current = IF direction = "forward" THEN FindSmallest(pos) ELSE FindLargest(pos)

\* The entries of a child from <<k, c>> on, and up to it.
Above(i, k, c) == {x \in run[i] : x > k \/ (x = k /\ i >= c)}
Below(i, k, c) == {x \in run[i] : x < k \/ (x = k /\ i <= c)}

\* Moving forwards every child is at its first entry from the current one on,
\* moving backwards at its last entry up to it.
Aligned ==
  failed = {} /\ Valid =>
    \A i \in Children :
      /\ direction = "forward" => IsLeast(pos[i], Above(i, pos[current], current))
      /\ direction = "reverse" => IsGreatest(pos[i], Below(i, pos[current], current))

MergeInv == MergeTypes /\ Aligned

\* A family of sets of keys, one for each child, that are the part of the entries
\* behind, or before, a place between two of them.
UpClosed(B) ==
  \A i, j \in Children : \A x \in B[i], y \in Int : y > x \/ (y = x /\ j >= i) => y \in B[j]
DownClosed(B) ==
  \A i, j \in Children : \A x \in B[i], y \in Int : y < x \/ (y = x /\ j <= i) => y \in B[j]

Within(B) == {e \in Entries : e[1] \in B[e[2]]}

\* e is the first, or the last, entry of S, or Bad when there is none.
IsFirst(e, S) == (S = {} /\ e = Bad) \/ (e \in S /\ \A f \in S \ {e} : Cursor!Before(e, f))
IsLast(e, S) == (S = {} /\ e = Bad) \/ (e \in S /\ \A f \in S \ {e} : Cursor!Before(f, e))

\* The cursor finds it.
LEMMA FirstFound ==
  ASSUME NEW S \in SUBSET (Int \X Int), NEW e, IsFirst(e, S)
  PROVE  e = Cursor!FirstOf(S)
<1>1. CASE S = {}
  BY <1>1 DEF IsFirst, Cursor!FirstOf
<1>2. CASE S # {}
  <2>1. e \in S /\ \A f \in S \ {e} : Cursor!Before(e, f)
    BY <1>2 DEF IsFirst
  <2>2. ASSUME NEW g \in S, \A f \in S \ {g} : Cursor!Before(g, f) PROVE g = e
    <3>1. g # e => Cursor!Before(g, e) /\ Cursor!Before(e, g)
      BY <2>1, <2>2
    <3>2. e[1] \in Int /\ e[2] \in Int /\ g[1] \in Int /\ g[2] \in Int
      BY <2>1
    <3> QED BY <3>1, <3>2 DEF Cursor!Before
  <2>3. Cursor!FirstOf(S) = CHOOSE g \in S : \A f \in S \ {g} : Cursor!Before(g, f)
    BY <1>2 DEF Cursor!FirstOf
  <2> QED BY <2>1, <2>2, <2>3
<1> QED BY <1>1, <1>2

LEMMA LastFound ==
  ASSUME NEW S \in SUBSET (Int \X Int), NEW e, IsLast(e, S)
  PROVE  e = Cursor!LastOf(S)
<1>1. CASE S = {}
  BY <1>1 DEF IsLast, Cursor!LastOf
<1>2. CASE S # {}
  <2>1. e \in S /\ \A f \in S \ {e} : Cursor!Before(f, e)
    BY <1>2 DEF IsLast
  <2>2. ASSUME NEW g \in S, \A f \in S \ {g} : Cursor!Before(f, g) PROVE g = e
    <3>1. g # e => Cursor!Before(g, e) /\ Cursor!Before(e, g)
      BY <2>1, <2>2
    <3>2. e[1] \in Int /\ e[2] \in Int /\ g[1] \in Int /\ g[2] \in Int
      BY <2>1
    <3> QED BY <3>1, <3>2 DEF Cursor!Before
  <2>3. Cursor!LastOf(S) = CHOOSE g \in S : \A f \in S \ {g} : Cursor!Before(f, g)
    BY <1>2 DEF Cursor!LastOf
  <2> QED BY <2>1, <2>2, <2>3
<1> QED BY <1>1, <1>2

\* Entries are pairs of a key and a child that holds it.
LEMMA EntriesArePairs ==
  ASSUME MergeTypes
  PROVE  /\ Entries \in SUBSET (Int \X Int)
         /\ \A e \in Entries : e = <<e[1], e[2]>> /\ e[2] \in Children /\ e[1] \in run[e[2]]
         /\ \A i \in Children : \A x \in run[i] : <<x, i>> \in Entries
         /\ \A B : Within(B) \in SUBSET (Int \X Int)
<1>k. Keys \subseteq Int /\ Children \subseteq Int
  BY MergerAssumption DEF Children
<1>1. \A e \in Entries : e = <<e[1], e[2]>> /\ e[2] \in Children /\ e[1] \in run[e[2]]
  BY DEF Entries
<1>2. Entries \in SUBSET (Int \X Int)
  BY <1>k DEF Entries
<1>3. ASSUME NEW i \in Children, NEW x \in run[i] PROVE <<x, i>> \in Entries
  <2>1. x \in Keys
    BY DEF MergeTypes
  <2> QED BY <2>1 DEF Entries
<1>4. \A B : Within(B) \in SUBSET (Int \X Int)
  BY <1>2 DEF Within
<1> QED BY <1>1, <1>2, <1>3, <1>4

\* When each child is at its first entry in B, the first child with the smallest
\* key is at the first entry of all in B, and each child is at its first entry
\* from there on.
LEMMA ForwardMove ==
  ASSUME MergeTypes, NEW B \in [Children -> SUBSET Int], UpClosed(B),
         NEW p \in [Children -> Keys \union {Bad}],
         \A i \in Children : IsLeast(p[i], run[i] \cap B[i]),
         NEW c, c = FindSmallest(p)
  PROVE  /\ IsFirst(IF c # NoChild THEN <<p[c], c>> ELSE Bad, Within(B))
         /\ c # NoChild => \A i \in Children : IsLeast(p[i], Above(i, p[c], c))
<1>k. Keys \subseteq Int /\ Bad \notin Int /\ NoChild \notin Int /\ Children \subseteq Int
  BY MergerAssumption DEF Children
<1>r. \A i \in Children : run[i] \subseteq Int
  BY <1>k DEF MergeTypes
<1>1. CASE c = NoChild /\ \A i \in Children : p[i] = Bad
  <2>1. \A i \in Children : run[i] \cap B[i] = {}
    BY <1>1, <1>k, <1>r DEF IsLeast
  <2>2. Within(B) = {}
    BY <2>1, EntriesArePairs DEF Within
  <2> QED BY <1>1, <2>2 DEF IsFirst
<1>2. CASE /\ c \in Children /\ p[c] \in Keys
           /\ \A j \in Children : p[j] # Bad => p[c] < p[j] \/ (p[c] = p[j] /\ c <= j)
  <2>0. c # NoChild
    BY <1>2, <1>k
  <2>1. PICK k \in Int : k = p[c] /\ k # Bad
    BY <1>2, <1>k
  <2>2. k \in run[c] \cap B[c]
    BY <1>2, <2>1 DEF IsLeast
  <2>3. ASSUME NEW i \in Children, NEW x \in run[i] \cap B[i] PROVE k < x \/ (k = x /\ c <= i)
    <3>1. p[i] \in run[i] \cap B[i] /\ p[i] <= x
      BY <2>3 DEF IsLeast
    <3>2. p[i] \in Int /\ x \in Int /\ p[i] # Bad
      BY <3>1, <1>r, <1>k
    <3>3. k < p[i] \/ (k = p[i] /\ c <= i)
      BY <1>2, <2>1, <3>2
    <3>4. c \in Int /\ i \in Int
      BY <1>2, <1>k
    <3> QED BY <3>1, <3>2, <3>3, <3>4
  <2>4. IsFirst(<<k, c>>, Within(B))
    <3>1. <<k, c>> \in Within(B)
      BY <1>2, <2>2, EntriesArePairs DEF Within
    <3>2. ASSUME NEW f \in Within(B), f # <<k, c>> PROVE Cursor!Before(<<k, c>>, f)
      <4>1. f = <<f[1], f[2]>> /\ f[2] \in Children /\ f[1] \in run[f[2]] \cap B[f[2]]
        BY EntriesArePairs DEF Within
      <4>2. k < f[1] \/ (k = f[1] /\ c <= f[2])
        BY <4>1, <2>3
      <4>3. f[1] # k \/ f[2] # c
        BY <3>2, <4>1
      <4>4. f[1] \in Int /\ f[2] \in Int /\ c \in Int
        BY <1>2, <4>1, <1>r, <1>k
      <4>5. <<k, c>>[1] = k /\ <<k, c>>[2] = c
        OBVIOUS
      <4> QED BY <4>2, <4>3, <4>4, <4>5 DEF Cursor!Before
    <3> QED BY <3>1, <3>2 DEF IsFirst
  <2>5. ASSUME NEW i \in Children PROVE Above(i, k, c) = run[i] \cap B[i]
    <3>1. \A x \in run[i] \cap B[i] : k < x \/ (k = x /\ c <= i)
      BY <2>3
    <3>2. c \in Int /\ i \in Int /\ run[i] \subseteq Int
      BY <1>2, <1>k, <1>r
    <3>3. \A x \in run[i] \cap B[i] : x > k \/ (x = k /\ i >= c)
      BY <3>1, <3>2
    <3>4. ASSUME NEW x \in run[i], x > k \/ (x = k /\ i >= c) PROVE x \in B[i]
      BY <1>2, <2>2, <3>2, <3>4 DEF UpClosed
    <3> QED BY <3>3, <3>4 DEF Above
  <2>6. \A i \in Children : IsLeast(p[i], Above(i, k, c))
    BY <2>5
  <2> QED BY <2>0, <2>1, <2>4, <2>6
<1> QED BY <1>1, <1>2, SmallestFound

\* The same downwards.
LEMMA ReverseMove ==
  ASSUME MergeTypes, NEW B \in [Children -> SUBSET Int], DownClosed(B),
         NEW p \in [Children -> Keys \union {Bad}],
         \A i \in Children : IsGreatest(p[i], run[i] \cap B[i]),
         NEW c, c = FindLargest(p)
  PROVE  /\ IsLast(IF c # NoChild THEN <<p[c], c>> ELSE Bad, Within(B))
         /\ c # NoChild => \A i \in Children : IsGreatest(p[i], Below(i, p[c], c))
<1>k. Keys \subseteq Int /\ Bad \notin Int /\ NoChild \notin Int /\ Children \subseteq Int
  BY MergerAssumption DEF Children
<1>r. \A i \in Children : run[i] \subseteq Int
  BY <1>k DEF MergeTypes
<1>1. CASE c = NoChild /\ \A i \in Children : p[i] = Bad
  <2>1. \A i \in Children : run[i] \cap B[i] = {}
    BY <1>1, <1>k, <1>r DEF IsGreatest
  <2>2. Within(B) = {}
    BY <2>1, EntriesArePairs DEF Within
  <2> QED BY <1>1, <2>2 DEF IsLast
<1>2. CASE /\ c \in Children /\ p[c] \in Keys
           /\ \A j \in Children : p[j] # Bad => p[c] > p[j] \/ (p[c] = p[j] /\ c >= j)
  <2>0. c # NoChild
    BY <1>2, <1>k
  <2>1. PICK k \in Int : k = p[c] /\ k # Bad
    BY <1>2, <1>k
  <2>2. k \in run[c] \cap B[c]
    BY <1>2, <2>1 DEF IsGreatest
  <2>3. ASSUME NEW i \in Children, NEW x \in run[i] \cap B[i] PROVE k > x \/ (k = x /\ c >= i)
    <3>1. p[i] \in run[i] \cap B[i] /\ p[i] >= x
      BY <2>3 DEF IsGreatest
    <3>2. p[i] \in Int /\ x \in Int /\ p[i] # Bad
      BY <3>1, <1>r, <1>k
    <3>3. k > p[i] \/ (k = p[i] /\ c >= i)
      BY <1>2, <2>1, <3>2
    <3>4. c \in Int /\ i \in Int
      BY <1>2, <1>k
    <3> QED BY <3>1, <3>2, <3>3, <3>4
  <2>4. IsLast(<<k, c>>, Within(B))
    <3>1. <<k, c>> \in Within(B)
      BY <1>2, <2>2, EntriesArePairs DEF Within
    <3>2. ASSUME NEW f \in Within(B), f # <<k, c>> PROVE Cursor!Before(f, <<k, c>>)
      <4>1. f = <<f[1], f[2]>> /\ f[2] \in Children /\ f[1] \in run[f[2]] \cap B[f[2]]
        BY EntriesArePairs DEF Within
      <4>2. k > f[1] \/ (k = f[1] /\ c >= f[2])
        BY <4>1, <2>3
      <4>3. f[1] # k \/ f[2] # c
        BY <3>2, <4>1
      <4>4. f[1] \in Int /\ f[2] \in Int /\ c \in Int
        BY <1>2, <4>1, <1>r, <1>k
      <4>5. <<k, c>>[1] = k /\ <<k, c>>[2] = c
        OBVIOUS
      <4> QED BY <4>2, <4>3, <4>4, <4>5 DEF Cursor!Before
    <3> QED BY <3>1, <3>2 DEF IsLast
  <2>5. ASSUME NEW i \in Children PROVE Below(i, k, c) = run[i] \cap B[i]
    <3>1. \A x \in run[i] \cap B[i] : k > x \/ (k = x /\ c >= i)
      BY <2>3
    <3>2. c \in Int /\ i \in Int /\ run[i] \subseteq Int
      BY <1>2, <1>k, <1>r
    <3>3. \A x \in run[i] \cap B[i] : x < k \/ (x = k /\ i <= c)
      BY <3>1, <3>2
    <3>4. ASSUME NEW x \in run[i], x < k \/ (x = k /\ i <= c) PROVE x \in B[i]
      BY <1>2, <2>2, <3>2, <3>4 DEF DownClosed
    <3> QED BY <3>3, <3>4 DEF Below
  <2>6. \A i \in Children : IsGreatest(p[i], Below(i, k, c))
    BY <2>5
  <2> QED BY <2>0, <2>1, <2>4, <2>6
<1> QED BY <1>1, <1>2, LargestFound

\* What a child's method finds is its first or last entry in a closed set.
LEMMA ChildMoves ==
  ASSUME MergeTypes, NEW i \in Children, NEW k \in Int
  PROVE  /\ IsLeast(ChildFirst(i), run[i] \cap Int)
         /\ IsLeast(ChildSeek(i, k), run[i] \cap {x \in Int : x >= k})
         /\ IsLeast(ChildNext(i, k), run[i] \cap {x \in Int : x > k})
         /\ IsGreatest(ChildLast(i), run[i] \cap Int)
         /\ IsGreatest(ChildPrev(i, k), run[i] \cap {x \in Int : x < k})
<1>r. run[i] \subseteq Int /\ IsFiniteSet(run[i])
  BY MergerAssumption, FS_Subset DEF MergeTypes
<1>s. \A S \in SUBSET run[i] : S \in SUBSET Int /\ IsFiniteSet(S)
  BY <1>r, FS_Subset
<1>l. \A S \in SUBSET run[i] : IsLeast(Least(S), S) /\ IsGreatest(Greatest(S), S)
  BY <1>s, LeastFound, GreatestFound
<1>1. IsLeast(ChildFirst(i), run[i] \cap Int) /\ IsGreatest(ChildLast(i), run[i] \cap Int)
  <2>1. run[i] \cap Int = run[i]
    BY <1>r
  <2> QED BY <2>1, <1>l DEF ChildFirst, ChildLast
<1>2. IsLeast(ChildSeek(i, k), run[i] \cap {x \in Int : x >= k})
  <2>1. run[i] \cap {x \in Int : x >= k} = {x \in run[i] : x >= k}
    BY <1>r
  <2> QED BY <2>1, <1>l DEF ChildSeek
<1>3. IsLeast(ChildNext(i, k), run[i] \cap {x \in Int : x > k})
  <2>1. run[i] \cap {x \in Int : x > k} = {x \in run[i] : x > k}
    BY <1>r
  <2> QED BY <2>1, <1>l DEF ChildNext
<1>4. IsGreatest(ChildPrev(i, k), run[i] \cap {x \in Int : x < k})
  <2>1. run[i] \cap {x \in Int : x < k} = {x \in run[i] : x < k}
    BY <1>r
  <2> QED BY <2>1, <1>l DEF ChildPrev
<1> QED BY <1>1, <1>2, <1>3, <1>4

\* Where a move to the first, or to the last, entry of S leaves the iterator.
LandsFirst(S) ==
  /\ MergeInv' /\ At' \in Entries \union {Bad} /\ direction' = "forward"
  /\ failed' = {} => At' = Cursor!FirstOf(S)
LandsLast(S) ==
  /\ MergeInv' /\ At' \in Entries \union {Bad} /\ direction' = "reverse"
  /\ failed' = {} => At' = Cursor!LastOf(S)

\* A move that has put the children at p, with every child at its first entry in
\* B, unless one has failed.
LEMMA LandsForward ==
  ASSUME MergeTypes, NEW B \in [Children -> SUBSET Int], UpClosed(B),
         NEW p \in [Children -> Keys \union {Bad}],
         \A i \in Children : p[i] \in run[i] \union {Bad},
         pos' = p, run' = run, direction' = "forward", current' = FindSmallest(p),
         failed' \subseteq Children,
         failed' = {} => \A i \in Children : IsLeast(p[i], run[i] \cap B[i])
  PROVE  LandsFirst(Within(B))
<1>1. MergeTypes'
  BY DEF MergeTypes, Children
<1>2. current' # NoChild => current' \in Children /\ p[current'] # Bad
  BY SmallestFound, MergerAssumption
<1>3. At' = IF current' # NoChild THEN <<p[current'], current'>> ELSE Bad
  BY DEF At, key, Valid
<1>4. At' \in Entries \union {Bad}
  BY <1>2, <1>3, EntriesArePairs
<1>5. ASSUME failed' = {}
      PROVE  /\ IsFirst(At', Within(B))
             /\ current' # NoChild => \A i \in Children : IsLeast(p[i], Above(i, p[current'], current'))
  <2>1. \A i \in Children : IsLeast(p[i], run[i] \cap B[i])
    BY <1>5
  <2>2. \A c : c = FindSmallest(p) =>
           /\ IsFirst(IF c # NoChild THEN <<p[c], c>> ELSE Bad, Within(B))
           /\ c # NoChild => \A i \in Children : IsLeast(p[i], Above(i, p[c], c))
    BY <2>1, ForwardMove
  <2> QED BY <1>3, <2>2
<1>6. Aligned'
  <2>1. \A i, k, c : Above(i, k, c)' = Above(i, k, c)
    BY DEF Above
  <2> QED BY <1>5, <2>1 DEF Aligned, Valid, Children, IsLeast, Above
<1>7. failed' = {} => At' = Cursor!FirstOf(Within(B))
  BY <1>5, EntriesArePairs, FirstFound
<1> QED BY <1>1, <1>4, <1>6, <1>7 DEF MergeInv, LandsFirst

\* The same for Reposition, whose moves may fail.
LEMMA RepositionForward ==
  ASSUME MergeTypes, NEW B \in [Children -> SUBSET Int], UpClosed(B),
         NEW p \in [Children -> Keys \union {Bad}],
         \A i \in Children : p[i] \in run[i] \union {Bad},
         NEW F, Reposition(p, F, "forward"),
         failed = {} => \A i \in Children : IsLeast(p[i], run[i] \cap B[i])
  PROVE  LandsFirst(Within(B))
<1>1. /\ F \subseteq Children /\ failed' = failed \union F /\ run' = run /\ direction' = "forward"
      /\ pos' = [i \in Children |-> IF i \in F THEN Bad ELSE p[i]] /\ current' = FindSmallest(pos')
  BY DEF Reposition
<1>2. failed' \subseteq Children
  BY <1>1 DEF MergeTypes
<1>3. pos' \in [Children -> Keys \union {Bad}] /\ \A i \in Children : pos'[i] \in run[i] \union {Bad}
  BY <1>1
<1>4. failed' = {} => \A i \in Children : IsLeast(pos'[i], run[i] \cap B[i])
  BY <1>1
<1> QED BY <1>1, <1>2, <1>3, <1>4, LandsForward

\* A move that has put the children at p, with every child at its last entry in
\* B, unless one has failed.
LEMMA LandsReverse ==
  ASSUME MergeTypes, NEW B \in [Children -> SUBSET Int], DownClosed(B),
         NEW p \in [Children -> Keys \union {Bad}],
         \A i \in Children : p[i] \in run[i] \union {Bad},
         pos' = p, run' = run, direction' = "reverse", current' = FindLargest(p),
         failed' \subseteq Children,
         failed' = {} => \A i \in Children : IsGreatest(p[i], run[i] \cap B[i])
  PROVE  LandsLast(Within(B))
<1>1. MergeTypes'
  BY DEF MergeTypes, Children
<1>2. current' # NoChild => current' \in Children /\ p[current'] # Bad
  BY LargestFound, MergerAssumption
<1>3. At' = IF current' # NoChild THEN <<p[current'], current'>> ELSE Bad
  BY DEF At, key, Valid
<1>4. At' \in Entries \union {Bad}
  BY <1>2, <1>3, EntriesArePairs
<1>5. ASSUME failed' = {}
      PROVE  /\ IsLast(At', Within(B))
             /\ current' # NoChild => \A i \in Children : IsGreatest(p[i], Below(i, p[current'], current'))
  <2>1. \A i \in Children : IsGreatest(p[i], run[i] \cap B[i])
    BY <1>5
  <2>2. \A c : c = FindLargest(p) =>
           /\ IsLast(IF c # NoChild THEN <<p[c], c>> ELSE Bad, Within(B))
           /\ c # NoChild => \A i \in Children : IsGreatest(p[i], Below(i, p[c], c))
    BY <2>1, ReverseMove
  <2> QED BY <1>3, <2>2
<1>6. Aligned'
  <2>1. \A i, k, c : Below(i, k, c)' = Below(i, k, c)
    BY DEF Below
  <2> QED BY <1>5, <2>1 DEF Aligned, Valid, Children, IsGreatest, Below
<1>7. failed' = {} => At' = Cursor!LastOf(Within(B))
  BY <1>5, EntriesArePairs, LastFound
<1> QED BY <1>1, <1>4, <1>6, <1>7 DEF MergeInv, LandsLast

\* The same for Reposition, whose moves may fail.
LEMMA RepositionReverse ==
  ASSUME MergeTypes, NEW B \in [Children -> SUBSET Int], DownClosed(B),
         NEW p \in [Children -> Keys \union {Bad}],
         \A i \in Children : p[i] \in run[i] \union {Bad},
         NEW F, Reposition(p, F, "reverse"),
         failed = {} => \A i \in Children : IsGreatest(p[i], run[i] \cap B[i])
  PROVE  LandsLast(Within(B))
<1>1. /\ F \subseteq Children /\ failed' = failed \union F /\ run' = run /\ direction' = "reverse"
      /\ pos' = [i \in Children |-> IF i \in F THEN Bad ELSE p[i]] /\ current' = FindLargest(pos')
  BY DEF Reposition
<1>2. failed' \subseteq Children
  BY <1>1 DEF MergeTypes
<1>3. pos' \in [Children -> Keys \union {Bad}] /\ \A i \in Children : pos'[i] \in run[i] \union {Bad}
  BY <1>1
<1>4. failed' = {} => \A i \in Children : IsGreatest(pos'[i], run[i] \cap B[i])
  BY <1>1
<1> QED BY <1>1, <1>2, <1>3, <1>4, LandsReverse

-----------------------------------------------------------------------------
\* A child is at one of its own entries, or at none.
LEMMA ChildPositions ==
  ASSUME MergeTypes, NEW i \in Children
  PROVE  /\ \A x, B : IsLeast(x, run[i] \cap B) => x \in run[i] \union {Bad}
         /\ \A x, B : IsGreatest(x, run[i] \cap B) => x \in run[i] \union {Bad}
         /\ run[i] \subseteq Keys
BY DEF MergeTypes, IsLeast, IsGreatest

\* key() is an entry of the current child.
LEMMA KeyOfCurrent ==
  ASSUME MergeTypes, Valid
  PROVE  /\ current \in Children /\ current \in Int /\ key = pos[current]
         /\ key \in run[current] /\ key \in Int /\ key # Bad
         /\ At = <<key, current>> /\ At \in Entries
<1>1. current \in Children /\ pos[current] \in Keys
  <2>1. pos \in [Children -> Keys \union {Bad}]
    BY DEF MergeTypes
  <2>2. direction = "forward" \/ direction = "reverse"
    BY DEF MergeTypes
  <2>3. CASE direction = "forward"
    BY <2>1, <2>3, SmallestFound DEF MergeTypes, Valid
  <2>4. CASE direction = "reverse"
    BY <2>1, <2>4, LargestFound DEF MergeTypes, Valid
  <2> QED BY <2>2, <2>3, <2>4
<1>2. key = pos[current] /\ current \in Int
  BY <1>1, MergerAssumption DEF key, Children
<1>3. key \in Int /\ key # Bad
  BY <1>1, <1>2, MergerAssumption
<1>4. key \in run[current]
  BY <1>1, <1>2, <1>3 DEF MergeTypes
<1>5. At = <<key, current>>
  BY DEF At
<1>6. At \in Entries
  BY <1>1, <1>4, <1>5, EntriesArePairs
<1> QED BY <1>1, <1>2, <1>3, <1>4, <1>5, <1>6

\* The moves to either end and to a key.
LEMMA SeekToFirstLands ==
  ASSUME MergeTypes, NEW F, SeekToFirst(F)
  PROVE  LandsFirst(Entries)
<1> DEFINE p == [i \in Children |-> ChildFirst(i)]
           B == [i \in Children |-> Int]
<1>1. \A i \in Children : IsLeast(p[i], run[i] \cap B[i])
  <2>1. \A i \in Children, k \in Int : IsLeast(ChildFirst(i), run[i] \cap Int)
    BY ChildMoves
  <2>2. \A i \in Children : IsLeast(ChildFirst(i), run[i] \cap Int)
    <3>1. 0 \in Int
      OBVIOUS
    <3> QED BY <2>1, <3>1, Zenon
  <2> QED BY <2>2
<1>2. \A i \in Children : p[i] \in run[i] \union {Bad} /\ p[i] \in Keys \union {Bad}
  <2> HIDE DEF B, p
  <2> QED BY <1>1, ChildPositions
<1>3. p \in [Children -> Keys \union {Bad}]
  BY <1>2
<1>4. Reposition(p, F, "forward")
  BY DEF SeekToFirst
<1>5. Within(B) = Entries
  BY EntriesArePairs DEF Within
<1>6. B \in [Children -> SUBSET Int] /\ UpClosed(B)
  BY DEF UpClosed
<1>7. LandsFirst(Within(B))
  <2> HIDE DEF p, B
  <2> QED BY <1>1, <1>2, <1>3, <1>4, <1>6, RepositionForward
<1> QED BY <1>5, <1>7 DEF LandsFirst

LEMMA SeekToLastLands ==
  ASSUME MergeTypes, NEW F, SeekToLast(F)
  PROVE  LandsLast(Entries)
<1> DEFINE p == [i \in Children |-> ChildLast(i)]
           B == [i \in Children |-> Int]
<1>1. \A i \in Children : IsGreatest(p[i], run[i] \cap B[i])
  <2>1. \A i \in Children, k \in Int : IsGreatest(ChildLast(i), run[i] \cap Int)
    BY ChildMoves
  <2>2. \A i \in Children : IsGreatest(ChildLast(i), run[i] \cap Int)
    <3>1. 0 \in Int
      OBVIOUS
    <3> QED BY <2>1, <3>1, Zenon
  <2> QED BY <2>2
<1>2. \A i \in Children : p[i] \in run[i] \union {Bad} /\ p[i] \in Keys \union {Bad}
  <2> HIDE DEF B, p
  <2> QED BY <1>1, ChildPositions
<1>3. p \in [Children -> Keys \union {Bad}]
  BY <1>2
<1>4. Reposition(p, F, "reverse")
  BY DEF SeekToLast
<1>5. Within(B) = Entries
  BY EntriesArePairs DEF Within
<1>6. B \in [Children -> SUBSET Int] /\ DownClosed(B)
  BY DEF DownClosed
<1>7. LandsLast(Within(B))
  <2> HIDE DEF p, B
  <2> QED BY <1>1, <1>2, <1>3, <1>4, <1>6, RepositionReverse
<1> QED BY <1>5, <1>7 DEF LandsLast

LEMMA SeekLands ==
  ASSUME MergeTypes, NEW F, NEW k \in Keys, Seek(k, F)
  PROVE  LandsFirst({e \in Entries : e[1] >= k})
<1>k. k \in Int
  BY MergerAssumption
<1> DEFINE p == [i \in Children |-> ChildSeek(i, k)]
           B == [i \in Children |-> {x \in Int : x >= k}]
<1>1. \A i \in Children : IsLeast(p[i], run[i] \cap B[i])
  BY <1>k, ChildMoves
<1>2. \A i \in Children : p[i] \in run[i] \union {Bad} /\ p[i] \in Keys \union {Bad}
  <2> HIDE DEF B, p
  <2> QED BY <1>1, ChildPositions
<1>3. p \in [Children -> Keys \union {Bad}]
  BY <1>2
<1>4. Reposition(p, F, "forward")
  BY DEF Seek
<1>5. Within(B) = {e \in Entries : e[1] >= k}
  BY EntriesArePairs DEF Within
<1>6. B \in [Children -> SUBSET Int] /\ UpClosed(B)
  BY <1>k DEF UpClosed
<1>7. LandsFirst(Within(B))
  <2> HIDE DEF p, B
  <2> QED BY <1>1, <1>2, <1>3, <1>4, <1>6, RepositionForward
<1> QED BY <1>5, <1>7 DEF LandsFirst

-----------------------------------------------------------------------------
\* Next while moving forwards: every other child is at its first entry behind the
\* current one already.
LEMMA NextAhead ==
  ASSUME MergeInv, Valid, direction = "forward", NEW F,
         Reposition([pos EXCEPT ![current] = ChildNext(current, key)], F, "forward")
  PROVE  LandsFirst({e \in Entries : Cursor!Before(At, e)})
<1>t. MergeTypes
  BY DEF MergeInv
<1>c. /\ current \in Children /\ current \in Int /\ key = pos[current]
      /\ key \in Int /\ At = <<key, current>>
  BY <1>t, KeyOfCurrent
<1>i. Children \subseteq Int /\ \A i \in Children : run[i] \subseteq Int
  <2>1. Children \subseteq Int
    BY MergerAssumption DEF Children
  <2>2. \A i \in Children : run[i] \subseteq Int
    BY <1>t, MergerAssumption DEF MergeTypes
  <2> QED BY <2>1, <2>2
<1> DEFINE B == [i \in Children |-> {x \in Int : x > key \/ (x = key /\ i > current)}]
           p == [pos EXCEPT ![current] = ChildNext(current, key)]
<1>b. B \in [Children -> SUBSET Int] /\ UpClosed(B)
  BY <1>c, <1>i DEF UpClosed
<1>e. Within(B) = {e \in Entries : Cursor!Before(At, e)}
  <2>1. ASSUME NEW e \in Entries PROVE e[1] \in B[e[2]] <=> Cursor!Before(At, e)
    <3>1. e[2] \in Children /\ e[1] \in Int /\ e[2] \in Int
      BY <1>t, <1>i, EntriesArePairs
    <3>2. At[1] = key /\ At[2] = current
      BY <1>c
    <3> QED BY <3>1, <3>2, <1>c DEF Cursor!Before
  <2> HIDE DEF B
  <2> QED BY <2>1 DEF Within
<1>o. \A i \in Children : i # current => run[i] \cap B[i] = Above(i, pos[current], current)
  BY <1>c, <1>i DEF Above
<1>n. IsLeast(ChildNext(current, key), run[current] \cap B[current])
  <2>1. IsLeast(ChildNext(current, key), run[current] \cap {x \in Int : x > key})
    BY <1>t, <1>c, ChildMoves
  <2>2. B[current] = {x \in Int : x > key}
    BY <1>c
  <2> QED BY <2>1, <2>2
<1> HIDE DEF B
<1>2. pos = [i \in Children |-> pos[i]] /\ \A i \in Children : pos[i] \in run[i] \union {Bad}
  BY <1>t DEF MergeTypes
<1>3. p[current] = ChildNext(current, key) /\ \A i \in Children : i # current => p[i] = pos[i]
  BY <1>2, <1>c
<1>4. p = [i \in Children |-> p[i]]
  BY <1>2
<1>1. Reposition(p, F, "forward")
  OBVIOUS
<1> HIDE DEF p
<1>5. \A i \in Children : p[i] \in run[i] \union {Bad}
  <2>1. ChildNext(current, key) \in run[current] \union {Bad}
    BY <1>t, <1>c, <1>n, ChildPositions
  <2> QED BY <1>2, <1>3, <2>1
<1>6. ASSUME failed = {}, NEW i \in Children PROVE IsLeast(p[i], run[i] \cap B[i])
  <2>1. CASE i = current
    BY <2>1, <1>3, <1>n
  <2>2. CASE i # current
    <3>1. IsLeast(pos[i], Above(i, pos[current], current))
      BY <1>6 DEF MergeInv, Aligned
    <3> QED BY <3>1, <2>2, <1>3, <1>o
  <2> QED BY <2>1, <2>2
<1>7. p \in [Children -> Keys \union {Bad}]
  <2>1. \A i \in Children : p[i] \in Keys \union {Bad}
    BY <1>t, <1>5, ChildPositions
  <2> QED BY <1>4, <2>1
<1>8. LandsFirst(Within(B))
  BY <1>t, <1>b, <1>1, <1>5, <1>6, <1>7, RepositionForward
<1> QED BY <1>e, <1>8 DEF LandsFirst

\* Prev while moving backwards.
LEMMA PrevAhead ==
  ASSUME MergeInv, Valid, direction = "reverse", NEW F,
         Reposition([pos EXCEPT ![current] = ChildPrev(current, key)], F, "reverse")
  PROVE  LandsLast({e \in Entries : Cursor!Before(e, At)})
<1>t. MergeTypes
  BY DEF MergeInv
<1>c. /\ current \in Children /\ current \in Int /\ key = pos[current]
      /\ key \in Int /\ At = <<key, current>>
  BY <1>t, KeyOfCurrent
<1>i. Children \subseteq Int /\ \A i \in Children : run[i] \subseteq Int
  <2>1. Children \subseteq Int
    BY MergerAssumption DEF Children
  <2>2. \A i \in Children : run[i] \subseteq Int
    BY <1>t, MergerAssumption DEF MergeTypes
  <2> QED BY <2>1, <2>2
<1> DEFINE B == [i \in Children |-> {x \in Int : x < key \/ (x = key /\ i < current)}]
           p == [pos EXCEPT ![current] = ChildPrev(current, key)]
<1>b. B \in [Children -> SUBSET Int] /\ DownClosed(B)
  BY <1>c, <1>i DEF DownClosed
<1>e. Within(B) = {e \in Entries : Cursor!Before(e, At)}
  <2>1. ASSUME NEW e \in Entries PROVE e[1] \in B[e[2]] <=> Cursor!Before(e, At)
    <3>1. e[2] \in Children /\ e[1] \in Int /\ e[2] \in Int
      BY <1>t, <1>i, EntriesArePairs
    <3>2. At[1] = key /\ At[2] = current
      BY <1>c
    <3> QED BY <3>1, <3>2, <1>c DEF Cursor!Before
  <2> HIDE DEF B
  <2> QED BY <2>1 DEF Within
<1>o. \A i \in Children : i # current => run[i] \cap B[i] = Below(i, pos[current], current)
  BY <1>c, <1>i DEF Below
<1>n. IsGreatest(ChildPrev(current, key), run[current] \cap B[current])
  <2>1. IsGreatest(ChildPrev(current, key), run[current] \cap {x \in Int : x < key})
    BY <1>t, <1>c, ChildMoves
  <2>2. B[current] = {x \in Int : x < key}
    BY <1>c
  <2> QED BY <2>1, <2>2
<1> HIDE DEF B
<1>2. pos = [i \in Children |-> pos[i]] /\ \A i \in Children : pos[i] \in run[i] \union {Bad}
  BY <1>t DEF MergeTypes
<1>3. p[current] = ChildPrev(current, key) /\ \A i \in Children : i # current => p[i] = pos[i]
  BY <1>2, <1>c
<1>4. p = [i \in Children |-> p[i]]
  BY <1>2
<1>1. Reposition(p, F, "reverse")
  OBVIOUS
<1> HIDE DEF p
<1>5. \A i \in Children : p[i] \in run[i] \union {Bad}
  <2>1. ChildPrev(current, key) \in run[current] \union {Bad}
    BY <1>t, <1>c, <1>n, ChildPositions
  <2> QED BY <1>2, <1>3, <2>1
<1>6. ASSUME failed = {}, NEW i \in Children PROVE IsGreatest(p[i], run[i] \cap B[i])
  <2>1. CASE i = current
    BY <2>1, <1>3, <1>n
  <2>2. CASE i # current
    <3>1. IsGreatest(pos[i], Below(i, pos[current], current))
      BY <1>6 DEF MergeInv, Aligned
    <3> QED BY <3>1, <2>2, <1>3, <1>o
  <2> QED BY <2>1, <2>2
<1>7. p \in [Children -> Keys \union {Bad}]
  <2>1. \A i \in Children : p[i] \in Keys \union {Bad}
    BY <1>t, <1>5, ChildPositions
  <2> QED BY <1>4, <2>1
<1>8. LandsLast(Within(B))
  BY <1>t, <1>b, <1>1, <1>5, <1>6, <1>7, RepositionReverse
<1> QED BY <1>e, <1>8 DEF LandsLast

\* Next after moving backwards: the other children are put at their first entry
\* with a larger key, past one that is equal.
LEMMA NextTurns ==
  ASSUME MergeInv, Valid, direction = "reverse", NEW F, Next(F)
  PROVE  LandsFirst({e \in Entries : At[1] < e[1]})
<1>t. MergeTypes
  BY DEF MergeInv
<1>c. /\ current \in Children /\ current \in Int /\ key = pos[current]
      /\ key \in Int /\ key # Bad /\ At = <<key, current>>
  BY <1>t, KeyOfCurrent
<1>i. \A i \in Children : run[i] \subseteq Int
  BY <1>t, MergerAssumption DEF MergeTypes
<1> DEFINE B == [i \in Children |-> {x \in Int : x > key}]
           p == [i \in Children |-> IF i # current /\ ChildSeek(i, key) # key
                                    THEN ChildSeek(i, key)
                                    ELSE ChildNext(i, key)]
<1>b. B \in [Children -> SUBSET Int] /\ UpClosed(B)
  BY <1>c DEF UpClosed
<1>e. Within(B) = {e \in Entries : At[1] < e[1]}
  <2>1. ASSUME NEW e \in Entries PROVE e[1] \in B[e[2]] <=> At[1] < e[1]
    <3>1. e[2] \in Children /\ e[1] \in Int
      BY <1>t, <1>i, EntriesArePairs
    <3>2. At[1] = key
      BY <1>c
    <3> QED BY <3>1, <3>2, <1>c
  <2> HIDE DEF B
  <2> QED BY <2>1 DEF Within
<1>n. \A i \in Children : IsLeast(ChildNext(i, key), run[i] \cap B[i])
  BY <1>t, <1>c, ChildMoves
<1>s. ASSUME NEW i \in Children, ChildSeek(i, key) # key PROVE IsLeast(ChildSeek(i, key), run[i] \cap B[i])
  <2>1. IsLeast(ChildSeek(i, key), run[i] \cap {x \in Int : x >= key})
    BY <1>t, <1>c, ChildMoves
  <2>2. key \notin run[i]
    <3> SUFFICES ASSUME key \in run[i] PROVE FALSE
      OBVIOUS
    <3>1. key \in run[i] \cap {x \in Int : x >= key}
      BY <1>c
    <3>2. ChildSeek(i, key) \in run[i] \cap {x \in Int : x >= key} /\ ChildSeek(i, key) <= key
      BY <2>1, <3>1 DEF IsLeast
    <3> QED BY <3>2, <1>c, <1>s
  <2>3. run[i] \cap B[i] = run[i] \cap {x \in Int : x >= key}
    BY <2>2, <1>c
  <2> QED BY <2>1, <2>3
<1> HIDE DEF B
<1>1. Reposition(p, F, "forward")
  BY DEF Next
<1>2. ASSUME NEW i \in Children PROVE IsLeast(p[i], run[i] \cap B[i])
  BY <1>n, <1>s
<1> HIDE DEF p
<1>3. \A i \in Children : p[i] \in run[i] \union {Bad} /\ p[i] \in Keys \union {Bad}
  BY <1>t, <1>2, ChildPositions
<1>4. p \in [Children -> Keys \union {Bad}]
  BY <1>3 DEF p
<1>5. LandsFirst(Within(B))
  BY <1>t, <1>b, <1>1, <1>2, <1>3, <1>4, RepositionForward
<1> QED BY <1>e, <1>5 DEF LandsFirst

\* Prev after moving forwards: the other children are put at their last entry with
\* a smaller key.  A child that has no entry from key() on is sent to its last
\* one, which is then its last one before key(); a child whose Seek failed is sent
\* there too, but its status is no longer OK.
LEMMA PrevTurns ==
  ASSUME MergeInv, direction = "forward",
         NEW F \in SUBSET Children, NEW G \in SUBSET Children, Prev(F, G)
  PROVE  LandsLast({e \in Entries : e[1] < At[1]})
<1>t. MergeTypes /\ Valid
  BY DEF MergeInv, Prev
<1>c. /\ current \in Children /\ current \in Int /\ key = pos[current]
      /\ key \in Int /\ key # Bad /\ At = <<key, current>>
  BY <1>t, KeyOfCurrent
<1>i. \A i \in Children : run[i] \subseteq Int
  BY <1>t, MergerAssumption DEF MergeTypes
<1> DEFINE B == [i \in Children |-> {x \in Int : x < key}]
           p == [i \in Children |->
                   IF i \in F THEN Bad
                   ELSE IF i # current /\ (i \in G \/ ChildSeek(i, key) = Bad)
                        THEN ChildLast(i) ELSE ChildPrev(i, key)]
<1>b. B \in [Children -> SUBSET Int] /\ DownClosed(B)
  BY <1>c DEF DownClosed
<1>e. Within(B) = {e \in Entries : e[1] < At[1]}
  <2>1. ASSUME NEW e \in Entries PROVE e[1] \in B[e[2]] <=> e[1] < At[1]
    <3>1. e[2] \in Children /\ e[1] \in Int
      BY <1>t, <1>i, EntriesArePairs
    <3>2. At[1] = key
      BY <1>c
    <3> QED BY <3>1, <3>2, <1>c
  <2> HIDE DEF B
  <2> QED BY <2>1 DEF Within
<1>n. \A i \in Children : IsGreatest(ChildPrev(i, key), run[i] \cap B[i])
  BY <1>t, <1>c, ChildMoves
<1>l. \A i \in Children : IsGreatest(ChildLast(i), run[i] \cap Int)
  BY <1>t, <1>c, ChildMoves
<1>s. ASSUME NEW i \in Children, ChildSeek(i, key) = Bad PROVE run[i] \cap B[i] = run[i] \cap Int
  <2>1. IsLeast(Bad, run[i] \cap {x \in Int : x >= key})
    BY <1>t, <1>c, <1>s, ChildMoves
  <2>2. run[i] \cap {x \in Int : x >= key} = {}
    BY <2>1, MergerAssumption DEF IsLeast
  <2> QED BY <2>2, <1>c
<1> HIDE DEF B
<1>1. /\ pos' = p /\ current' = FindLargest(p) /\ failed' = failed \union F \union G
      /\ direction' = "reverse" /\ run' = run
  BY DEF Prev
<1>2. ASSUME NEW i \in Children PROVE p[i] \in run[i] \union {Bad}
  <2>1. ChildLast(i) \in run[i] \union {Bad} /\ ChildPrev(i, key) \in run[i] \union {Bad}
    BY <1>t, <1>n, <1>l, ChildPositions
  <2> QED BY <2>1
<1>3. p \in [Children -> Keys \union {Bad}]
  <2>1. \A i \in Children : p[i] \in Keys \union {Bad}
    <3> HIDE DEF p
    <3> QED BY <1>t, <1>2, ChildPositions
  <2> QED BY <2>1
<1>4. ASSUME failed' = {}, NEW i \in Children PROVE IsGreatest(p[i], run[i] \cap B[i])
  <2>1. i \notin F /\ i \notin G
    BY <1>1, <1>4
  <2>2. CASE i # current /\ ChildSeek(i, key) = Bad
    <3>1. p[i] = ChildLast(i)
      BY <2>1, <2>2
    <3> HIDE DEF p
    <3> QED BY <3>1, <2>2, <1>s, <1>l
  <2>3. CASE ~(i # current /\ ChildSeek(i, key) = Bad)
    <3>1. p[i] = ChildPrev(i, key)
      BY <2>1, <2>3
    <3> HIDE DEF p
    <3> QED BY <3>1, <1>n
  <2> QED BY <2>2, <2>3
<1>5. failed' \subseteq Children
  BY <1>t, <1>1 DEF MergeTypes
<1> HIDE DEF p
<1>6. LandsLast(Within(B))
  BY <1>t, <1>b, <1>1, <1>2, <1>3, <1>4, <1>5, LandsReverse
<1> QED BY <1>e, <1>6 DEF LandsLast

-----------------------------------------------------------------------------
\* Every method keeps the invariant and does to the iterator's place and status()
\* what the cursor over all entries allows.
LEMMA StepOfCursor ==
  ASSUME MergeInv, Step
  PROVE  MergeInv' /\ Cursor!Step
<1>1. PICK F \in SUBSET Children :
        \/ SeekToFirst(F) \/ SeekToLast(F)
        \/ \E k \in Keys : Seek(k, F)
        \/ Next(F)
        \/ \E G \in SUBSET Children : Prev(F, G)
  BY DEF Step
<1>t. MergeTypes /\ direction \in {"forward", "reverse"}
  BY DEF MergeInv, MergeTypes
<1>2. run' = run /\ failed \subseteq failed' /\ failed' \subseteq Children
  <2>1. \A p, dir : Reposition(p, F, dir) => run' = run /\ failed' = failed \union F
    BY DEF Reposition
  <2>2. \A G \in SUBSET Children : Prev(F, G) => run' = run /\ failed' = failed \union F \union G
    BY <2>1 DEF Prev
  <2>3. \E G \in SUBSET Children : run' = run /\ failed' = failed \union F \union G
    BY <1>1, <2>1, <2>2 DEF SeekToFirst, SeekToLast, Seek, Next
  <2> QED BY <1>t, <2>3 DEF MergeTypes
<1>3. Entries' = Entries
  BY <1>2 DEF Entries, Children
<1>5. (failed' = {} => Status' = "ok" /\ Status = "ok") /\ (failed' # {} => Status' = "error")
  BY <1>2 DEF Status, Children
<1>m. ASSUME At' \in Entries \union {Bad},
             failed' = {} => Cursor!Seeks \/ Cursor!Next \/ Cursor!Prev
      PROVE  Cursor!Step
  <2>1. CASE failed' = {}
    BY <1>m, <1>3, <1>5, <2>1 DEF Cursor!Step
  <2>2. CASE failed' # {}
    BY <1>m, <1>3, <1>5, <2>2 DEF Cursor!Step, Cursor!Fail
  <2> QED BY <2>1, <2>2
<1>f. \A S : LandsFirst(S) => /\ MergeInv' /\ At' \in Entries \union {Bad}
                              /\ failed' = {} => Cursor!ToFirstOf(S)
  BY DEF LandsFirst, Cursor!ToFirstOf
<1>l. \A S : LandsLast(S) => /\ MergeInv' /\ At' \in Entries \union {Bad}
                             /\ failed' = {} => Cursor!ToLastOf(S)
  BY DEF LandsLast, Cursor!ToLastOf
<1>6. CASE SeekToFirst(F)
  <2>1. LandsFirst(Entries)
    BY <1>t, <1>6, SeekToFirstLands
  <2> QED BY <2>1, <1>f, <1>m DEF Cursor!Seeks, Cursor!SeekToFirst
<1>7. CASE SeekToLast(F)
  <2>1. LandsLast(Entries)
    BY <1>t, <1>7, SeekToLastLands
  <2> QED BY <2>1, <1>l, <1>m DEF Cursor!Seeks, Cursor!SeekToLast
<1>8. ASSUME NEW k \in Keys, Seek(k, F) PROVE MergeInv' /\ Cursor!Step
  <2>1. LandsFirst({e \in Entries : e[1] >= k})
    BY <1>t, <1>8, SeekLands
  <2> QED BY <2>1, <1>f, <1>m DEF Cursor!Seeks, Cursor!Seek
<1>9. CASE Next(F)
  <2>1. Valid /\ At \in Entries
    BY <1>t, <1>9, KeyOfCurrent DEF Next
  <2>2. CASE direction = "forward"
    <3>1. LandsFirst({e \in Entries : Cursor!Before(At, e)})
      BY <1>9, <2>1, <2>2, NextAhead DEF Next
    <3> QED BY <2>1, <2>2, <3>1, <1>f, <1>m DEF Cursor!Next, Cursor!ExactNext
  <2>3. CASE direction = "reverse"
    <3>1. LandsFirst({e \in Entries : At[1] < e[1]})
      BY <1>9, <2>1, <2>3, NextTurns
    <3> QED BY <2>1, <2>3, <3>1, <1>f, <1>m DEF Cursor!Next, Cursor!NextKey
  <2> QED BY <1>t, <2>2, <2>3
<1>10. ASSUME NEW G \in SUBSET Children, Prev(F, G) PROVE MergeInv' /\ Cursor!Step
  <2>1. Valid /\ At \in Entries
    BY <1>t, <1>10, KeyOfCurrent DEF Prev
  <2>2. CASE direction = "reverse"
    <3>1. LandsLast({e \in Entries : Cursor!Before(e, At)})
      BY <1>10, <2>1, <2>2, PrevAhead DEF Prev
    <3> QED BY <2>1, <2>2, <3>1, <1>l, <1>m DEF Cursor!Prev, Cursor!ExactPrev
  <2>3. CASE direction = "forward"
    <3>1. LandsLast({e \in Entries : e[1] < At[1]})
      BY <1>10, <2>3, PrevTurns
    <3> QED BY <2>1, <2>3, <3>1, <1>l, <1>m DEF Cursor!Prev, Cursor!PrevKey
  <2> QED BY <1>t, <2>2, <2>3
<1> QED BY <1>1, <1>6, <1>7, <1>8, <1>9, <1>10

\* A new iterator is at no entry, and so are its children.
LEMMA StartOfCursor ==
  ASSUME Init
  PROVE  MergeInv /\ Cursor!Init
<1>1. pos \in [Children -> Keys \union {Bad}] /\ \A i \in Children : pos[i] = Bad
  BY DEF Init
<1>2. FindSmallest(pos) = NoChild
  BY <1>1 DEF FindSmallest
<1>3. MergeTypes
  BY <1>1, <1>2 DEF Init, MergeTypes
<1>4. ~Valid
  BY DEF Init, Valid
<1> QED BY <1>3, <1>4 DEF Init, MergeInv, Aligned, Cursor!Init, At, Status

\* Through any mixture of seeks and steps, for any number of children and any
\* keys, the same one in several children included, and with any children failing,
\* the merging iterator is a cursor over the entries of all children: it skips no
\* key and repeats no entry, passes over an entry only where it turns around on a
\* key that several children hold, and never reports the end of the data with an OK status
\* because a child could not be read.
THEOREM MergesChildren == CSpec => IsMergedCursor
<1>1. CInit => MergeInv /\ Cursor!Init
  BY StartOfCursor DEF CInit
<1>2. ASSUME MergeInv, [CNext]_allVars
      PROVE  MergeInv' /\ [Cursor!Step]_<<Entries, At, direction, Status>>
  <2>1. CASE Use
    BY <1>2, <2>1, StepOfCursor DEF Use
  <2>2. CASE UNCHANGED vars
    BY <1>2, <2>2 DEF vars, MergeInv, MergeTypes, Aligned, Above, Below, Valid, key, At, Entries, Status, Children
  <2>3. Use \/ UNCHANGED vars
    BY <1>2 DEF CNext, RegisterCleanup, DeleteChildren, RunHead, WalkNode, WalkEnd, Dead, allVars
  <2> QED BY <2>1, <2>2, <2>3
<1> QED BY <1>1, <1>2, PTL DEF CSpec, IsMergedCursor, Cursor!Spec

=============================================================================
