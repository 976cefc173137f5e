------------------------------ MODULE HandleMap ------------------------------
(***************************************************************************)
(* What the cache needs of its hash table: a map from keys to entries, and *)
(* the entry each operation returns.  LRUCache is written against this     *)
(* map; HandleTable implements it.                                         *)
(***************************************************************************)
CONSTANTS Keys, Entries, KeyOf(_), Null

VARIABLES map, ret

Init ==
  /\ map = [k \in Keys |-> Null]
  /\ ret = Null

\* Insert returns the entry it displaced.
Insert(h) ==
  /\ ret' = map[KeyOf(h)]
  /\ map' = [map EXCEPT ![KeyOf(h)] = h]

Remove(k) ==
  /\ ret' = map[k]
  /\ map' = [map EXCEPT ![k] = Null]

Lookup(k) ==
  /\ ret' = map[k]
  /\ UNCHANGED map

Next ==
  \/ \E h \in Entries : Insert(h)
  \/ \E k \in Keys : Remove(k) \/ Lookup(k)

Spec == Init /\ [][Next]_<<map, ret>>
=============================================================================
