----------------------------- MODULE MCLRUCache -----------------------------
(* Instances of LRUCache for TLC: the blocks are interchangeable, so are the *)
(* keys.                                                                     *)
EXTENDS LRUCache, TLC

Symmetry == Permutations(Handles) \union Permutations(Keys)
=============================================================================
