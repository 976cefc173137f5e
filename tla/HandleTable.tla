----------------------------- MODULE HandleTable -----------------------------
(***************************************************************************)
(* The chained hash table of util/cache.cpp.  list_ is an array of chains; *)
(* a chain is the sequence of entries reached through next_hash.  The table*)
(* is only used under LRUCache::mutex_, so every method is one action.     *)
(***************************************************************************)
EXTENDS Naturals, FiniteSets, Sequences, SequencesExt, FiniteSetsExt

CONSTANTS Keys,
          Versions,    \* distinguishes the entries a key may have over time
          Hash,        \* hash of each key (two keys may share a full hash)
          Null

ASSUME HashAssumption == Hash \in [Keys -> Nat]

VARIABLES length,  \* length_
          elems,   \* elems_
          list,    \* list_
          ret      \* entry the last call returned

vars == <<length, elems, list, ret>>

\* An LRUHandle as the table sees it.
Entries == [key : Keys, version : Versions]
KeyOf(h) == h.key

-----------------------------------------------------------------------------
\* hash & (length_ - 1), for a length_ that is a power of two.
Bucket(k, len) == Hash[k] % len

FindByHashOnly(chain, k) ==
  SelectInSeq(chain, LAMBDA h : Hash[h.key] = Hash[k])

\* FindPointer: position in the chain of the entry for k, or 0 for the null
\* pointer at its end.  The code compares the full hash, then the key.
FindPointer(chain, k) ==
  SelectInSeq(chain, LAMBDA h : Hash[h.key] = Hash[k] /\ h.key = k)

At(chain, i) == IF i = 0 THEN Null ELSE chain[i]

\* Resize: new_length is doubled from 4 while it is below elems_ = n.
NewLength(n) ==
  LET Doubled[j \in 0..n] == IF j = 0 THEN 4 ELSE 2 * Doubled[j - 1]
  IN Doubled[Min({j \in 0..n : Doubled[j] >= n})]

\* Every entry, in the order Resize visits the old array.
Traversal(len, lst) == FlattenSeq([i \in 1..len |-> lst[i - 1]])

\* Resize pushes one entry after the other in front of its new chain.
Rehash(len, lst, newLen) ==
  LET t == Traversal(len, lst)
      Moved[n \in 0..Len(t)] ==
        IF n = 0 THEN [b \in 0..(newLen - 1) |-> << >>]
        ELSE [Moved[n - 1] EXCEPT ![Bucket(t[n].key, newLen)] = <<t[n]>> \o @]
  IN Moved[Len(t)]

\* The constructor resizes an array of length zero.
Init ==
  /\ elems = 0
  /\ length = NewLength(0)
  /\ list = [b \in 0..(NewLength(0) - 1) |-> << >>]
  /\ ret = Null

\* Insert's test after it added the n-th entry.
MustResize(n, len) == n > len

\* Insert: an entry with the same key is replaced in place; a new one goes to
\* the end of its chain, and may make the table grow.
Insert(h) ==
  LET b == Bucket(h.key, length)
      i == FindPointer(list[b], h.key)
      linked == [list EXCEPT ![b] = IF i = 0 THEN Append(@, h) ELSE [@ EXCEPT ![i] = h]]
  IN  /\ \A c \in DOMAIN list : ~Contains(list[c], h)
      /\ ret' = At(list[b], i)
      /\ elems' = IF i = 0 THEN elems + 1 ELSE elems
      /\ IF i = 0 /\ MustResize(elems + 1, length)
         THEN /\ length' = NewLength(elems + 1)
              /\ list' = Rehash(length, linked, NewLength(elems + 1))
         ELSE /\ list' = linked
              /\ UNCHANGED length

RemoveKey(k) ==
  LET b == Bucket(k, length)
      i == FindPointer(list[b], k)
  IN  /\ ret' = At(list[b], i)
      /\ list' = IF i = 0 THEN list ELSE [list EXCEPT ![b] = RemoveAt(@, i)]
      /\ elems' = IF i = 0 THEN elems ELSE elems - 1
      /\ UNCHANGED length

Lookup(k) ==
  LET b == Bucket(k, length)
  IN  /\ ret' = At(list[b], FindPointer(list[b], k))
      /\ UNCHANGED <<length, elems, list>>

Next ==
  \/ \E h \in Entries : Insert(h)
  \/ \E k \in Keys : RemoveKey(k)
  \/ \E k \in Keys : Lookup(k)

Spec == Init /\ [][Next]_vars

-----------------------------------------------------------------------------
\* All entries, wherever they are linked.
Linked == UNION {ToSet(list[b]) : b \in DOMAIN list}

\* The entry with key k, whichever chain it hangs on.
Contents == [k \in Keys |-> IF \E h \in Linked : h.key = k
                            THEN CHOOSE h \in Linked : h.key = k ELSE Null]

\* The table is the map LRUCache relies on, results included.
Map == INSTANCE HandleMap WITH map <- Contents

ImplementsMap == Map!Spec
=============================================================================
