------------------------- MODULE HandleTable_proofs -------------------------
(***************************************************************************)
(* Proof that the chained hash table implements a map from keys to entries,*)
(* for any keys and any hash function, over any number of resizes.         *)
(***************************************************************************)
EXTENDS HandleTable, SharedLemmas

\* A chain of the table with len chains: its entries belong there, and no two
\* have the same key.
GoodChain(c, b, len) ==
  /\ c \in Seq(Entries)
  /\ \A i \in 1..Len(c) : Bucket(c[i].key, len) = b
  /\ \A i, j \in 1..Len(c) : c[i].key = c[j].key => i = j

Chained(len, lst) ==
  /\ len \in Nat \ {0}
  /\ DOMAIN lst = 0..(len - 1)
  /\ \A b \in 0..(len - 1) : GoodChain(lst[b], b, len)

\* The entries of a table, and the map they make.
LinkedIn(lst) == UNION {ToSet(lst[b]) : b \in DOMAIN lst}
MapOf(lst) == [k \in Keys |-> IF \E h \in LinkedIn(lst) : h.key = k
                              THEN CHOOSE h \in LinkedIn(lst) : h.key = k ELSE Null]

\* new is old with one value exchanged.
Exchanged(new, old, x, v) == new = [y \in DOMAIN old |-> IF y = x THEN v ELSE old[y]]

IInv ==
  /\ Chained(length, list)
  /\ IsFiniteSet(LinkedIn(list)) /\ elems = Cardinality(LinkedIn(list))

-----------------------------------------------------------------------------
\* Each value of f but the first is what g makes of the one before.
Solves(f, a, g, m) == f[0] = a /\ \A n \in 1..m : f[n] = g[<<n, f[n - 1]>>]

\* A recursion that takes a state of S to a state of S in each step has a
\* solution.
LEMMA StepsExist ==
  ASSUME NEW S, NEW a \in S, NEW g \in [Nat \X S -> S], NEW k \in Nat
  PROVE  \E f \in [0..k -> S] : Solves(f, a, g, k)
<1> DEFINE Q == {m \in Nat : \E f \in [0..m -> S] : Solves(f, a, g, m)}
<1>1. 0 \in Q
  <2> DEFINE f == [n \in 0..0 |-> a]
  <2>1. f \in [0..0 -> S] /\ Solves(f, a, g, 0)
    BY DEF Solves
  <2> QED BY <2>1
<1>2. ASSUME NEW m \in Nat, m \in Q PROVE m + 1 \in Q
  <2>1. PICK f \in [0..m -> S] : Solves(f, a, g, m)
    BY <1>2
  <2> DEFINE e == [n \in 0..(m + 1) |-> IF n = m + 1 THEN g[<<n, f[m]>>] ELSE f[n]]
  <2>2. f[m] \in S
    OBVIOUS
  <2>3. e \in [0..(m + 1) -> S]
    BY <2>2
  <2>4. e[0] = a
    BY <2>1 DEF Solves
  <2>5. ASSUME NEW n \in 1..(m + 1) PROVE e[n] = g[<<n, e[n - 1]>>]
    <3>1. CASE n = m + 1
      <4>1. e[n] = g[<<n, f[m]>>] /\ n - 1 = m /\ e[m] = f[m]
        BY <3>1
      <4> HIDE DEF e
      <4> QED BY <4>1
    <3>2. CASE n # m + 1
      <4>1. n \in 1..m /\ e[n] = f[n] /\ e[n - 1] = f[n - 1]
        BY <3>2
      <4> HIDE DEF e
      <4> QED BY <4>1, <2>1 DEF Solves
    <3> QED BY <3>1, <3>2
  <2>6. Solves(e, a, g, m + 1)
    <3> HIDE DEF e
    <3> QED BY <2>4, <2>5 DEF Solves
  <2> HIDE DEF e
  <2> QED BY <2>3, <2>6
<1>3. \A m \in Nat : m \in Q
  <2> HIDE DEF Q
  <2> QED BY <1>1, <1>2, NatSetInduction
<1> QED BY <1>3

-----------------------------------------------------------------------------
\* new_length after each round of Resize's first loop.
Doubling(f, n) == f = [j \in 0..n |-> IF j = 0 THEN 4 ELSE 2 * f[j - 1]]

\* The length as a value of such a function.
LEMMA LengthForm ==
  ASSUME NEW n
  PROVE  LET f == CHOOSE f : Doubling(f, n)
         IN NewLength(n) = f[Min({j \in 0..n : f[j] >= n})]
BY DEF NewLength, Doubling

\* Such a function exists.
LEMMA DoublingExists ==
  ASSUME NEW n \in Nat
  PROVE  \E f : Doubling(f, n)
<1> DEFINE g == [p \in Nat \X Nat |-> 2 * p[2]]
<1>1. g \in [Nat \X Nat -> Nat]
  OBVIOUS
<1>2. PICK f \in [0..n -> Nat] : Solves(f, 4, g, n)
  <2> HIDE DEF g
  <2>1. PICK a \in Nat : a = 4
    OBVIOUS
  <2>2. \E f \in [0..n -> Nat] : Solves(f, a, g, n)
    BY <1>1, StepsExist
  <2> QED BY <2>1, <2>2
<1>3. f[0] = 4 /\ \A j \in 1..n : f[j] = g[<<j, f[j - 1]>>]
  BY <1>2 DEF Solves
<1>4. ASSUME NEW j \in 0..n PROVE f[j] = IF j = 0 THEN 4 ELSE 2 * f[j - 1]
  <2>1. CASE j = 0
    BY <1>3, <2>1
  <2>2. CASE j # 0
    <3>1. j \in 1..n /\ j \in Nat /\ j - 1 \in 0..n
      BY <2>2
    <3>2. f[j] = g[<<j, f[j - 1]>>] /\ f[j - 1] \in Nat
      BY <3>1, <1>3
    <3> QED BY <2>2, <3>1, <3>2
  <2> QED BY <2>1, <2>2
<1>5. f = [j \in 0..n |-> f[j]]
  OBVIOUS
<1>6. Doubling(f, n)
  BY <1>4, <1>5 DEF Doubling
<1> QED BY <1>6

\* Resize's first loop ends, with an array that has a chain for each entry.
LEMMA NewLengthFacts ==
  ASSUME NEW n \in Nat
  PROVE  NewLength(n) \in Nat \ {0} /\ NewLength(n) >= n
<1>1. PICK f : f = (CHOOSE e : Doubling(e, n))
  OBVIOUS
<1>2. Doubling(f, n)
  BY <1>1, DoublingExists
<1>3. f[0] = 4 /\ \A j \in 1..n : f[j] = 2 * f[j - 1]
  BY <1>2 DEF Doubling
<1> DEFINE Q == {j \in Nat : j <= n => f[j] \in Nat /\ f[j] >= j + 4}
<1>4. \A j \in Nat : j \in Q
  <2>1. 0 \in Q
    BY <1>3
  <2>2. ASSUME NEW j \in Nat, j \in Q PROVE j + 1 \in Q
    <3> SUFFICES ASSUME j + 1 <= n PROVE f[j + 1] \in Nat /\ f[j + 1] >= (j + 1) + 4
      OBVIOUS
    <3>1. j + 1 \in 1..n /\ (j + 1) - 1 = j /\ f[j] \in Nat /\ f[j] >= j + 4
      BY <2>2
    <3>2. f[j + 1] = 2 * f[j]
      BY <1>3, <3>1
    <3> QED BY <3>1, <3>2
  <2> HIDE DEF Q
  <2> QED BY <2>1, <2>2, NatSetInduction
<1>5. ASSUME NEW j \in 0..n PROVE f[j] \in Nat /\ f[j] >= j + 4
  BY <1>4
<1> DEFINE Ends == {j \in 0..n : f[j] >= n}
<1>6. Ends \in SUBSET Nat /\ n \in Ends
  BY <1>5
<1>7. Min(Ends) \in Ends
  <2> HIDE DEF Ends
  <2> QED BY <1>6, LeastOfNats
<1>8. NewLength(n) = f[Min(Ends)]
  BY <1>1, LengthForm
<1>9. PICK j \in 0..n : j = Min(Ends) /\ f[j] >= n
  BY <1>7
<1> QED BY <1>5, <1>8, <1>9

-----------------------------------------------------------------------------
\* hash & (length - 1) is the number of a chain.
LEMMA BucketInside ==
  ASSUME NEW k \in Keys, NEW len \in Nat \ {0}
  PROVE  Bucket(k, len) \in 0..(len - 1)
BY HashAssumption DEF Bucket

\* An entry is in the table when it is on one of the chains.
LEMMA LinkedForm ==
  ASSUME NEW len, NEW lst, Chained(len, lst), NEW e
  PROVE  e \in LinkedIn(lst) <=> \E b \in 0..(len - 1) : OnList(lst[b], e)
<1>1. ASSUME NEW b \in 0..(len - 1) PROVE e \in ToSet(lst[b]) <=> OnList(lst[b], e)
  <2>1. PICK c \in Seq(Entries) : c = lst[b]
    BY DEF Chained, GoodChain
  <2>2. e \in ToSet(c) <=> OnList(c, e)
    BY DEF ToSet, OnList
  <2> QED BY <2>1, <2>2
<1>2. e \in LinkedIn(lst) <=> \E b \in 0..(len - 1) : e \in ToSet(lst[b])
  BY DEF LinkedIn, Chained
<1> QED BY <1>1, <1>2

\* An entry is on the chain of its hash, and the only one of its key.
LEMMA EntryFacts ==
  ASSUME NEW len, NEW lst, Chained(len, lst), NEW e \in LinkedIn(lst)
  PROVE  /\ e \in Entries /\ e.key \in Keys
         /\ Bucket(e.key, len) \in 0..(len - 1)
         /\ OnList(lst[Bucket(e.key, len)], e)
         /\ \A d \in LinkedIn(lst) : d.key = e.key => d = e
<1>1. ASSUME NEW d \in LinkedIn(lst)
      PROVE  d \in Entries /\ d.key \in Keys /\ OnList(lst[Bucket(d.key, len)], d)
  <2>1. PICK b \in 0..(len - 1) : OnList(lst[b], d)
    BY <1>1, LinkedForm
  <2>2. GoodChain(lst[b], b, len)
    BY DEF Chained
  <2>3. PICK i \in 1..Len(lst[b]) : lst[b][i] = d
    BY <2>1 DEF OnList
  <2>4. d \in Entries /\ Bucket(d.key, len) = b
    <3>1. PICK c \in Seq(Entries) : c = lst[b]
      BY <2>2 DEF GoodChain
    <3>2. c[i] \in Entries /\ c[i] = d
      BY <3>1, <2>3
    <3> QED BY <3>2, <2>2, <2>3 DEF GoodChain
  <2> QED BY <2>1, <2>4 DEF Entries
<1>2. len \in Nat \ {0}
  BY DEF Chained
<1>3. Bucket(e.key, len) \in 0..(len - 1)
  BY <1>1, <1>2, BucketInside
<1>4. ASSUME NEW d \in LinkedIn(lst), d.key = e.key PROVE d = e
  <2> DEFINE b == Bucket(e.key, len)
  <2>1. OnList(lst[b], e) /\ OnList(lst[b], d)
    BY <1>1, <1>4
  <2>2. PICK i \in 1..Len(lst[b]) : lst[b][i] = e
    BY <2>1 DEF OnList
  <2>3. PICK j \in 1..Len(lst[b]) : lst[b][j] = d
    BY <2>1 DEF OnList
  <2>4. GoodChain(lst[b], b, len)
    BY <1>3 DEF Chained
  <2> HIDE DEF b
  <2>5. i = j
    BY <1>4, <2>2, <2>3, <2>4 DEF GoodChain
  <2> QED BY <2>2, <2>3, <2>5
<1> QED BY <1>1, <1>3, <1>4

\* One chain is exchanged for another good one.
LEMMA OneChain ==
  ASSUME NEW len, NEW lst, Chained(len, lst), NEW b \in 0..(len - 1),
         NEW c, GoodChain(c, b, len), NEW new, Exchanged(new, lst, b, c)
  PROVE  /\ Chained(len, new)
         /\ \A e : e \in LinkedIn(new) <=>
              OnList(c, e) \/ (e \in LinkedIn(lst) /\ ~OnList(lst[b], e))
<1>1. DOMAIN new = 0..(len - 1) /\ new[b] = c
      /\ \A d \in 0..(len - 1) : d # b => new[d] = lst[d]
  BY DEF Chained, Exchanged
<1>2. ASSUME NEW d \in 0..(len - 1) PROVE GoodChain(new[d], d, len)
  BY <1>1 DEF Chained
<1>3. Chained(len, new)
  BY <1>1, <1>2 DEF Chained
<1>4. ASSUME NEW e, e \in LinkedIn(new)
      PROVE  OnList(c, e) \/ (e \in LinkedIn(lst) /\ ~OnList(lst[b], e))
  <2>1. PICK d \in 0..(len - 1) : OnList(new[d], e)
    BY <1>3, <1>4, LinkedForm
  <2>2. CASE d = b
    BY <1>1, <2>1, <2>2
  <2>3. CASE d # b
    <3>1. OnList(lst[d], e)
      BY <1>1, <2>1, <2>3
    <3>2. e \in LinkedIn(lst)
      BY <3>1, LinkedForm
    <3>3. ASSUME OnList(lst[b], e) PROVE FALSE
      <4>1. GoodChain(lst[b], b, len) /\ GoodChain(lst[d], d, len)
        BY DEF Chained
      <4>2. Bucket(e.key, len) = b
        BY <4>1, <3>3 DEF GoodChain, OnList
      <4>3. Bucket(e.key, len) = d
        BY <4>1, <3>1 DEF GoodChain, OnList
      <4> QED BY <4>2, <4>3, <2>3
    <3> QED BY <3>2, <3>3
  <2> QED BY <2>2, <2>3
<1>5. ASSUME NEW e, OnList(c, e) PROVE e \in LinkedIn(new)
  BY <1>1, <1>3, <1>5, LinkedForm
<1>6. ASSUME NEW e, e \in LinkedIn(lst), ~OnList(lst[b], e) PROVE e \in LinkedIn(new)
  <2>1. PICK d \in 0..(len - 1) : OnList(lst[d], e)
    BY <1>6, LinkedForm
  <2>2. d # b
    BY <1>6, <2>1
  <2>3. OnList(new[d], e)
    BY <1>1, <2>1, <2>2
  <2> QED BY <1>3, <2>3, LinkedForm
<1> QED BY <1>3, <1>4, <1>5, <1>6

\* A new entry goes in front of its chain, in Resize.
LEMMA PushKeeps ==
  ASSUME NEW b, NEW len, NEW s, GoodChain(s, b, len),
         NEW h \in Entries, Bucket(h.key, len) = b, \A e : OnList(s, e) => e.key # h.key
  PROVE  /\ GoodChain(<<h>> \o s, b, len)
         /\ \A e : OnList(<<h>> \o s, e) <=> e = h \/ OnList(s, e)
<1>1. PICK c : c = <<h>> \o s
  OBVIOUS
<1>2. s \in Seq(Entries) /\ Len(s) \in Nat
  BY DEF GoodChain
<1>3. c \in Seq(Entries) /\ Len(c) = Len(s) + 1 /\ c[1] = h
      /\ \A i \in 2..(Len(s) + 1) : i - 1 \in 1..Len(s) /\ c[i] = s[i - 1]
  BY <1>1, <1>2
<1>4. \A e : OnList(c, e) <=> e = h \/ OnList(s, e)
  <2>1. ASSUME NEW e, OnList(c, e) PROVE e = h \/ OnList(s, e)
    <3>1. PICK i \in 1..Len(c) : c[i] = e
      BY <2>1 DEF OnList
    <3>2. i = 1 \/ i \in 2..(Len(s) + 1)
      BY <1>2, <1>3
    <3> QED BY <1>3, <3>1, <3>2 DEF OnList
  <2>2. ASSUME NEW e, OnList(s, e) PROVE OnList(c, e)
    <3>1. PICK i \in 1..Len(s) : s[i] = e
      BY <2>2 DEF OnList
    <3>2. i + 1 \in 2..(Len(s) + 1) /\ (i + 1) - 1 = i /\ i + 1 \in 1..Len(c)
      BY <1>2, <1>3
    <3>3. c[i + 1] = e
      BY <1>3, <3>1, <3>2
    <3> QED BY <3>2, <3>3 DEF OnList
  <2>3. OnList(c, h)
    BY <1>2, <1>3 DEF OnList
  <2> QED BY <2>1, <2>2, <2>3
<1>5. ASSUME NEW i \in 1..Len(c) PROVE Bucket(c[i].key, len) = b
  <2>1. i = 1 \/ i \in 2..(Len(s) + 1)
    BY <1>2, <1>3
  <2> QED BY <1>3, <2>1 DEF GoodChain
<1>6. ASSUME NEW i \in 1..Len(c), NEW j \in 1..Len(c), c[i].key = c[j].key PROVE i = j
  <2>1. (i = 1 \/ i \in 2..(Len(s) + 1)) /\ (j = 1 \/ j \in 2..(Len(s) + 1))
    BY <1>2, <1>3
  <2>2. ASSUME NEW n \in 2..(Len(s) + 1) PROVE c[n].key # h.key
    BY <1>3 DEF OnList
  <2>3. CASE i = 1 \/ j = 1
    BY <1>3, <1>6, <2>1, <2>2, <2>3
  <2>4. CASE i # 1 /\ j # 1
    <3>1. i - 1 \in 1..Len(s) /\ j - 1 \in 1..Len(s) /\ s[i - 1].key = s[j - 1].key
      BY <1>3, <1>6, <2>1, <2>4
    <3>2. i - 1 = j - 1
      BY <3>1 DEF GoodChain
    <3> QED BY <3>2
  <2> QED BY <2>3, <2>4
<1>7. GoodChain(c, b, len)
  BY <1>3, <1>5, <1>6 DEF GoodChain
<1> QED BY <1>1, <1>4, <1>7

\* A new entry goes to the end of its chain, in Insert.
LEMMA AppendKeeps ==
  ASSUME NEW b, NEW len, NEW s, GoodChain(s, b, len),
         NEW h \in Entries, Bucket(h.key, len) = b, \A e : OnList(s, e) => e.key # h.key
  PROVE  /\ GoodChain(Append(s, h), b, len)
         /\ \A e : OnList(Append(s, h), e) <=> e = h \/ OnList(s, e)
<1>1. PICK c : c = Append(s, h)
  OBVIOUS
<1>2. s \in Seq(Entries) /\ Len(s) \in Nat
  BY DEF GoodChain
<1>3. c \in Seq(Entries) /\ Len(c) = Len(s) + 1 /\ c[Len(s) + 1] = h
      /\ \A i \in 1..Len(s) : c[i] = s[i]
  BY <1>1, <1>2
<1>4. \A e : OnList(c, e) <=> e = h \/ OnList(s, e)
  BY <1>2, <1>3 DEF OnList
<1>5. ASSUME NEW i \in 1..Len(c) PROVE Bucket(c[i].key, len) = b
  <2>1. i = Len(s) + 1 \/ i \in 1..Len(s)
    BY <1>2, <1>3
  <2> QED BY <1>3, <2>1 DEF GoodChain
<1>6. ASSUME NEW i \in 1..Len(c), NEW j \in 1..Len(c), c[i].key = c[j].key PROVE i = j
  <2>1. (i = Len(s) + 1 \/ i \in 1..Len(s)) /\ (j = Len(s) + 1 \/ j \in 1..Len(s))
    BY <1>2, <1>3
  <2>2. ASSUME NEW n \in 1..Len(s) PROVE c[n].key # h.key
    BY <1>3 DEF OnList
  <2>3. CASE i = Len(s) + 1 \/ j = Len(s) + 1
    BY <1>3, <1>6, <2>1, <2>2, <2>3
  <2>4. CASE i \in 1..Len(s) /\ j \in 1..Len(s)
    BY <1>3, <1>6, <2>4 DEF GoodChain
  <2> QED BY <2>1, <2>3, <2>4
<1>7. GoodChain(c, b, len)
  BY <1>3, <1>5, <1>6 DEF GoodChain
<1> QED BY <1>1, <1>4, <1>7

\* An entry takes the place of one with its key.
LEMMA ReplaceKeeps ==
  ASSUME NEW b, NEW len, NEW s, GoodChain(s, b, len),
         NEW i \in 1..Len(s), NEW h \in Entries, h.key = s[i].key,
         NEW c, Exchanged(c, s, i, h)
  PROVE  /\ GoodChain(c, b, len)
         /\ \A e : OnList(c, e) <=> e = h \/ (OnList(s, e) /\ e # s[i])
<1>2. s \in Seq(Entries) /\ Len(s) \in Nat
  BY DEF GoodChain
<1>3. c \in Seq(Entries) /\ Len(c) = Len(s) /\ c[i] = h
      /\ \A j \in 1..Len(s) : j # i => c[j] = s[j]
  BY <1>2 DEF Exchanged
<1>4. \A j \in 1..Len(s) : c[j].key = s[j].key
  BY <1>3
<1>5. \A e : OnList(c, e) <=> e = h \/ (OnList(s, e) /\ e # s[i])
  <2>1. \A j \in 1..Len(s) : s[j] = s[i] => j = i
    BY DEF GoodChain
  <2> QED BY <1>3, <2>1 DEF OnList
<1>6. GoodChain(c, b, len)
  BY <1>3, <1>4 DEF GoodChain
<1> QED BY <1>5, <1>6

\* An entry leaves its chain.
LEMMA RemoveKeeps ==
  ASSUME NEW b, NEW len, NEW s, GoodChain(s, b, len), NEW i \in 1..Len(s)
  PROVE  /\ GoodChain(RemoveAt(s, i), b, len)
         /\ \A e : OnList(RemoveAt(s, i), e) <=> OnList(s, e) /\ e # s[i]
<1>1. PICK c : c = RemoveAt(s, i)
  OBVIOUS
<1>2. s \in Seq(Entries) /\ Len(s) \in Nat
  BY DEF GoodChain
<1> DEFINE Old(j) == IF j < i THEN j ELSE j + 1
<1>3. c \in Seq(Entries) /\ Len(c) = Len(s) - 1
      /\ \A j \in 1..(Len(s) - 1) : c[j] = s[Old(j)]
  <2>0. PICK l, r : l = SubSeq(s, 1, i - 1) /\ r = SubSeq(s, i + 1, Len(s))
    OBVIOUS
  <2>1. /\ l \in Seq(Entries) /\ Len(l) = i - 1
        /\ \A j \in 1..(i - 1) : l[j] = s[j]
    BY <1>2, <2>0
  <2>2. /\ r \in Seq(Entries) /\ Len(r) = Len(s) - i
        /\ \A j \in 1..(Len(s) - i) : r[j] = s[j + i]
    BY <1>2, <2>0
  <2>3. c = l \o r
    BY <1>1, <2>0 DEF RemoveAt
  <2>4. c \in Seq(Entries) /\ Len(c) = Len(s) - 1
    <3>1. c \in Seq(Entries) /\ Len(c) = Len(l) + Len(r)
      <4>1. l \in Seq(Entries) /\ r \in Seq(Entries)
        BY <2>1, <2>2
      <4> QED BY <2>3, <4>1, ConcatProperties
    <3> QED BY <1>2, <2>1, <2>2, <3>1
  <2>5. ASSUME NEW j \in 1..(Len(s) - 1) PROVE c[j] = s[Old(j)]
    <3>1. CASE j < i
      <4>1. j \in 1..(i - 1) /\ j \in 1..Len(l)
        BY <1>2, <2>1, <3>1
      <4>2. c[j] = l[j]
        BY <2>1, <2>2, <2>3, <4>1
      <4> QED BY <2>1, <3>1, <4>1, <4>2
    <3>2. CASE ~(j < i)
      <4>1. (j + 1) - i \in 1..(Len(s) - i) /\ ((j + 1) - i) + i = j + 1
        BY <1>2, <3>2
      <4>2. c[j] = r[(j + 1) - i]
        BY <1>2, <2>1, <2>2, <2>3, <3>2
      <4>3. c[j] = s[j + 1]
        BY <2>2, <4>1, <4>2
      <4> QED BY <3>2, <4>3
    <3> QED BY <3>1, <3>2
  <2> QED BY <2>4, <2>5
<1>4. ASSUME NEW j \in 1..(Len(s) - 1) PROVE Old(j) \in 1..Len(s) /\ Old(j) # i
  BY <1>2
<1>5. ASSUME NEW j \in 1..Len(s), j # i
      PROVE  \E n \in 1..(Len(s) - 1) : Old(n) = j
  <2>1. CASE j < i
    <3>1. j \in 1..(Len(s) - 1) /\ Old(j) = j
      BY <1>2, <2>1
    <3> QED BY <3>1
  <2>2. CASE ~(j < i)
    <3>1. j - 1 \in 1..(Len(s) - 1) /\ Old(j - 1) = j
      BY <1>2, <1>5, <2>2
    <3> QED BY <3>1
  <2> QED BY <2>1, <2>2
<1>6. ASSUME NEW j \in 1..(Len(s) - 1), NEW n \in 1..(Len(s) - 1), Old(j) = Old(n)
      PROVE  j = n
  BY <1>2, <1>6
<1> HIDE DEF Old
<1>7. \A e : OnList(c, e) <=> OnList(s, e) /\ e # s[i]
  <2>1. \A j \in 1..Len(s) : s[j] = s[i] => j = i
    BY DEF GoodChain
  <2>2. ASSUME NEW e, OnList(c, e) PROVE OnList(s, e) /\ e # s[i]
    <3>1. PICK j \in 1..(Len(s) - 1) : c[j] = e
      BY <1>3, <2>2 DEF OnList
    <3>2. e = s[Old(j)] /\ Old(j) \in 1..Len(s) /\ Old(j) # i
      BY <1>3, <1>4, <3>1
    <3> QED BY <2>1, <3>2 DEF OnList
  <2>3. ASSUME NEW e, OnList(s, e), e # s[i] PROVE OnList(c, e)
    <3>1. PICK j \in 1..Len(s) : s[j] = e
      BY <2>3 DEF OnList
    <3>2. PICK n \in 1..(Len(s) - 1) : Old(n) = j
      BY <1>5, <2>3, <3>1
    <3>3. c[n] = e /\ n \in 1..Len(c)
      BY <1>3, <3>1, <3>2
    <3> QED BY <3>3 DEF OnList
  <2> QED BY <2>2, <2>3
<1>8. ASSUME NEW j \in 1..Len(c) PROVE Bucket(c[j].key, len) = b
  BY <1>3, <1>4 DEF GoodChain
<1>9. ASSUME NEW j \in 1..Len(c), NEW n \in 1..Len(c), c[j].key = c[n].key PROVE j = n
  <2>1. Old(j) \in 1..Len(s) /\ Old(n) \in 1..Len(s) /\ s[Old(j)].key = s[Old(n)].key
    BY <1>3, <1>4, <1>9
  <2>2. Old(j) = Old(n)
    BY <2>1 DEF GoodChain
  <2> QED BY <1>3, <1>6, <2>2
<1>10. GoodChain(c, b, len)
  BY <1>3, <1>8, <1>9 DEF GoodChain
<1> QED BY <1>1, <1>7, <1>10

\* FindPointer finds the entry of a key, or the end of the chain.
LEMMA FindFacts ==
  ASSUME NEW s \in Seq(Entries), NEW k \in Keys
  PROVE  /\ FindPointer(s, k) \in 0..Len(s)
         /\ FindPointer(s, k) = 0 => \A e : OnList(s, e) => e.key # k
         /\ FindPointer(s, k) # 0 => s[FindPointer(s, k)].key = k
<1> DEFINE I == {i \in 1..Len(s) : Hash[s[i].key] = Hash[k] /\ s[i].key = k}
<1>1. FindPointer(s, k) = IF I # {} THEN Min(I) ELSE 0
  BY DEF FindPointer, SelectInSeq
<1>2. CASE I = {}
  <2>1. FindPointer(s, k) = 0
    BY <1>1, <1>2
  <2>2. \A i \in 1..Len(s) : s[i].key # k
    BY <1>2
  <2> QED BY <2>1, <2>2 DEF OnList
<1>3. CASE I # {}
  <2>1. FindPointer(s, k) = Min(I)
    BY <1>1, <1>3
  <2>2. I \in SUBSET Nat
    OBVIOUS
  <2>3. Min(I) \in I
    <3> HIDE DEF I
    <3> QED BY <1>3, <2>2, LeastOfNats
  <2>4. FindPointer(s, k) \in 1..Len(s) /\ s[FindPointer(s, k)].key = k
    BY <2>1, <2>3
  <2> QED BY <2>4
<1> QED BY <1>2, <1>3

-----------------------------------------------------------------------------
\* No two entries of a sequence have the same key.
KeysOnce(s) == \A i, j \in 1..Len(s) : s[i].key = s[j].key => i = j

\* Two sequences without a common key, one behind the other.
LEMMA ConcatKeeps ==
  ASSUME NEW s \in Seq(Entries), NEW t \in Seq(Entries), KeysOnce(s), KeysOnce(t),
         \A d, e \in Entries : OnList(s, d) /\ OnList(t, e) => d.key # e.key
  PROVE  /\ s \o t \in Seq(Entries) /\ KeysOnce(s \o t)
         /\ \A e : OnList(s \o t, e) <=> OnList(s, e) \/ OnList(t, e)
<1>1. PICK c : c = s \o t
  OBVIOUS
<1>2. Len(s) \in Nat /\ Len(t) \in Nat
  OBVIOUS
<1>3. /\ c \in Seq(Entries) /\ Len(c) = Len(s) + Len(t)
      /\ \A i \in 1..Len(s) : c[i] = s[i]
  BY <1>1
<1>4. \A i \in 1..Len(t) : c[Len(s) + i] = t[i]
  BY <1>1
<1>5. ASSUME NEW i \in 1..Len(c)
      PROVE  i \in 1..Len(s) \/ \E n \in 1..Len(t) : i = Len(s) + n
  <2>1. CASE i <= Len(s)
    BY <2>1, <1>2
  <2>2. CASE ~(i <= Len(s))
    <3>1. i - Len(s) \in 1..Len(t) /\ i = Len(s) + (i - Len(s))
      BY <1>2, <1>3, <2>2
    <3> QED BY <3>1
  <2> QED BY <2>1, <2>2
<1>6. \A e : OnList(c, e) <=> OnList(s, e) \/ OnList(t, e)
  <2>1. ASSUME NEW e, OnList(c, e) PROVE OnList(s, e) \/ OnList(t, e)
    <3>1. PICK i \in 1..Len(c) : c[i] = e
      BY <2>1 DEF OnList
    <3>2. CASE i \in 1..Len(s)
      BY <1>3, <3>1, <3>2 DEF OnList
    <3>3. CASE \E n \in 1..Len(t) : i = Len(s) + n
      BY <1>4, <3>1, <3>3 DEF OnList
    <3> QED BY <1>5, <3>2, <3>3
  <2>2. ASSUME NEW e, OnList(s, e) PROVE OnList(c, e)
    <3>1. PICK i \in 1..Len(s) : s[i] = e
      BY <2>2 DEF OnList
    <3>2. i \in 1..Len(c) /\ c[i] = e
      BY <1>2, <1>3, <3>1
    <3> QED BY <3>2 DEF OnList
  <2>3. ASSUME NEW e, OnList(t, e) PROVE OnList(c, e)
    <3>1. PICK i \in 1..Len(t) : t[i] = e
      BY <2>3 DEF OnList
    <3>2. Len(s) + i \in 1..Len(c) /\ c[Len(s) + i] = e
      BY <1>2, <1>3, <1>4, <3>1
    <3> QED BY <3>2 DEF OnList
  <2> QED BY <2>1, <2>2, <2>3
<1>7. ASSUME NEW i \in 1..Len(s), NEW n \in 1..Len(t) PROVE c[i].key # c[Len(s) + n].key
  <2>1. s[i] \in Entries /\ t[n] \in Entries /\ OnList(s, s[i]) /\ OnList(t, t[n])
    BY DEF OnList
  <2> QED BY <1>3, <1>4, <2>1
<1>8. ASSUME NEW i \in 1..Len(c), NEW j \in 1..Len(c), c[i].key = c[j].key PROVE i = j
  <2>1. CASE i \in 1..Len(s) /\ j \in 1..Len(s)
    BY <1>3, <1>8, <2>1 DEF KeysOnce
  <2>2. CASE i \in 1..Len(s) /\ \E n \in 1..Len(t) : j = Len(s) + n
    BY <1>7, <1>8, <2>2
  <2>3. CASE j \in 1..Len(s) /\ \E n \in 1..Len(t) : i = Len(s) + n
    BY <1>7, <1>8, <2>3
  <2>4. ASSUME NEW m \in 1..Len(t), NEW n \in 1..Len(t), i = Len(s) + m, j = Len(s) + n
        PROVE  i = j
    <3>1. t[m].key = t[n].key
      BY <1>4, <1>8, <2>4
    <3>2. m = n
      BY <3>1 DEF KeysOnce
    <3> QED BY <2>4, <3>2
  <2> QED BY <1>5, <2>1, <2>2, <2>3, <2>4
<1>9. KeysOnce(c)
  BY <1>8 DEF KeysOnce
<1> QED BY <1>1, <1>3, <1>6, <1>9

\* The entries of the first chains of a table, in the order Resize visits them.
Visits(f, lst, len) ==
  f = [i \in 1..len |-> IF i = 1 THEN lst[i - 1] ELSE f[i - 1] \o lst[i - 1]]

\* The traversal as the value of such a function.
LEMMA TraversalForm ==
  ASSUME NEW len \in Nat \ {0}, NEW lst
  PROVE  Traversal(len, lst) = (CHOOSE f : Visits(f, lst, len))[len]
<1> DEFINE q == [i \in 1..len |-> lst[i - 1]]
<1>1. Len(q) = len /\ len # 0
  OBVIOUS
<1>2. Traversal(len, lst) = (CHOOSE f : f = [i \in 1..Len(q) |-> IF i = 1 THEN q[i] ELSE f[i - 1] \o q[i]])[Len(q)]
  BY <1>1 DEF Traversal, FlattenSeq
<1>3. ASSUME NEW f
      PROVE  [i \in 1..len |-> IF i = 1 THEN q[i] ELSE f[i - 1] \o q[i]]
               = [i \in 1..len |-> IF i = 1 THEN lst[i - 1] ELSE f[i - 1] \o lst[i - 1]]
  OBVIOUS
<1> HIDE DEF q
<1>4. Traversal(len, lst) = (CHOOSE f : f = [i \in 1..len |-> IF i = 1 THEN q[i] ELSE f[i - 1] \o q[i]])[len]
  BY <1>1, <1>2
<1>5. (CHOOSE f : f = [i \in 1..len |-> IF i = 1 THEN q[i] ELSE f[i - 1] \o q[i]])
        = (CHOOSE f : f = [i \in 1..len |-> IF i = 1 THEN lst[i - 1] ELSE f[i - 1] \o lst[i - 1]])
  BY <1>3
<1> QED BY <1>4, <1>5 DEF Visits

\* Such a function exists.
LEMMA VisitsExist ==
  ASSUME NEW len, NEW lst, Chained(len, lst)
  PROVE  \E f : Visits(f, lst, len)
<1>1. len \in Nat \ {0} /\ \A b \in 0..(len - 1) : lst[b] \in Seq(Entries)
  BY DEF Chained, GoodChain
<1> DEFINE g == [p \in Nat \X Seq(Entries) |-> IF p[1] \in 1..len THEN p[2] \o lst[p[1] - 1] ELSE p[2]]
<1>2. ASSUME NEW n \in Nat, NEW x \in Seq(Entries)
      PROVE  /\ (IF n \in 1..len THEN x \o lst[n - 1] ELSE x) \in Seq(Entries)
             /\ n \in 1..len => g[<<n, x>>] = x \o lst[n - 1]
  <2>1. n \in 1..len => n - 1 \in 0..(len - 1)
    BY <1>1
  <2>2. n \in 1..len => lst[n - 1] \in Seq(Entries)
    BY <1>1, <2>1
  <2>3. n \in 1..len => x \o lst[n - 1] \in Seq(Entries)
    BY <2>2, ConcatProperties
  <2>4. g[<<n, x>>] = IF n \in 1..len THEN x \o lst[n - 1] ELSE x
    OBVIOUS
  <2> HIDE DEF g
  <2> QED BY <2>3, <2>4, Zenon
<1>3. g \in [Nat \X Seq(Entries) -> Seq(Entries)]
  BY <1>2
<1>4. PICK e \in [0..len -> Seq(Entries)] : Solves(e, << >>, g, len)
  <2> HIDE DEF g
  <2>1. PICK a \in Seq(Entries) : a = << >>
    BY EmptySeq
  <2>2. \E e \in [0..len -> Seq(Entries)] : Solves(e, a, g, len)
    BY <1>1, <1>3, StepsExist
  <2> QED BY <2>1, <2>2
<1>5. ASSUME NEW i \in 1..len PROVE e[i] = e[i - 1] \o lst[i - 1]
  <2>1. i \in Nat /\ i - 1 \in 0..len
    BY <1>1
  <2>2. e[i] = g[<<i, e[i - 1]>>] /\ e[i - 1] \in Seq(Entries)
    BY <1>4, <2>1 DEF Solves
  <2> HIDE DEF g
  <2> QED BY <1>2, <2>1, <2>2
<1> HIDE DEF g
<1>6. PICK f : f = [i \in 1..len |-> e[i]]
  OBVIOUS
<1>7. ASSUME NEW i \in 1..len PROVE f[i] = IF i = 1 THEN lst[i - 1] ELSE f[i - 1] \o lst[i - 1]
  <2>1. f[i] = e[i - 1] \o lst[i - 1]
    BY <1>5, <1>6
  <2>2. CASE i = 1
    <3>1. e[i - 1] = << >> /\ lst[i - 1] \in Seq(Entries)
      BY <1>1, <1>4, <2>2 DEF Solves
    <3>2. << >> \o lst[i - 1] = lst[i - 1]
      BY <3>1
    <3> QED BY <2>1, <2>2, <3>1, <3>2
  <2>3. CASE i # 1
    <3>1. i - 1 \in 1..len
      BY <1>1, <2>3
    <3> QED BY <1>6, <2>1, <2>3, <3>1
  <2> QED BY <2>2, <2>3
<1>8. f = [i \in 1..len |-> f[i]]
  BY <1>6
<1>9. Visits(f, lst, len)
  BY <1>7, <1>8 DEF Visits
<1> QED BY <1>9

\* Resize visits each entry once.
LEMMA TraversalFacts ==
  ASSUME NEW len, NEW lst, Chained(len, lst)
  PROVE  /\ Traversal(len, lst) \in Seq(Entries) /\ KeysOnce(Traversal(len, lst))
         /\ \A e \in Entries : OnList(Traversal(len, lst), e) <=> e \in LinkedIn(lst)
<1>1. len \in Nat \ {0} /\ \A b \in 0..(len - 1) : GoodChain(lst[b], b, len)
  BY DEF Chained
<1>2. PICK f : f = (CHOOSE e : Visits(e, lst, len))
  OBVIOUS
<1>3. Visits(f, lst, len)
  BY <1>2, VisitsExist
<1>4. f[1] = lst[0] /\ \A i \in 2..len : f[i] = f[i - 1] \o lst[i - 1]
  <2>1. \A i \in 1..len : f[i] = IF i = 1 THEN lst[i - 1] ELSE f[i - 1] \o lst[i - 1]
    BY <1>3 DEF Visits
  <2>2. 1 \in 1..len /\ 1 - 1 = 0 /\ \A i \in 2..len : i \in 1..len /\ i # 1
    BY <1>1
  <2>3. f[1] = lst[0]
    BY <2>1, <2>2
  <2>4. \A i \in 2..len : f[i] = f[i - 1] \o lst[i - 1]
    BY <2>1, <2>2, Zenon
  <2> QED BY <2>3, <2>4
<1> DEFINE Good(i) == /\ f[i] \in Seq(Entries) /\ KeysOnce(f[i])
                      /\ \A e \in Entries : OnList(f[i], e) <=> \E b \in 0..(i - 1) : OnList(lst[b], e)
           Q == {i \in Nat : i + 1 <= len => Good(i + 1)}
<1>5. ASSUME NEW b \in 0..(len - 1)
      PROVE  lst[b] \in Seq(Entries) /\ KeysOnce(lst[b])
             /\ \A e \in Entries : OnList(lst[b], e) => Bucket(e.key, len) = b
  BY <1>1 DEF GoodChain, KeysOnce, OnList
<1>6. 0 \in Q
  <2>1. 0 \in 0..(len - 1)
    BY <1>1
  <2>2. Good(1)
    BY <1>4, <1>5, <2>1
  <2> QED BY <2>2
<1>7. ASSUME NEW i \in Nat, i \in Q PROVE i + 1 \in Q
  <2> SUFFICES ASSUME (i + 1) + 1 <= len PROVE Good((i + 1) + 1)
    OBVIOUS
  <2>1. PICK n \in 2..len : n = (i + 1) + 1
    BY <1>1
  <2>2. n - 1 = i + 1 /\ n - 1 \in 0..(len - 1) /\ n - 1 <= len
    BY <1>1, <2>1
  <2>3. Good(n - 1)
    BY <1>7, <2>2
  <2>4. PICK s \in Seq(Entries) : s = f[n - 1]
    BY <2>3
  <2>5. PICK c \in Seq(Entries) : c = lst[n - 1]
    BY <1>5, <2>2
  <2>6. f[n] = s \o c
    BY <1>4, <2>4, <2>5
  <2>7. KeysOnce(s) /\ KeysOnce(c)
    BY <1>5, <2>2, <2>3, <2>4, <2>5
  <2>8. \A e \in Entries : OnList(s, e) <=> \E b \in 0..((n - 1) - 1) : OnList(lst[b], e)
    BY <2>3, <2>4
  <2>9. ASSUME NEW d \in Entries, NEW e \in Entries, OnList(s, d), OnList(c, e) PROVE d.key # e.key
    <3>1. PICK b \in 0..((n - 1) - 1) : OnList(lst[b], d)
      BY <2>8, <2>9
    <3>2. b \in 0..(len - 1) /\ b # n - 1
      BY <1>1, <2>1
    <3>3. Bucket(d.key, len) = b /\ Bucket(e.key, len) = n - 1
      BY <1>5, <2>2, <2>5, <2>9, <3>1, <3>2
    <3> QED BY <3>2, <3>3
  <2>10. /\ s \o c \in Seq(Entries) /\ KeysOnce(s \o c)
         /\ \A e : OnList(s \o c, e) <=> OnList(s, e) \/ OnList(c, e)
    BY <2>7, <2>9, ConcatKeeps
  <2>11. ASSUME NEW e \in Entries
         PROVE  OnList(f[n], e) <=> \E b \in 0..(n - 1) : OnList(lst[b], e)
    <3>1. OnList(f[n], e) <=> OnList(s, e) \/ OnList(lst[n - 1], e)
      BY <2>5, <2>6, <2>10
    <3>2. (\E b \in 0..(n - 1) : OnList(lst[b], e))
            <=> (\E b \in 0..((n - 1) - 1) : OnList(lst[b], e)) \/ OnList(lst[n - 1], e)
      <4>1. \A b \in 0..(n - 1) : b \in 0..((n - 1) - 1) \/ b = n - 1
        BY <2>1
      <4>2. n - 1 \in 0..(n - 1) /\ \A b \in 0..((n - 1) - 1) : b \in 0..(n - 1)
        BY <2>1
      <4> QED BY <4>1, <4>2
    <3> QED BY <2>8, <3>1, <3>2
  <2>12. Good(n)
    BY <2>6, <2>10, <2>11
  <2> QED BY <2>1, <2>12
<1>8. \A i \in Nat : i \in Q
  <2> HIDE DEF Q
  <2> QED BY <1>6, <1>7, NatSetInduction
<1>9. Good(len)
  <2>1. len - 1 \in Nat /\ (len - 1) + 1 = len
    BY <1>1
  <2>2. len - 1 \in Q
    <3> HIDE DEF Q
    <3> QED BY <1>8, <2>1
  <2> QED BY <2>1, <2>2
<1>10. Traversal(len, lst) = f[len]
  BY <1>1, <1>2, TraversalForm
<1>11. ASSUME NEW e \in Entries PROVE OnList(f[len], e) <=> e \in LinkedIn(lst)
  BY <1>9, LinkedForm
<1> QED BY <1>9, <1>10, <1>11

-----------------------------------------------------------------------------
\* The new array after each entry that Resize's second loop moves.
Pushes(f, t, len) ==
  f = [n \in 0..Len(t) |->
         IF n = 0 THEN [b \in 0..(len - 1) |-> << >>]
         ELSE [f[n - 1] EXCEPT ![Bucket(t[n].key, len)] = <<t[n]>> \o @]]

\* The new array as the value of such a function.
LEMMA RehashForm ==
  ASSUME NEW len, NEW lst, NEW newLen
  PROVE  LET t == Traversal(len, lst)
         IN Rehash(len, lst, newLen) = (CHOOSE f : Pushes(f, t, newLen))[Len(t)]
BY DEF Rehash, Pushes

\* Such a function exists.
LEMMA PushesExist ==
  ASSUME NEW t \in Seq(Entries), NEW len \in Nat \ {0}
  PROVE  \E f : Pushes(f, t, len)
<1> DEFINE S == [0..(len - 1) -> Seq(Entries)]
           Push(x, n) == [x EXCEPT ![Bucket(t[n].key, len)] = <<t[n]>> \o @]
           g == [p \in Nat \X S |-> IF p[1] \in 1..Len(t) THEN Push(p[2], p[1]) ELSE p[2]]
           none == [b \in 0..(len - 1) |-> << >>]
<1>1. none \in S
  BY EmptySeq
<1>2. ASSUME NEW x \in S, NEW n \in 1..Len(t) PROVE Push(x, n) \in S
  <2>1. t[n] \in Entries /\ t[n].key \in Keys
    <3>1. PICK h \in Entries : h = t[n]
      OBVIOUS
    <3>2. h.key \in Keys
      BY DEF Entries
    <3> QED BY <3>1, <3>2
  <2>2. PICK b \in 0..(len - 1) : b = Bucket(t[n].key, len)
    BY <2>1, BucketInside
  <2>3. PICK c \in Seq(Entries) : c = <<t[n]>> \o x[b]
    <3>1. <<t[n]>> \in Seq(Entries) /\ x[b] \in Seq(Entries)
      BY <2>1
    <3> QED BY <3>1, ConcatProperties
  <2>4. Push(x, n) = [x EXCEPT ![b] = c]
    BY <2>2, <2>3
  <2> HIDE DEF Push
  <2> QED BY <2>4
<1> HIDE DEF Push
<1>3. ASSUME NEW n \in Nat, NEW x \in S
      PROVE  g[<<n, x>>] = IF n \in 1..Len(t) THEN Push(x, n) ELSE x
  OBVIOUS
<1>4. g \in [Nat \X S -> S]
  <2> HIDE DEF S
  <2> QED BY <1>2
<1> HIDE DEF g, none, S
<1>5. PICK k \in Nat : k = Len(t)
  OBVIOUS
<1>6. PICK f \in [0..k -> S] : Solves(f, none, g, k)
  BY <1>1, <1>4, StepsExist
<1>7. ASSUME NEW n \in 0..k PROVE f[n] = IF n = 0 THEN none ELSE Push(f[n - 1], n)
  <2>1. CASE n = 0
    BY <1>6, <2>1 DEF Solves
  <2>2. CASE n # 0
    <3>1. n \in 1..k /\ n \in Nat /\ n - 1 \in 0..k
      BY <1>5, <2>2
    <3>2. f[n - 1] \in S /\ f[n] = g[<<n, f[n - 1]>>]
      BY <1>6, <3>1 DEF Solves
    <3>3. f[n] = Push(f[n - 1], n)
      BY <1>3, <1>5, <3>1, <3>2
    <3> QED BY <2>2, <3>3
  <2> QED BY <2>1, <2>2
<1>8. f = [n \in 0..k |-> IF n = 0 THEN none ELSE Push(f[n - 1], n)]
  BY <1>7
<1>9. Pushes(f, t, len)
  BY <1>5, <1>8 DEF Pushes, none, Push
<1> QED BY <1>9

\* An empty array of chains.
LEMMA EmptyTable ==
  ASSUME NEW len \in Nat \ {0}, NEW lst, lst = [b \in 0..(len - 1) |-> << >>]
  PROVE  Chained(len, lst) /\ LinkedIn(lst) = {}
<1>1. ASSUME NEW b \in 0..(len - 1) PROVE GoodChain(lst[b], b, len) /\ \A e : ~OnList(lst[b], e)
  <2>1. lst[b] = << >>
    OBVIOUS
  <2>2. Len(<< >>) = 0 /\ << >> \in Seq(Entries)
    BY EmptySeq
  <2> QED BY <2>1, <2>2 DEF GoodChain, OnList
<1>2. Chained(len, lst)
  BY <1>1 DEF Chained
<1>3. \A e : e \notin LinkedIn(lst)
  BY <1>1, <1>2, LinkedForm
<1> QED BY <1>2, <1>3

\* Resize keeps every entry, on the chain of its hash in the new array.
LEMMA RehashKeeps ==
  ASSUME NEW len, NEW lst, Chained(len, lst), NEW newLen \in Nat \ {0}
  PROVE  /\ Chained(newLen, Rehash(len, lst, newLen))
         /\ LinkedIn(Rehash(len, lst, newLen)) = LinkedIn(lst)
<1>1. PICK t \in Seq(Entries) : t = Traversal(len, lst)
  BY TraversalFacts
<1>2. KeysOnce(t) /\ \A e \in Entries : OnList(t, e) <=> e \in LinkedIn(lst)
  BY <1>1, TraversalFacts
<1>3. PICK f : f = (CHOOSE e : Pushes(e, t, newLen))
  OBVIOUS
<1>4. Pushes(f, t, newLen)
  BY <1>3, PushesExist
<1>5. PICK m \in Nat : m = Len(t)
  OBVIOUS
<1>6. f[0] = [b \in 0..(newLen - 1) |-> << >>]
  BY <1>4, <1>5 DEF Pushes
<1>7. ASSUME NEW n \in 1..m
      PROVE  f[n] = [f[n - 1] EXCEPT ![Bucket(t[n].key, newLen)] = <<t[n]>> \o @]
  <2>1. n \in 0..m /\ n # 0
    BY <1>5
  <2>2. f[n] = IF n = 0 THEN [b \in 0..(newLen - 1) |-> << >>]
               ELSE [f[n - 1] EXCEPT ![Bucket(t[n].key, newLen)] = <<t[n]>> \o @]
    BY <1>4, <1>5, <2>1 DEF Pushes
  <2> QED BY <2>1, <2>2
<1> DEFINE Good(n) == /\ Chained(newLen, f[n])
                      /\ \A e : e \in LinkedIn(f[n]) <=> \E i \in 1..n : t[i] = e
           Q == {n \in Nat : n <= m => Good(n)}
<1>8. 0 \in Q
  <2>1. Chained(newLen, f[0]) /\ LinkedIn(f[0]) = {}
    BY <1>6, EmptyTable
  <2>2. \A e : ~\E i \in 1..0 : t[i] = e
    OBVIOUS
  <2>3. Good(0)
    BY <2>1, <2>2
  <2> HIDE DEF Good
  <2> QED BY <2>3
<1>9. ASSUME NEW i \in Nat, i \in Q PROVE i + 1 \in Q
  <2> SUFFICES ASSUME i + 1 <= m PROVE Good(i + 1)
    OBVIOUS
  <2>1. PICK n \in 1..m : n = i + 1
    BY <1>5
  <2>2. n - 1 = i /\ i <= m /\ n \in 1..Len(t)
    BY <1>5, <2>1
  <2>3. Good(n - 1)
    BY <1>9, <2>2
  <2>4. PICK old : old = f[n - 1]
    OBVIOUS
  <2>5. Chained(newLen, old) /\ \A e : e \in LinkedIn(old) <=> \E j \in 1..(n - 1) : t[j] = e
    BY <2>3, <2>4
  <2>6. PICK h \in Entries : h = t[n]
    BY <2>2
  <2>7. h.key \in Keys
    BY DEF Entries
  <2>8. PICK b \in 0..(newLen - 1) : b = Bucket(h.key, newLen)
    BY <2>7, BucketInside
  <2>9. PICK c : c = <<h>> \o old[b]
    OBVIOUS
  <2>10. f[n] = [old EXCEPT ![b] = c]
    BY <1>7, <2>4, <2>6, <2>8, <2>9
  <2>11. GoodChain(old[b], b, newLen)
    BY <2>5 DEF Chained
  <2>12. ASSUME NEW e \in LinkedIn(old) PROVE e.key # h.key
    <3>1. PICK j \in 1..(n - 1) : t[j] = e
      BY <2>5
    <3>2. j \in 1..Len(t) /\ j # n
      BY <1>5, <2>2
    <3> QED BY <1>2, <2>2, <2>6, <3>1, <3>2 DEF KeysOnce
  <2>13. \A e : OnList(old[b], e) => e \in LinkedIn(old)
    BY <2>5, LinkedForm
  <2>14. \A e : OnList(old[b], e) => e.key # h.key
    BY <2>12, <2>13
  <2>15. GoodChain(c, b, newLen) /\ \A e : OnList(c, e) <=> e = h \/ OnList(old[b], e)
    BY <2>8, <2>9, <2>11, <2>14, PushKeeps
  <2>16. /\ Chained(newLen, f[n])
         /\ \A e : e \in LinkedIn(f[n]) <=> OnList(c, e) \/ (e \in LinkedIn(old) /\ ~OnList(old[b], e))
    <3>1. PICK new : new = f[n]
      OBVIOUS
    <3>2. Exchanged(new, old, b, c) /\ GoodChain(c, b, newLen) /\ Chained(newLen, old)
      BY <2>5, <2>10, <2>15, <3>1 DEF Exchanged
    <3>3. /\ Chained(newLen, new)
          /\ \A e : e \in LinkedIn(new) <=> OnList(c, e) \/ (e \in LinkedIn(old) /\ ~OnList(old[b], e))
      BY <3>2, OneChain
    <3> QED BY <3>1, <3>3
  <2>17. ASSUME NEW e PROVE e \in LinkedIn(f[n]) <=> \E j \in 1..n : t[j] = e
    <3>1. e \in LinkedIn(f[n]) <=> e = h \/ e \in LinkedIn(old)
      BY <2>13, <2>15, <2>16
    <3>2. \A j \in 1..n : j \in 1..(n - 1) \/ j = n
      BY <2>2
    <3>3. n \in 1..n /\ \A j \in 1..(n - 1) : j \in 1..n
      BY <2>2
    <3>4. (\E j \in 1..n : t[j] = e) <=> (\E j \in 1..(n - 1) : t[j] = e) \/ t[n] = e
      BY <3>2, <3>3
    <3> QED BY <2>5, <2>6, <3>1, <3>4
  <2>18. Good(n)
    BY <2>16, <2>17
  <2> QED BY <2>1, <2>18
<1>10. Good(m)
  <2>1. \A n \in Nat : n \in Q
    <3> HIDE DEF Q
    <3> QED BY <1>8, <1>9, NatSetInduction
  <2>2. m \in Q
    <3> HIDE DEF Q
    <3> QED BY <2>1
  <2> QED BY <2>2
<1>11. Rehash(len, lst, newLen) = f[m]
  BY <1>1, <1>3, <1>5, RehashForm
<1>12. ASSUME NEW e PROVE e \in LinkedIn(f[m]) <=> e \in LinkedIn(lst)
  <2>1. e \in LinkedIn(f[m]) <=> OnList(t, e)
    BY <1>5, <1>10 DEF OnList
  <2>2. OnList(t, e) => e \in Entries
    BY DEF OnList
  <2>3. e \in LinkedIn(lst) => e \in Entries
    BY EntryFacts
  <2> QED BY <1>2, <2>1, <2>2, <2>3
<1>13. LinkedIn(f[m]) = LinkedIn(lst)
  BY <1>12
<1> QED BY <1>10, <1>11, <1>13

-----------------------------------------------------------------------------
\* What the map holds for a key.
LEMMA MapAt ==
  ASSUME NEW len, NEW lst, Chained(len, lst), NEW k \in Keys
  PROVE  /\ \A e \in LinkedIn(lst) : e.key = k => MapOf(lst)[k] = e
         /\ (\A e \in LinkedIn(lst) : e.key # k) => MapOf(lst)[k] = Null
<1>1. MapOf(lst)[k] = IF \E h \in LinkedIn(lst) : h.key = k
                      THEN CHOOSE h \in LinkedIn(lst) : h.key = k ELSE Null
  BY DEF MapOf
<1>2. ASSUME NEW e \in LinkedIn(lst), e.key = k PROVE MapOf(lst)[k] = e
  <2>1. PICK d : d = (CHOOSE h \in LinkedIn(lst) : h.key = k)
    OBVIOUS
  <2>2. d \in LinkedIn(lst) /\ d.key = k
    BY <1>2, <2>1
  <2>3. d = e
    BY <1>2, <2>2, EntryFacts
  <2> QED BY <1>1, <1>2, <2>1, <2>3
<1> QED BY <1>1, <1>2

\* A step that changes what one key maps to.
LEMMA MapUpdates ==
  ASSUME NEW len, NEW lst, Chained(len, lst), NEW newLen, NEW new, Chained(newLen, new),
         NEW k \in Keys, NEW v, MapOf(new)[k] = v,
         \A e : e \in LinkedIn(new) /\ e.key # k <=> e \in LinkedIn(lst) /\ e.key # k
  PROVE  MapOf(new) = [MapOf(lst) EXCEPT ![k] = v]
<1>1. ASSUME NEW j \in Keys, j # k PROVE MapOf(new)[j] = MapOf(lst)[j]
  <2>1. CASE \E e \in LinkedIn(lst) : e.key = j
    <3>1. PICK e \in LinkedIn(lst) : e.key = j
      BY <2>1
    <3>2. e \in LinkedIn(new)
      BY <1>1, <3>1
    <3> QED BY <3>1, <3>2, MapAt
  <2>2. CASE \A e \in LinkedIn(lst) : e.key # j
    <3>1. \A e \in LinkedIn(new) : e.key # j
      BY <1>1, <2>2
    <3> QED BY <2>2, <3>1, MapAt
  <2> QED BY <2>1, <2>2
<1>2. PICK m, n : m = MapOf(lst) /\ n = MapOf(new)
  OBVIOUS
<1>3. m = [j \in Keys |-> m[j]] /\ n = [j \in Keys |-> n[j]]
  BY <1>2 DEF MapOf
<1>4. \A j \in Keys : n[j] = IF j = k THEN v ELSE m[j]
  BY <1>1, <1>2
<1>5. n = [m EXCEPT ![k] = v]
  BY <1>3, <1>4
<1> QED BY <1>2, <1>5

\* FindPointer points to what the map holds.
LEMMA FindIsMap ==
  ASSUME NEW len, NEW lst, Chained(len, lst), NEW k \in Keys,
         NEW b, b = Bucket(k, len), NEW i, i = FindPointer(lst[b], k)
  PROVE  /\ b \in 0..(len - 1) /\ GoodChain(lst[b], b, len)
         /\ i \in 0..Len(lst[b]) /\ Len(lst[b]) \in Nat
         /\ i = 0 => \A e \in LinkedIn(lst) : e.key # k
         /\ i # 0 => lst[b][i].key = k /\ lst[b][i] \in LinkedIn(lst)
         /\ At(lst[b], i) = MapOf(lst)[k]
<1>1. b \in 0..(len - 1)
  BY BucketInside DEF Chained
<1>2. GoodChain(lst[b], b, len)
  BY <1>1 DEF Chained
<1>3. PICK s \in Seq(Entries) : s = lst[b]
  BY <1>2 DEF GoodChain
<1>4. /\ i \in 0..Len(s) /\ Len(s) \in Nat
      /\ i = 0 => \A e : OnList(s, e) => e.key # k
      /\ i # 0 => s[i].key = k
  BY <1>3, FindFacts
<1>5. ASSUME i = 0, NEW e \in LinkedIn(lst) PROVE e.key # k
  <2>1. OnList(lst[Bucket(e.key, len)], e)
    BY EntryFacts
  <2> QED BY <1>3, <1>4, <1>5, <2>1
<1>6. ASSUME i # 0 PROVE s[i].key = k /\ s[i] \in LinkedIn(lst)
  <2>1. i \in 1..Len(s)
    BY <1>4, <1>6
  <2>2. OnList(s, s[i])
    BY <2>1 DEF OnList
  <2> QED BY <1>1, <1>3, <1>4, <1>6, <2>2, LinkedForm
<1>7. At(s, i) = MapOf(lst)[k]
  <2>1. CASE i = 0
    BY <1>5, <2>1, MapAt DEF At
  <2>2. CASE i # 0
    BY <1>6, <2>2, MapAt DEF At
  <2> QED BY <2>1, <2>2
<1> QED BY <1>1, <1>2, <1>3, <1>4, <1>5, <1>6, <1>7

\* The chain that Insert makes of one in which FindPointer found i.
LEMMA InsertedChain ==
  ASSUME NEW b, NEW len, NEW s, GoodChain(s, b, len), NEW h \in Entries, Bucket(h.key, len) = b,
         NEW i \in 0..Len(s), i = 0 => \A e : OnList(s, e) => e.key # h.key,
         i # 0 => s[i].key = h.key,
         NEW c, i = 0 => c = Append(s, h), i # 0 => Exchanged(c, s, i, h)
  PROVE  /\ GoodChain(c, b, len)
         /\ \A e : OnList(c, e) <=> e = h \/ (OnList(s, e) /\ e.key # h.key)
<1>1. CASE i = 0
  <2>1. \A e : OnList(s, e) => e.key # h.key
    BY <1>1
  <2>2. /\ GoodChain(Append(s, h), b, len)
        /\ \A e : OnList(Append(s, h), e) <=> e = h \/ OnList(s, e)
    BY <2>1, AppendKeeps
  <2> QED BY <1>1, <2>1, <2>2
<1>2. CASE i # 0
  <2>1. s \in Seq(Entries) /\ i \in 1..Len(s) /\ h.key = s[i].key
    BY <1>2 DEF GoodChain
  <2>2. Exchanged(c, s, i, h)
    BY <1>2
  <2>3. /\ GoodChain(c, b, len)
        /\ \A e : OnList(c, e) <=> e = h \/ (OnList(s, e) /\ e # s[i])
    BY <2>1, <2>2, ReplaceKeeps
  <2>4. ASSUME NEW e, OnList(s, e) PROVE e # s[i] <=> e.key # h.key
    <3>1. PICK j \in 1..Len(s) : s[j] = e
      BY <2>4 DEF OnList
    <3>2. s[j].key = s[i].key => j = i
      BY <2>1 DEF GoodChain
    <3> QED BY <2>1, <3>1, <3>2
  <2>5. \A e : OnList(c, e) <=> e = h \/ (OnList(s, e) /\ e.key # h.key)
    BY <2>3, <2>4
  <2> QED BY <2>3, <2>5
<1> QED BY <1>1, <1>2

\* Insert links the entry and displaces the one with its key.
LEMMA LinkKeeps ==
  ASSUME NEW len, NEW lst, Chained(len, lst), NEW h \in Entries,
         NEW b, b = Bucket(h.key, len), NEW i, i = FindPointer(lst[b], h.key),
         NEW c, i = 0 => c = Append(lst[b], h), i # 0 => Exchanged(c, lst[b], i, h),
         NEW new, Exchanged(new, lst, b, c)
  PROVE  /\ Chained(len, new)
         /\ \A e : e \in LinkedIn(new) <=> e = h \/ (e \in LinkedIn(lst) /\ e.key # h.key)
<1>1. h.key \in Keys
  BY DEF Entries
<1>2. PICK s : s = lst[b]
  OBVIOUS
<1>3. /\ b \in 0..(len - 1) /\ GoodChain(s, b, len)
      /\ i \in 0..Len(s) /\ Len(s) \in Nat
      /\ i = 0 => \A e \in LinkedIn(lst) : e.key # h.key
      /\ i # 0 => s[i].key = h.key /\ s[i] \in LinkedIn(lst)
  BY <1>1, <1>2, FindIsMap
<1>4. \A e : OnList(s, e) => e \in LinkedIn(lst)
  BY <1>2, <1>3, LinkedForm
<1>5. \A e \in LinkedIn(lst) : e.key = h.key => OnList(s, e)
  BY <1>2, EntryFacts
<1>6. i = 0 => \A e : OnList(s, e) => e.key # h.key
  BY <1>3, <1>4
<1>7. /\ GoodChain(c, b, len)
      /\ \A e : OnList(c, e) <=> e = h \/ (OnList(s, e) /\ e.key # h.key)
  <2>1. (i = 0 => c = Append(s, h)) /\ (i # 0 => Exchanged(c, s, i, h))
    BY <1>2
  <2>2. GoodChain(s, b, len) /\ i \in 0..Len(s) /\ (i # 0 => s[i].key = h.key)
    BY <1>3
  <2> QED BY <1>6, <2>1, <2>2, InsertedChain
<1>8. /\ Chained(len, new)
      /\ \A e : e \in LinkedIn(new) <=> OnList(c, e) \/ (e \in LinkedIn(lst) /\ ~OnList(lst[b], e))
  <2>1. b \in 0..(len - 1) /\ GoodChain(c, b, len)
    BY <1>3, <1>7
  <2> QED BY <2>1, OneChain
<1>9. \A e : e \in LinkedIn(new) <=> OnList(c, e) \/ (e \in LinkedIn(lst) /\ ~OnList(s, e))
  BY <1>2, <1>8
<1> QED BY <1>4, <1>5, <1>7, <1>8, <1>9, Zenon

\* Remove unlinks the entry of the key.
LEMMA UnlinkKeeps ==
  ASSUME NEW len, NEW lst, Chained(len, lst), NEW k \in Keys,
         NEW b, b = Bucket(k, len), NEW i, i = FindPointer(lst[b], k), i # 0,
         NEW new, Exchanged(new, lst, b, RemoveAt(lst[b], i))
  PROVE  /\ Chained(len, new)
         /\ \A e : e \in LinkedIn(new) <=> e \in LinkedIn(lst) /\ e.key # k
<1>1. PICK s : s = lst[b]
  OBVIOUS
<1>2. /\ b \in 0..(len - 1) /\ GoodChain(s, b, len)
      /\ i \in 1..Len(s) /\ s[i].key = k /\ s[i] \in LinkedIn(lst)
  BY <1>1, FindIsMap
<1>3. PICK c : c = RemoveAt(s, i)
  OBVIOUS
<1>4. /\ GoodChain(c, b, len)
      /\ \A e : OnList(c, e) <=> OnList(s, e) /\ e # s[i]
  BY <1>2, <1>3, RemoveKeeps
<1>5. Exchanged(new, lst, b, c)
  BY <1>1, <1>3
<1>6. \A e : OnList(s, e) => e \in LinkedIn(lst)
  BY <1>1, <1>2, LinkedForm
<1>7. ASSUME NEW e \in LinkedIn(lst) PROVE e # s[i] <=> e.key # k
  BY <1>2, EntryFacts
<1>8. /\ Chained(len, new)
      /\ \A e : e \in LinkedIn(new) <=> OnList(c, e) \/ (e \in LinkedIn(lst) /\ ~OnList(lst[b], e))
  <2>1. b \in 0..(len - 1) /\ GoodChain(c, b, len) /\ Exchanged(new, lst, b, c)
    BY <1>2, <1>4, <1>5
  <2> QED BY <2>1, OneChain
<1>9. OnList(s, s[i])
  BY <1>2 DEF OnList
<1>10. ASSUME NEW e PROVE e \in LinkedIn(new) <=> e \in LinkedIn(lst) /\ e # s[i]
  BY <1>1, <1>4, <1>6, <1>8, <1>9
<1> QED BY <1>7, <1>8, <1>10

-----------------------------------------------------------------------------
\* The entries with h in place of any other entry of its key.
WithEntry(S, h) == {e \in S : e.key # h.key} \union {h}

\* How many they are.
LEMMA CountInserted ==
  ASSUME NEW len, NEW lst, Chained(len, lst), IsFiniteSet(LinkedIn(lst)), NEW h,
         NEW T, T = WithEntry(LinkedIn(lst), h)
  PROVE  /\ IsFiniteSet(T)
         /\ (\A e \in LinkedIn(lst) : e.key # h.key) => Cardinality(T) = Cardinality(LinkedIn(lst)) + 1
         /\ (\E e \in LinkedIn(lst) : e.key = h.key) => Cardinality(T) = Cardinality(LinkedIn(lst))
<1>1. PICK S : S = LinkedIn(lst)
  OBVIOUS
<1>2. IsFiniteSet(S) /\ Cardinality(S) \in Nat
  BY <1>1, FS_CardinalityType
<1>3. ASSUME \A e \in S : e.key # h.key
      PROVE  IsFiniteSet(T) /\ Cardinality(T) = Cardinality(S) + 1
  <2>1. T = S \union {h} /\ h \notin S
    BY <1>1, <1>3 DEF WithEntry
  <2> QED BY <1>2, <2>1, FS_AddElement
<1>4. ASSUME NEW d \in S, d.key = h.key
      PROVE  IsFiniteSet(T) /\ Cardinality(T) = Cardinality(S)
  <2>1. \A e \in S : e.key = h.key => e = d
    BY <1>1, <1>4, EntryFacts
  <2>2. PICK R : R = S \ {d}
    OBVIOUS
  <2>3. IsFiniteSet(R) /\ Cardinality(R) = Cardinality(S) - 1
    BY <1>2, <1>4, <2>2, FS_RemoveElement
  <2>4. h \notin R /\ T = R \union {h}
    BY <1>1, <1>4, <2>1, <2>2 DEF WithEntry
  <2>5. IsFiniteSet(T) /\ Cardinality(T) = Cardinality(R) + 1
    BY <2>3, <2>4, FS_AddElement
  <2> QED BY <1>2, <2>3, <2>5
<1> QED BY <1>1, <1>3, <1>4

\* The map of HandleMap is that of the entries on the chains.
LEMMA MapForm ==
  /\ Map!Init <=> MapOf(list) = [k \in Keys |-> Null] /\ ret = Null
  /\ \A h : Map!Insert(h) <=> ret' = MapOf(list)[h.key] /\ MapOf(list)' = [MapOf(list) EXCEPT ![h.key] = h]
  /\ \A k : Map!Remove(k) <=> ret' = MapOf(list)[k] /\ MapOf(list)' = [MapOf(list) EXCEPT ![k] = Null]
  /\ \A k : Map!Lookup(k) <=> ret' = MapOf(list)[k] /\ MapOf(list)' = MapOf(list)
BY DEF Map!Init, Map!Insert, Map!Remove, Map!Lookup, KeyOf, Contents, MapOf, LinkedIn, Linked

\* The constructor leaves an empty table.
LEMMA Initially == Init => IInv /\ Map!Init
<1> SUFFICES ASSUME Init PROVE IInv /\ Map!Init
  OBVIOUS
<1>1. length \in Nat \ {0} /\ list = [b \in 0..(length - 1) |-> << >>] /\ elems = 0 /\ ret = Null
  BY NewLengthFacts DEF Init
<1>2. Chained(length, list) /\ LinkedIn(list) = {}
  BY <1>1, EmptyTable
<1>3. IInv
  BY <1>1, <1>2, FS_EmptySet DEF IInv
<1>4. MapOf(list) = [k \in Keys |-> Null]
  BY <1>2 DEF MapOf
<1> QED BY <1>1, <1>3, <1>4, MapForm

\* Insert.
LEMMA InsertRefines ==
  ASSUME IInv, NEW h \in Entries, Insert(h)
  PROVE  IInv' /\ Map!Insert(h)
<1>1. PICK b, i, linked :
        /\ b = Bucket(h.key, length) /\ i = FindPointer(list[b], h.key)
        /\ linked = [list EXCEPT ![b] = IF i = 0 THEN Append(@, h) ELSE [@ EXCEPT ![i] = h]]
        /\ ret' = At(list[b], i)
        /\ elems' = IF i = 0 THEN elems + 1 ELSE elems
        /\ IF i = 0 /\ MustResize(elems + 1, length)
           THEN /\ length' = NewLength(elems + 1)
                /\ list' = Rehash(length, linked, NewLength(elems + 1))
           ELSE list' = linked /\ length' = length
  BY DEF Insert
<1>2. PICK len, lst, n : len = length /\ lst = list /\ n = elems
  OBVIOUS
<1>3. /\ Chained(len, lst) /\ IsFiniteSet(LinkedIn(lst))
      /\ n = Cardinality(LinkedIn(lst)) /\ n \in Nat
  BY <1>2, FS_CardinalityType DEF IInv
<1>4. h.key \in Keys
  BY DEF Entries
<1>5. b = Bucket(h.key, len) /\ i = FindPointer(lst[b], h.key)
  BY <1>1, <1>2
<1>6. /\ i = 0 => \A e \in LinkedIn(lst) : e.key # h.key
      /\ i # 0 => lst[b][i].key = h.key /\ lst[b][i] \in LinkedIn(lst)
      /\ At(lst[b], i) = MapOf(lst)[h.key]
  BY <1>3, <1>4, <1>5, FindIsMap
<1>7. PICK c : c = IF i = 0 THEN Append(lst[b], h) ELSE [lst[b] EXCEPT ![i] = h]
  OBVIOUS
<1>8. (i = 0 => c = Append(lst[b], h)) /\ (i # 0 => Exchanged(c, lst[b], i, h))
  BY <1>7 DEF Exchanged
<1>9. Exchanged(linked, lst, b, c)
  <2>1. linked = [lst EXCEPT ![b] = c]
    BY <1>1, <1>2, <1>7
  <2> QED BY <2>1 DEF Exchanged
<1>10. /\ Chained(len, linked)
       /\ \A e : e \in LinkedIn(linked) <=> e = h \/ (e \in LinkedIn(lst) /\ e.key # h.key)
  BY <1>3, <1>5, <1>8, <1>9, LinkKeeps
<1>11. /\ IsFiniteSet(LinkedIn(linked))
       /\ Cardinality(LinkedIn(linked)) = IF i = 0 THEN n + 1 ELSE n
  <2>1. PICK T : T = LinkedIn(linked)
    OBVIOUS
  <2>2. T = WithEntry(LinkedIn(lst), h)
    BY <1>10, <2>1 DEF WithEntry
  <2>3. /\ IsFiniteSet(T)
        /\ (\A e \in LinkedIn(lst) : e.key # h.key) => Cardinality(T) = n + 1
        /\ (\E e \in LinkedIn(lst) : e.key = h.key) => Cardinality(T) = n
    <3>1. Chained(len, lst) /\ IsFiniteSet(LinkedIn(lst))
      BY <1>3
    <3>2. /\ IsFiniteSet(T)
          /\ (\A e \in LinkedIn(lst) : e.key # h.key) => Cardinality(T) = Cardinality(LinkedIn(lst)) + 1
          /\ (\E e \in LinkedIn(lst) : e.key = h.key) => Cardinality(T) = Cardinality(LinkedIn(lst))
      BY <2>2, <3>1, CountInserted
    <3> QED BY <1>3, <3>2
  <2>4. Cardinality(T) = IF i = 0 THEN n + 1 ELSE n
    BY <1>6, <2>3
  <2> QED BY <2>1, <2>3, <2>4
<1>12. PICK newLen, new, m : newLen = length' /\ new = list' /\ m = elems'
  OBVIOUS
<1>13. Chained(newLen, new) /\ LinkedIn(new) = LinkedIn(linked)
  <2>1. CASE i = 0 /\ MustResize(elems + 1, length)
    <3>1. PICK l : l = NewLength(n + 1)
      OBVIOUS
    <3>2. l \in Nat \ {0}
      BY <1>3, <3>1, NewLengthFacts
    <3>3. newLen = l /\ new = Rehash(len, linked, l)
      BY <1>1, <1>2, <1>12, <2>1, <3>1
    <3> QED BY <1>10, <3>2, <3>3, RehashKeeps
  <2>2. CASE ~(i = 0 /\ MustResize(elems + 1, length))
    <3>1. newLen = len /\ new = linked
      BY <1>1, <1>2, <1>12, <2>2
    <3> QED BY <1>10, <3>1
  <2> QED BY <2>1, <2>2
<1>14. m = Cardinality(LinkedIn(new)) /\ IsFiniteSet(LinkedIn(new))
  BY <1>1, <1>2, <1>11, <1>12, <1>13
<1>15. IInv'
  <2>1. /\ Chained(length', list')
        /\ IsFiniteSet(LinkedIn(list')) /\ elems' = Cardinality(LinkedIn(list'))
    BY <1>12, <1>13, <1>14
  <2> QED BY <2>1 DEF IInv, Chained, LinkedIn
<1>16. MapOf(new)[h.key] = h
  <2>1. h \in LinkedIn(new)
    BY <1>10, <1>13
  <2> QED BY <1>4, <1>13, <2>1, MapAt
<1>17. MapOf(new) = [MapOf(lst) EXCEPT ![h.key] = h]
  <2>1. \A e : e \in LinkedIn(new) /\ e.key # h.key <=> e \in LinkedIn(lst) /\ e.key # h.key
    BY <1>10, <1>13
  <2> QED BY <1>3, <1>4, <1>13, <1>16, <2>1, MapUpdates
<1>18. MapOf(list)' = [MapOf(list) EXCEPT ![h.key] = h]
  <2>1. MapOf(list') = [MapOf(list) EXCEPT ![h.key] = h]
    BY <1>2, <1>12, <1>17
  <2> QED BY <2>1 DEF MapOf, LinkedIn
<1>19. ret' = MapOf(list)[h.key]
  BY <1>1, <1>2, <1>6
<1> QED BY <1>15, <1>18, <1>19, MapForm

\* Lookup.
LEMMA LookupRefines ==
  ASSUME IInv, NEW k \in Keys, Lookup(k)
  PROVE  IInv' /\ Map!Lookup(k)
<1>1. PICK b, i : b = Bucket(k, length) /\ i = FindPointer(list[b], k)
  OBVIOUS
<1>2. ret' = At(list[b], i) /\ UNCHANGED <<length, elems, list>>
  BY <1>1 DEF Lookup
<1>3. IInv'
  BY <1>2 DEF IInv, Chained, LinkedIn
<1>4. PICK len, lst : len = length /\ lst = list
  OBVIOUS
<1>5. At(lst[b], i) = MapOf(lst)[k]
  BY <1>1, <1>4, FindIsMap DEF IInv
<1>6. MapOf(list)' = MapOf(list)
  BY <1>2 DEF MapOf, LinkedIn
<1> QED BY <1>2, <1>3, <1>4, <1>5, <1>6, MapForm

\* Remove.
LEMMA RemoveRefines ==
  ASSUME IInv, NEW k \in Keys, RemoveKey(k)
  PROVE  IInv' /\ Map!Remove(k)
<1>1. PICK b, i : b = Bucket(k, length) /\ i = FindPointer(list[b], k)
  OBVIOUS
<1>2. /\ ret' = At(list[b], i)
      /\ list' = IF i = 0 THEN list ELSE [list EXCEPT ![b] = RemoveAt(@, i)]
      /\ elems' = IF i = 0 THEN elems ELSE elems - 1
      /\ length' = length
  BY <1>1 DEF RemoveKey
<1>3. PICK len, lst, new : len = length /\ lst = list /\ new = list'
  OBVIOUS
<1>4. /\ Chained(len, lst) /\ IsFiniteSet(LinkedIn(lst))
      /\ elems = Cardinality(LinkedIn(lst))
  BY <1>3 DEF IInv
<1>5. b = Bucket(k, len) /\ i = FindPointer(lst[b], k)
  BY <1>1, <1>3
<1>6. /\ i = 0 => \A e \in LinkedIn(lst) : e.key # k
      /\ i # 0 => lst[b][i].key = k /\ lst[b][i] \in LinkedIn(lst)
      /\ At(lst[b], i) = MapOf(lst)[k]
  BY <1>4, <1>5, FindIsMap
<1>7. /\ Chained(len, new)
      /\ \A e : e \in LinkedIn(new) <=> e \in LinkedIn(lst) /\ e.key # k
  <2>1. CASE i = 0
    <3>1. new = lst
      BY <1>2, <1>3, <2>1
    <3> QED BY <1>4, <1>6, <2>1, <3>1
  <2>2. CASE i # 0
    <3>1. new = [lst EXCEPT ![b] = RemoveAt(lst[b], i)]
      BY <1>2, <1>3, <2>2
    <3>2. Exchanged(new, lst, b, RemoveAt(lst[b], i))
      BY <3>1 DEF Exchanged
    <3> QED BY <1>4, <1>5, <2>2, <3>2, UnlinkKeeps
  <2> QED BY <2>1, <2>2
<1>8. IsFiniteSet(LinkedIn(new)) /\ elems' = Cardinality(LinkedIn(new))
  <2>1. PICK S, T : S = LinkedIn(lst) /\ T = LinkedIn(new)
    OBVIOUS
  <2>2. CASE i = 0
    <3>1. S = T
      BY <1>6, <1>7, <2>1, <2>2
    <3> QED BY <1>2, <1>4, <2>1, <2>2, <3>1
  <2>3. CASE i # 0
    <3>1. PICK d \in S : d.key = k
      BY <1>6, <2>1, <2>3
    <3>2. \A e \in S : e.key = k => e = d
      BY <1>4, <2>1, <3>1, EntryFacts
    <3>3. T = S \ {d}
      BY <1>7, <2>1, <3>1, <3>2
    <3>4. IsFiniteSet(T) /\ Cardinality(T) = Cardinality(S) - 1
      BY <1>4, <2>1, <3>1, <3>3, FS_RemoveElement
    <3> QED BY <1>2, <1>4, <2>1, <2>3, <3>4
  <2> QED BY <2>2, <2>3
<1>9. IInv'
  <2>1. /\ Chained(length', list')
        /\ IsFiniteSet(LinkedIn(list')) /\ elems' = Cardinality(LinkedIn(list'))
    BY <1>2, <1>3, <1>7, <1>8
  <2> QED BY <2>1 DEF IInv, Chained, LinkedIn
<1>10. MapOf(new)[k] = Null
  BY <1>7, MapAt
<1>11. MapOf(new) = [MapOf(lst) EXCEPT ![k] = Null]
  <2>1. \A e : e \in LinkedIn(new) /\ e.key # k <=> e \in LinkedIn(lst) /\ e.key # k
    BY <1>7
  <2> QED BY <1>4, <1>7, <1>10, <2>1, MapUpdates
<1>12. MapOf(list)' = [MapOf(list) EXCEPT ![k] = Null]
  <2>1. MapOf(list') = [MapOf(list) EXCEPT ![k] = Null]
    BY <1>3, <1>11
  <2> QED BY <2>1 DEF MapOf, LinkedIn
<1>13. ret' = MapOf(list)[k]
  BY <1>2, <1>3, <1>6
<1> QED BY <1>9, <1>12, <1>13, MapForm

\* The chained hash table of the cache, with its collisions, replacements and
\* resizes, behaves as a map: Insert, Remove and Lookup return what the map
\* held for the key, for any keys and any hash function.
THEOREM TableImplementsMap == Spec => ImplementsMap
<1>1. IInv /\ [Next]_vars => IInv' /\ [Map!Next]_<<Contents, ret>>
  <2> SUFFICES ASSUME IInv, [Next]_vars PROVE IInv' /\ [Map!Next]_<<Contents, ret>>
    OBVIOUS
  <2>1. CASE UNCHANGED vars
    <3>1. IInv'
      BY <2>1 DEF vars, IInv, Chained, LinkedIn
    <3>2. UNCHANGED <<Contents, ret>>
      BY <2>1 DEF vars, Contents, Linked
    <3> QED BY <3>1, <3>2
  <2>2. ASSUME NEW h \in Entries, Insert(h) PROVE IInv' /\ Map!Next
    BY <2>2, InsertRefines DEF Map!Next
  <2>3. ASSUME NEW k \in Keys, RemoveKey(k) PROVE IInv' /\ Map!Next
    BY <2>3, RemoveRefines DEF Map!Next
  <2>4. ASSUME NEW k \in Keys, Lookup(k) PROVE IInv' /\ Map!Next
    BY <2>4, LookupRefines DEF Map!Next
  <2> QED BY <2>1, <2>2, <2>3, <2>4 DEF Next
<1> QED BY <1>1, Initially, PTL DEF Spec, ImplementsMap, Map!Spec

\* The loops of Resize visit as many entries as there are.
LEMMA CountVisited ==
  ASSUME NEW len, NEW lst, Chained(len, lst)
  PROVE  Len(Traversal(len, lst)) = Cardinality(LinkedIn(lst))
<1>1. PICK t \in Seq(Entries) : t = Traversal(len, lst)
  BY TraversalFacts
<1>2. KeysOnce(t) /\ \A e \in Entries : OnList(t, e) <=> e \in LinkedIn(lst)
  BY <1>1, TraversalFacts
<1>3. PICK m \in Nat : m = Len(t)
  OBVIOUS
<1>4. PICK S : S = LinkedIn(lst)
  OBVIOUS
<1>5. ASSUME NEW i \in 1..m PROVE t[i] \in S
  BY <1>2, <1>3, <1>4 DEF OnList
<1>6. ASSUME NEW e \in S PROVE \E i \in 1..m : t[i] = e
  BY <1>2, <1>3, <1>4, EntryFacts DEF OnList
<1>7. t \in [1..m -> S]
  <2>1. t = [i \in 1..m |-> t[i]]
    BY <1>3
  <2> QED BY <1>5, <2>1
<1>8. \A i, j \in 1..m : t[i] = t[j] => i = j
  BY <1>2, <1>3 DEF KeysOnce
<1>9. ExistsBijection(1..m, S)
  BY <1>6, <1>7, <1>8 DEF ExistsBijection, Bijection, Injection, IsInjective, Surjection
<1>10. IsFiniteSet(1..m) /\ Cardinality(1..m) = m
  BY FS_Interval
<1>11. Cardinality(S) = m
  BY <1>9, <1>10, FS_Bijection
<1> QED BY <1>1, <1>3, <1>4, <1>11

\* elems_ is what the loops of Resize count, as the assertion at its end says.
ElemsExact == elems = Len(Traversal(length, list))

\* elems_ is the number of entries on the chains after every call of Insert,
\* Remove and Lookup, so neither replacing nor removing an entry, nor a resize,
\* makes the assertion in Resize fail, for any keys and any hash function.
THEOREM ElemsCounted == Spec => []ElemsExact
<1>1. IInv => ElemsExact
  BY CountVisited DEF IInv, ElemsExact
<1>2. IInv /\ [Next]_vars => IInv'
  <2> SUFFICES ASSUME IInv, [Next]_vars PROVE IInv'
    OBVIOUS
  <2>1. CASE UNCHANGED vars
    BY <2>1 DEF vars, IInv, Chained, LinkedIn
  <2> QED BY <2>1, InsertRefines, RemoveRefines, LookupRefines DEF Next
<1> QED BY <1>1, <1>2, Initially, PTL DEF Spec
=============================================================================
