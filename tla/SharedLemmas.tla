---------------------------- MODULE SharedLemmas ----------------------------
(***************************************************************************)
(* Facts about natural numbers, sequences and sums over finite sets that   *)
(* several components need.  Induction is stated for a set rather than for *)
(* a predicate.                                                            *)
(***************************************************************************)
EXTENDS Integers, Sequences, SequencesExt, FiniteSets, FiniteSetsExt,
        SequenceTheorems, FiniteSetTheorems, TLAPS

\* A set of natural numbers has a least one.
LEMMA LeastOfNats ==
  ASSUME NEW S \in SUBSET Nat, NEW z \in S
  PROVE  /\ Min(S) \in S
         /\ \A y \in S : Min(S) <= y
<1> DEFINE Lt == {e \in Nat \X Nat : e[1] < e[2]}
<1>1. Lt = OpToRel(<, Nat)
  BY DEF OpToRel
<1>2. IsWellFoundedOn(Lt, Nat)
  BY <1>1, NatLessThanWellFounded
<1>3. PICK x \in S : \A y \in S : ~(<<y, x>> \in Lt)
  <2> HIDE DEF Lt
  <2> QED BY <1>2, WFMin
<1>4. ASSUME NEW y \in S PROVE x <= y
  <2>1. y \in Nat /\ x \in Nat
    OBVIOUS
  <2>2. y < x => <<y, x>> \in Lt
    BY <2>1
  <2> QED BY <1>3, <2>1, <2>2
<1>5. \E w \in S : \A y \in S : w <= y
  BY <1>4
<1> QED BY <1>5 DEF Min

\* Induction over the natural numbers.
LEMMA NatSetInduction ==
  ASSUME NEW Q, 0 \in Q, \A n \in Nat : n \in Q => n + 1 \in Q
  PROVE  \A n \in Nat : n \in Q
<1> DEFINE B == {n \in Nat : n \notin Q}
<1>1. SUFFICES ASSUME NEW z \in B PROVE FALSE
  OBVIOUS
<1>2. Min(B) \in B /\ \A y \in B : Min(B) <= y
  <2>1. B \in SUBSET Nat
    OBVIOUS
  <2> HIDE DEF B
  <2> QED BY <2>1, LeastOfNats
<1>3. PICK m \in B : \A y \in B : m <= y
  BY <1>2
<1>4. m \in Nat /\ m \notin Q /\ m # 0
  BY <1>3
<1>5. m - 1 \in Nat /\ m - 1 \notin B
  BY <1>3, <1>4
<1>6. (m - 1) + 1 \in Q
  BY <1>5
<1> QED BY <1>4, <1>6

-----------------------------------------------------------------------------
OnList(s, e) == \E i \in 1..Len(s) : s[i] = e
NoDuplicates(s) == \A i, j \in 1..Len(s) : s[i] = s[j] => i = j

\* Taking the j-th element out of a sequence without duplicates.
LEMMA RemoveIndex ==
  ASSUME NEW X, NEW s \in Seq(X), NoDuplicates(s), NEW j \in 1..Len(s), NEW e, e = s[j]
  PROVE  /\ RemoveFirst(s, e) \in Seq(X)
         /\ Len(RemoveFirst(s, e)) = Len(s) - 1
         /\ \A i \in 1..(Len(s) - 1) : RemoveFirst(s, e)[i] = IF i < j THEN s[i] ELSE s[i + 1]
<1>1. {i \in 1..Len(s) : s[i] = e} = {j}
  BY DEF NoDuplicates
<1>2. Min({j}) = j
  BY DEF Min
<1>3. SelectInSeq(s, LAMBDA v : v = e) = j
  BY <1>1, <1>2 DEF SelectInSeq
<1> DEFINE p == SubSeq(s, 1, j - 1)
           q == SubSeq(s, j + 1, Len(s))
<1>4. RemoveFirst(s, e) = p \o q
  BY <1>3 DEF RemoveFirst, RemoveAt
<1>5. /\ p \in Seq(X) /\ Len(p) = j - 1
      /\ \A i \in 1..(j - 1) : p[i] = s[i]
  OBVIOUS
<1>6. /\ q \in Seq(X) /\ Len(q) = Len(s) - j
      /\ \A i \in 1..(Len(s) - j) : q[i] = s[i + j]
  OBVIOUS
<1> HIDE DEF p, q
<1>7. /\ p \o q \in Seq(X) /\ Len(p \o q) = Len(p) + Len(q)
      /\ \A i \in 1..(Len(p) + Len(q)) :
           (p \o q)[i] = IF i <= Len(p) THEN p[i] ELSE q[i - Len(p)]
  BY <1>5, <1>6, ConcatProperties
<1>8. ASSUME NEW i \in 1..(Len(s) - 1)
      PROVE  (p \o q)[i] = IF i < j THEN s[i] ELSE s[i + 1]
  <2>1. CASE i < j
    BY <2>1, <1>5, <1>6, <1>7
  <2>2. CASE i >= j
    <3>1. i - (j - 1) \in 1..(Len(s) - j) /\ (i - (j - 1)) + j = i + 1
      BY <2>2
    <3>2. (p \o q)[i] = q[i - (j - 1)]
      BY <2>2, <1>5, <1>6, <1>7
    <3>3. q[i - (j - 1)] = s[(i - (j - 1)) + j]
      BY <3>1, <1>6
    <3> QED BY <2>2, <3>1, <3>2, <3>3
  <2>3. i < j \/ i >= j
    OBVIOUS
  <2> QED BY <2>1, <2>2, <2>3, Zenon
<1>9. Len(p \o q) = Len(s) - 1
  BY <1>5, <1>6, <1>7
<1> QED BY <1>4, <1>7, <1>8, <1>9

\* Taking an element out of a sequence without duplicates.
LEMMA RemoveFacts ==
  ASSUME NEW X, NEW s \in Seq(X), NoDuplicates(s), NEW e \in X
  PROVE  /\ RemoveFirst(s, e) \in Seq(X)
         /\ NoDuplicates(RemoveFirst(s, e))
         /\ \A x \in X : OnList(RemoveFirst(s, e), x) <=> OnList(s, x) /\ x # e
<1>1. CASE ~OnList(s, e)
  BY <1>1 DEF RemoveFirst, OnList
<1>2. CASE OnList(s, e)
  <2>1. PICK j \in 1..Len(s) : s[j] = e
    BY <1>2 DEF OnList
  <2> DEFINE r == RemoveFirst(s, e)
  <2>6. /\ r \in Seq(X)
        /\ Len(r) = Len(s) - 1
        /\ \A i \in 1..Len(r) : r[i] = IF i < j THEN s[i] ELSE s[i + 1]
    BY <2>1, RemoveIndex
  <2> HIDE DEF r
  <2>7. NoDuplicates(r)
    <3>0. Len(s) \in Nat
      OBVIOUS
    <3> SUFFICES ASSUME NEW a \in 1..Len(r), NEW b \in 1..Len(r), r[a] = r[b]
                 PROVE  a = b
      BY DEF NoDuplicates
    <3> DEFINE At(i) == IF i < j THEN i ELSE i + 1
    <3>1. At(a) \in 1..Len(s) /\ At(b) \in 1..Len(s)
      BY <2>6, <3>0
    <3>2. r[a] = s[At(a)] /\ r[b] = s[At(b)]
      BY <2>6
    <3>3. At(a) = At(b)
      <4> HIDE DEF At
      <4> QED BY <3>1, <3>2 DEF NoDuplicates
    <3> QED BY <2>6, <3>0, <3>3
  <2>8. ASSUME NEW x \in X PROVE OnList(r, x) <=> OnList(s, x) /\ x # e
    <3>1. ASSUME OnList(r, x) PROVE OnList(s, x) /\ x # e
      BY <3>1, <2>6, <2>1 DEF OnList, NoDuplicates
    <3>2. ASSUME NEW i \in 1..Len(s), s[i] = x, x # e PROVE OnList(r, x)
      <4>1. CASE i < j
        BY <4>1, <3>2, <2>6, <2>1 DEF OnList
      <4>2. CASE i > j
        <5>1. i - 1 \in 1..Len(r) /\ r[i - 1] = s[i]
          BY <4>2, <3>2, <2>6, <2>1
        <5>2. QED
          BY <5>1, <3>2 DEF OnList
      <4>3. QED
        BY <4>1, <4>2, <3>2, <2>1
    <3>3. QED
      BY <3>1, <3>2 DEF OnList
  <2>9. QED
    BY <2>6, <2>7, <2>8 DEF r
<1>3. QED
  BY <1>1, <1>2

\* Putting a new element behind a sequence.
LEMMA AppendFacts ==
  ASSUME NEW X, NEW s \in Seq(X), NoDuplicates(s), NEW e \in X, ~OnList(s, e)
  PROVE  /\ Append(s, e) \in Seq(X)
         /\ NoDuplicates(Append(s, e))
         /\ \A x \in X : OnList(Append(s, e), x) <=> OnList(s, x) \/ x = e
<1>1. /\ Append(s, e) \in Seq(X)
      /\ Len(Append(s, e)) = Len(s) + 1
      /\ \A i \in 1..(Len(s) + 1) : Append(s, e)[i] = IF i <= Len(s) THEN s[i] ELSE e
  OBVIOUS
<1>2. NoDuplicates(Append(s, e))
  BY <1>1 DEF NoDuplicates, OnList
<1>3. \A x \in X : OnList(Append(s, e), x) <=> OnList(s, x) \/ x = e
  BY <1>1 DEF OnList
<1>4. QED
  BY <1>1, <1>2, <1>3

\* Passing over the first element.
LEMMA TailFacts ==
  ASSUME NEW X, NEW s \in Seq(X), NoDuplicates(s), s # << >>
  PROVE  /\ Head(s) \in X
         /\ OnList(s, Head(s))
         /\ Tail(s) \in Seq(X)
         /\ NoDuplicates(Tail(s))
         /\ \A x \in X : OnList(Tail(s), x) <=> OnList(s, x) /\ x # Head(s)
<1>1. /\ Len(s) > 0
      /\ Head(s) = s[1]
      /\ Tail(s) \in Seq(X)
      /\ Len(Tail(s)) = Len(s) - 1
      /\ \A i \in 1..(Len(s) - 1) : Tail(s)[i] = s[i + 1]
  OBVIOUS
<1>2. Head(s) \in X /\ OnList(s, Head(s))
  BY <1>1 DEF OnList
<1>3. NoDuplicates(Tail(s))
  BY <1>1 DEF NoDuplicates
<1>4. ASSUME NEW x \in X PROVE OnList(Tail(s), x) <=> OnList(s, x) /\ x # Head(s)
  <2>1. ASSUME OnList(Tail(s), x) PROVE OnList(s, x) /\ x # Head(s)
    BY <2>1, <1>1 DEF OnList, NoDuplicates
  <2>2. ASSUME NEW i \in 1..Len(s), s[i] = x, x # Head(s) PROVE OnList(Tail(s), x)
    <3>1. i - 1 \in 1..Len(Tail(s)) /\ Tail(s)[i - 1] = s[i]
      BY <2>2, <1>1
    <3>2. QED
      BY <3>1, <2>2 DEF OnList
  <2>3. QED
    BY <2>1, <2>2 DEF OnList
<1>5. QED
  BY <1>1, <1>2, <1>3, <1>4

-----------------------------------------------------------------------------
\* Induction over the subsets of a finite set, stated for a set Q of subsets
\* rather than for a predicate: Q holds a subset when it holds all smaller ones.
LEMMA SubsetInduction ==
  ASSUME NEW S, IsFiniteSet(S), NEW Q,
         \A T \in SUBSET S : (\A U \in SUBSET T : U # T => U \in Q) => T \in Q
  PROVE  \A T \in SUBSET S : T \in Q
<1> DEFINE B == {T \in SUBSET S : T \notin Q}
<1>1. SUFFICES ASSUME B # {} PROVE FALSE
  OBVIOUS
<1>2. B \subseteq FiniteSubsetsOf(S)
  BY FS_Subset DEF FiniteSubsetsOf
<1>3. PICK m \in B : \A U \in B : ~ (<<U, m>> \in StrictSubsetOrdering(S))
  <2>1. IsWellFoundedOn(StrictSubsetOrdering(S), FiniteSubsetsOf(S))
    BY FS_StrictSubsetOrderingWellFounded
  <2> HIDE DEF B
  <2> QED BY <1>1, <1>2, <2>1, WFMin
<1>4. ASSUME NEW U \in SUBSET m, U # m PROVE U \in Q
  BY <1>3, <1>4 DEF StrictSubsetOrdering
<1> QED BY <1>3, <1>4

\* The element a sum takes first, the function that sums up all subsets of S,
\* and the sum of c over S.
Pick(s) == CHOOSE x \in s : TRUE

Sums(g, S, c) ==
  g = [s \in SUBSET S |-> IF s = {} THEN 0 ELSE c[Pick(s)] + g[s \ {Pick(s)}]]

Total(c, S) == MapThenSumSet(LAMBDA e : c[e], S)

\* The total as the value of such a function.
LEMMA TotalForm ==
  ASSUME NEW S, NEW c
  PROVE  Total(c, S) = (CHOOSE g : Sums(g, S, c))[S]
BY DEF Total, MapThenSumSet, MapThenFoldSet, Pick, Sums

\* CHOOSE picks an element.
LEMMA PickIn == ASSUME NEW S, S # {} PROVE Pick(S) \in S
BY DEF Pick

\* What such a function says of one set.
LEMMA SumsAt ==
  ASSUME NEW g, NEW S, NEW c, Sums(g, S, c), NEW T \in SUBSET S
  PROVE  /\ T = {} => g[T] = 0
         /\ T # {} => g[T] = c[Pick(T)] + g[T \ {Pick(T)}]
BY DEF Sums

\* Two such functions agree where both are defined and add up the same charges.
LEMMA SumsAgree ==
  ASSUME NEW R, IsFiniteSet(R), NEW S, NEW T, R \subseteq S, R \subseteq T,
         NEW c, NEW d, \A x \in R : c[x] = d[x],
         NEW g, NEW h, Sums(g, S, c), Sums(h, T, d)
  PROVE  g[R] = h[R]
<1> DEFINE Q == {U \in SUBSET R : g[U] = h[U]}
<1>1. ASSUME NEW U \in SUBSET R, \A V \in SUBSET U : V # U => V \in Q PROVE U \in Q
  <2>1. CASE U = {}
    BY <2>1, SumsAt
  <2>2. CASE U # {}
    <3>1. Pick(U) \in U
      BY <2>2, PickIn
    <3>2. U \ {Pick(U)} \in SUBSET U /\ U \ {Pick(U)} # U
      BY <3>1
    <3>3. g[U \ {Pick(U)}] = h[U \ {Pick(U)}]
      BY <1>1, <3>2
    <3>4. c[Pick(U)] = d[Pick(U)]
      BY <3>1
    <3>5. U \in SUBSET S /\ U \in SUBSET T
      OBVIOUS
    <3>6. g[U] = c[Pick(U)] + g[U \ {Pick(U)}]
      BY <2>2, <3>5, SumsAt
    <3>7. h[U] = d[Pick(U)] + h[U \ {Pick(U)}]
      BY <2>2, <3>5, SumsAt
    <3> QED BY <3>3, <3>4, <3>6, <3>7
  <2> QED BY <2>1, <2>2
<1>2. \A U \in SUBSET R : U \in Q
  <2> HIDE DEF Q
  <2> QED BY <1>1, SubsetInduction
<1> QED BY <1>2

\* Such a function exists.
LEMMA SumsExist ==
  ASSUME NEW S, IsFiniteSet(S), NEW c
  PROVE  \A T \in SUBSET S : \E g : Sums(g, T, c)
<1> DEFINE Q == {T \in SUBSET S : \E g : Sums(g, T, c)}
           F(T) == CHOOSE g : Sums(g, T, c)
<1>1. ASSUME NEW T \in SUBSET S, \A U \in SUBSET T : U # T => U \in Q PROVE T \in Q
  <2> DEFINE g == [s \in SUBSET T |-> IF s = {} THEN 0
                                      ELSE c[Pick(s)] + F(s \ {Pick(s)})[s \ {Pick(s)}]]
  <2>1. \A U \in SUBSET T : U # T => Sums(F(U), U, c)
    BY <1>1
  <2> HIDE DEF F
  <2>2. ASSUME NEW U \in SUBSET T, U # T PROVE g[U] = F(U)[U]
    <3>0. Sums(F(U), U, c) /\ U \in SUBSET U
      BY <2>1, <2>2
    <3>1. CASE U = {}
      BY <3>0, <3>1, SumsAt
    <3>2. CASE U # {}
      <4> DEFINE V == U \ {Pick(U)}
      <4>1. Pick(U) \in U
        BY <3>2, PickIn
      <4>2. V \in SUBSET T /\ V # T /\ V \subseteq U /\ V \subseteq V
        BY <4>1
      <4>3. IsFiniteSet(V)
        BY <4>2, FS_Subset
      <4>4. F(U)[U] = c[Pick(U)] + F(U)[V]
        BY <3>0, <3>2, SumsAt
      <4>5. Sums(F(V), V, c)
        BY <4>2, <2>1
      <4>6. F(U)[V] = F(V)[V]
        <5> HIDE DEF V
        <5> QED BY <4>2, <4>3, <4>5, <3>0, SumsAgree
      <4>7. g[U] = c[Pick(U)] + F(V)[V]
        BY <3>2
      <4> QED BY <4>4, <4>6, <4>7
    <3> QED BY <3>1, <3>2
  <2>3. ASSUME NEW s \in SUBSET T, s # {} PROVE F(s \ {Pick(s)})[s \ {Pick(s)}] = g[s \ {Pick(s)}]
    <3>1. s \ {Pick(s)} \in SUBSET T /\ s \ {Pick(s)} # T
      BY <2>3, PickIn
    <3> HIDE DEF g
    <3> QED BY <2>2, <3>1
  <2>4. g = [s \in SUBSET T |-> IF s = {} THEN 0 ELSE c[Pick(s)] + g[s \ {Pick(s)}]]
    <3> DEFINE e(s) == IF s = {} THEN 0 ELSE c[Pick(s)] + g[s \ {Pick(s)}]
    <3>1. ASSUME NEW s \in SUBSET T PROVE g[s] = e(s)
      <4>1. CASE s = {}
        BY <4>1
      <4>2. CASE s # {}
        <5>1. g[s] = c[Pick(s)] + F(s \ {Pick(s)})[s \ {Pick(s)}]
          BY <4>2
        <5> HIDE DEF g
        <5> QED BY <4>2, <5>1, <2>3
      <4> QED BY <4>1, <4>2
    <3>2. g = [s \in SUBSET T |-> g[s]]
      OBVIOUS
    <3> HIDE DEF g
    <3> QED BY <3>1, <3>2
  <2>5. Sums(g, T, c)
    <3> HIDE DEF g
    <3> QED BY <2>4 DEF Sums
  <2> HIDE DEF g
  <2> QED BY <2>5
<1>2. \A T \in SUBSET S : T \in Q
  <2> HIDE DEF Q
  <2> QED BY <1>1, SubsetInduction
<1> QED BY <1>2

\* The total of a set from that of the set without the element picked.
LEMMA TotalRecursion ==
  ASSUME NEW S, IsFiniteSet(S), NEW c
  PROVE  /\ S = {} => Total(c, S) = 0
         /\ S # {} => Total(c, S) = c[Pick(S)] + Total(c, S \ {Pick(S)})
<1> DEFINE F(T) == CHOOSE g : Sums(g, T, c)
<1>1. \A T \in SUBSET S : Sums(F(T), T, c) /\ Total(c, T) = F(T)[T]
  BY SumsExist, TotalForm
<1> HIDE DEF F
<1>2. Sums(F(S), S, c) /\ Total(c, S) = F(S)[S]
  BY <1>1
<1>3. CASE S = {}
  BY <1>2, <1>3, SumsAt
<1>4. CASE S # {}
  <2> DEFINE V == S \ {Pick(S)}
  <2>1. V \in SUBSET S /\ V \subseteq V
    OBVIOUS
  <2>2. Sums(F(V), V, c) /\ Total(c, V) = F(V)[V]
    BY <1>1, <2>1
  <2>3. IsFiniteSet(V)
    BY FS_Subset
  <2>4. F(S)[V] = F(V)[V]
    <3> HIDE DEF V
    <3> QED BY <1>2, <2>1, <2>2, <2>3, SumsAgree
  <2>5. F(S)[S] = c[Pick(S)] + F(S)[V]
    <3>1. S \in SUBSET S
      OBVIOUS
    <3> QED BY <1>2, <1>4, <3>1, SumsAt
  <2> QED BY <1>2, <1>4, <2>2, <2>4, <2>5
<1> QED BY <1>3, <1>4

\* The total depends only on the charges of the set's elements.
LEMMA TotalAgrees ==
  ASSUME NEW S, IsFiniteSet(S), NEW c, NEW d, \A x \in S : c[x] = d[x]
  PROVE  Total(c, S) = Total(d, S)
<1>1. PICK g : Sums(g, S, c) /\ Total(c, S) = g[S]
  BY SumsExist, TotalForm
<1>2. PICK h : Sums(h, S, d) /\ Total(d, S) = h[S]
  BY SumsExist, TotalForm
<1>3. S \subseteq S
  OBVIOUS
<1> QED BY <1>1, <1>2, <1>3, SumsAgree

\* It does not depend on the order in which they are added.
LEMMA TotalWithout ==
  ASSUME NEW S, IsFiniteSet(S), NEW c, \A x \in S : c[x] \in Nat
  PROVE  /\ Total(c, S) \in Nat
         /\ \A x \in S : Total(c, S) = c[x] + Total(c, S \ {x})
<1> DEFINE Q == {T \in SUBSET S : /\ Total(c, T) \in Nat
                                  /\ \A x \in T : Total(c, T) = c[x] + Total(c, T \ {x})}
<1>1. ASSUME NEW T \in SUBSET S, \A U \in SUBSET T : U # T => U \in Q PROVE T \in Q
  <2>f. \A U \in SUBSET T : IsFiniteSet(U)
    BY FS_Subset
  <2>1. CASE T = {}
    <3>1. IsFiniteSet(T)
      BY <2>f
    <3>2. Total(c, T) = 0
      BY <2>1, <3>1, TotalRecursion
    <3> QED BY <2>1, <3>2
  <2>2. CASE T # {}
    <3> DEFINE p == Pick(T)
    <3>0. p \in T
      BY <2>2, PickIn
    <3>1. Total(c, T) = c[p] + Total(c, T \ {p})
      BY <2>2, <2>f, TotalRecursion
    <3> HIDE DEF p
    <3>2. T \ {p} \in Q
      BY <1>1, <3>0
    <3>3. Total(c, T \ {p}) \in Nat /\ c[p] \in Nat
      BY <3>0, <3>2
    <3>4. ASSUME NEW x \in T, x # p PROVE Total(c, T) = c[x] + Total(c, T \ {x})
      <4>1. T \ {x} \in Q /\ x \in T \ {p} /\ p \in T \ {x}
        BY <1>1, <3>0, <3>4
      <4>2. (T \ {p}) \ {x} = (T \ {x}) \ {p}
        OBVIOUS
      <4>3. Total(c, T \ {p}) = c[x] + Total(c, (T \ {p}) \ {x})
        BY <3>2, <4>1
      <4>4. Total(c, T \ {x}) = c[p] + Total(c, (T \ {p}) \ {x})
        BY <4>1, <4>2
      <4>5. (T \ {p}) \ {x} \in Q
        <5>1. (T \ {p}) \ {x} \in SUBSET T /\ (T \ {p}) \ {x} # T
          BY <3>0
        <5> QED BY <1>1, <5>1
      <4>6. Total(c, (T \ {p}) \ {x}) \in Nat /\ c[x] \in Nat
        BY <4>5
      <4> QED BY <3>1, <3>3, <4>3, <4>4, <4>6
    <3>5. Total(c, T) \in Nat
      BY <3>1, <3>3
    <3>6. ASSUME NEW x \in T PROVE Total(c, T) = c[x] + Total(c, T \ {x})
      <4>1. CASE x = p
        BY <3>1, <4>1, Zenon
      <4>2. CASE x # p
        BY <3>4, <4>2, Zenon
      <4> QED BY <4>1, <4>2, Zenon
    <3> QED BY <3>5, <3>6
  <2> QED BY <2>1, <2>2
<1>2. \A T \in SUBSET S : T \in Q
  <2> HIDE DEF Q
  <2> QED BY <1>1, SubsetInduction
<1>3. S \in Q
  <2>1. S \in SUBSET S
    OBVIOUS
  <2> HIDE DEF Q
  <2> QED BY <1>2, <2>1
<1> QED BY <1>3

\* A larger set has the larger total.
LEMMA TotalGrows ==
  ASSUME NEW S, IsFiniteSet(S), NEW c, \A x \in S : c[x] \in Nat, NEW T \in SUBSET S
  PROVE  Total(c, T) <= Total(c, S)
<1> DEFINE Q == {R \in SUBSET S : T \subseteq R => Total(c, T) <= Total(c, R)}
<1>f. ASSUME NEW R \in SUBSET S
      PROVE  /\ Total(c, R) \in Nat
             /\ \A x \in R : Total(c, R) = c[x] + Total(c, R \ {x})
  <2>1. IsFiniteSet(R) /\ \A x \in R : c[x] \in Nat
    BY FS_Subset
  <2> QED BY <2>1, TotalWithout
<1>1. ASSUME NEW R \in SUBSET S, \A U \in SUBSET R : U # R => U \in Q PROVE R \in Q
  <2> SUFFICES ASSUME T \subseteq R PROVE Total(c, T) <= Total(c, R)
    OBVIOUS
  <2>1. CASE R = T
    BY <2>1, <1>f
  <2>2. CASE R # T
    <3>1. PICK x \in R : x \notin T
      BY <2>2
    <3>2. R \ {x} \in SUBSET R /\ R \ {x} # R /\ T \subseteq R \ {x}
      BY <3>1
    <3>3. Total(c, T) <= Total(c, R \ {x})
      BY <1>1, <3>2
    <3>4. Total(c, R) = c[x] + Total(c, R \ {x})
      BY <1>f
    <3>5. Total(c, R \ {x}) \in Nat /\ Total(c, T) \in Nat /\ c[x] \in Nat
      BY <1>f
    <3> QED BY <3>3, <3>4, <3>5
  <2> QED BY <2>1, <2>2
<1>2. \A R \in SUBSET S : R \in Q
  <2> HIDE DEF Q
  <2> QED BY <1>1, SubsetInduction
<1>3. S \in Q
  <2>1. S \in SUBSET S
    OBVIOUS
  <2> HIDE DEF Q
  <2> QED BY <1>2, <2>1
<1> QED BY <1>3

\* The totals of disjoint sets add up.
LEMMA TotalSplits ==
  ASSUME NEW S, IsFiniteSet(S), NEW c, \A x \in S : c[x] \in Nat, NEW T \in SUBSET S
  PROVE  Total(c, S) = Total(c, T) + Total(c, S \ T)
<1> DEFINE Q == {R \in SUBSET S : T \subseteq R => Total(c, R) = Total(c, T) + Total(c, R \ T)}
<1>f. ASSUME NEW R \in SUBSET S
      PROVE  /\ Total(c, R) \in Nat
             /\ \A x \in R : Total(c, R) = c[x] + Total(c, R \ {x})
  <2>1. IsFiniteSet(R) /\ \A x \in R : c[x] \in Nat
    BY FS_Subset
  <2> QED BY <2>1, TotalWithout
<1>1. ASSUME NEW R \in SUBSET S, \A U \in SUBSET R : U # R => U \in Q PROVE R \in Q
  <2> SUFFICES ASSUME T \subseteq R PROVE Total(c, R) = Total(c, T) + Total(c, R \ T)
    OBVIOUS
  <2>1. CASE R = T
    <3>1. R \ T = {}
      BY <2>1
    <3>2. Total(c, R \ T) = 0
      BY <3>1, FS_EmptySet, TotalRecursion
    <3>3. Total(c, T) \in Nat
      BY <1>f
    <3> QED BY <2>1, <3>2, <3>3
  <2>2. CASE R # T
    <3>1. PICK x \in R : x \notin T
      BY <2>2
    <3>2. R \ {x} \in SUBSET R /\ R \ {x} # R /\ T \subseteq R \ {x}
      BY <3>1
    <3>3. Total(c, R \ {x}) = Total(c, T) + Total(c, (R \ {x}) \ T)
      BY <1>1, <3>2
    <3>4. Total(c, R) = c[x] + Total(c, R \ {x})
      BY <1>f
    <3>5. (R \ {x}) \ T = (R \ T) \ {x} /\ R \ T \in SUBSET S /\ x \in R \ T
      BY <3>1
    <3>6. Total(c, R \ T) = c[x] + Total(c, (R \ T) \ {x})
      BY <1>f, <3>5
    <3>7. /\ Total(c, R \ {x}) \in Nat /\ Total(c, T) \in Nat /\ c[x] \in Nat
          /\ Total(c, (R \ T) \ {x}) \in Nat
      BY <1>f
    <3> QED BY <3>3, <3>4, <3>5, <3>6, <3>7
  <2> QED BY <2>1, <2>2
<1>2. \A R \in SUBSET S : R \in Q
  <2> HIDE DEF Q
  <2> QED BY <1>1, SubsetInduction
<1>3. S \in Q
  <2>1. S \in SUBSET S
    OBVIOUS
  <2> HIDE DEF Q
  <2> QED BY <1>2, <2>1
<1> QED BY <1>3

=============================================================================
