----------------------------- MODULE Histogram ------------------------------
(***************************************************************************)
(* Histogram of util/histogram.cpp, as functions of its members.  The code *)
(* computes with doubles; here a value is a whole number and a result that *)
(* need not be whole is a fraction <<numerator, denominator>>, or NaN.     *)
(***************************************************************************)
EXTENDS Integers, Sequences, SequencesExt, FiniteSets, FiniteSetsExt, Functions

CONSTANTS Decades,    \* bound: powers of ten in the table (9 in the code)
          LastLimit   \* 1e200

Mantissas == <<10, 12, 14, 16, 18, 20, 25, 30, 35, 40, 45, 50, 60, 70, 80, 90>>
kBucketLimit ==
  [i \in 1..9 |-> i]
    \o FlattenSeq([d \in 1..Decades |-> [i \in 1..16 |-> Mantissas[i] * 10^(d - 1)]])
    \o <<LastLimit>>
kNumBuckets == Len(kBucketLimit)

Clear == [min |-> LastLimit, max |-> 0, num |-> 0, sum |-> 0, squares |-> 0,
          buckets |-> [b \in 1..kNumBuckets |-> 0]]

\* The first bucket whose limit is larger, or the last one.
BucketOf(value) == Min({b \in 1..kNumBuckets : kBucketLimit[b] > value} \union {kNumBuckets})

Add(h, value) ==
  [min |-> Min({h.min, value}), max |-> Max({h.max, value}), num |-> h.num + 1,
   sum |-> h.sum + value, squares |-> h.squares + value * value,
   buckets |-> [h.buckets EXCEPT ![BucketOf(value)] = @ + 1]]

MergeOnlyCounts(h, other) ==
  [h EXCEPT !.num = @ + other.num, !.sum = @ + other.sum, !.squares = @ + other.squares,
            !.buckets = [b \in 1..kNumBuckets |-> @[b] + other.buckets[b]]]

Merge(h, other) ==
  [min |-> Min({h.min, other.min}), max |-> Max({h.max, other.max}), num |-> h.num + other.num,
   sum |-> h.sum + other.sum, squares |-> h.squares + other.squares,
   buckets |-> [b \in 1..kNumBuckets |-> h.buckets[b] + other.buckets[b]]]

\* f <= n and n <= f for a fraction f and a number n.
AtMost(f, n) == f[1] <= n * f[2]
AtLeast(f, n) == f[1] >= n * f[2]

\* The first bucket at which the sum of the counts reaches p percent of num_;
\* in an empty bucket the position is 0 / 0, and stays so through the clipping.
Percentile(h, p) ==
  LET SumTo(b) == FoldFunctionOnSet(+, 0, h.buckets, 1..b)
      b == Min({x \in 1..kNumBuckets : 100 * SumTo(x) >= h.num * p})
      left == IF b = 1 THEN 0 ELSE kBucketLimit[b - 1]
      count == h.buckets[b]
      r == <<left * 100 * count + (kBucketLimit[b] - left) * (h.num * p - 100 * SumTo(b - 1)), 100 * count>>
  IN IF count = 0 THEN "NaN"
     ELSE IF ~AtLeast(r, h.min) THEN <<h.min, 1>>
     ELSE IF ~AtMost(r, h.max) THEN <<h.max, 1>> ELSE r

Median(h) == Percentile(h, 50)

Average(h) == IF h.num = 0 THEN <<0, 1>> ELSE <<h.sum, h.num>>

=============================================================================
