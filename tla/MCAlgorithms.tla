---------------------------- MODULE MCAlgorithms ----------------------------
\* Instance of Algorithms for TLC: two user keys that have a shorter separator
\* between them, and values at and around the limits of buckets, below the first
\* one and beyond the last.
EXTENDS Algorithms

MCUsers == {<<1, 2>>, <<3>>}
MCSamples == {-5, 0, 1, 9, 10, 24, 300, 2000}

=============================================================================
