------------------------- MODULE MCIteratorCleanup --------------------------
\* Instance of IteratorCleanup for TLC; heap nodes are interchangeable.
EXTENDS IteratorCleanup, TLC

Symmetry == Permutations(CleanupNodes)

=============================================================================
