------------------------------ MODULE MCMemEnv ------------------------------
\* Instance of MemEnv for TLC; FileStates are interchangeable, and so are the
\* file objects.
EXTENDS MemEnv, TLC

Symmetry == Permutations(States) \union Permutations(Objects) \union Permutations(Names)

=============================================================================
