----------------------------- MODULE MCFileLock -----------------------------
(* Instances of FileLock for TLC.                                           *)
EXTENDS FileLock

TwoCallers(p) == {1, 2}
=============================================================================
