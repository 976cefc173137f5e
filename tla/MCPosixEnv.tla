----------------------------- MODULE MCPosixEnv -----------------------------
\* Instance of PosixEnv for TLC.
EXTENDS PosixEnv

TwoCallers(p) == {1, 2}

=============================================================================
