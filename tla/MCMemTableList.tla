--------------------------- MODULE MCMemTableList ---------------------------
\* Instance of MemTableList for TLC.
EXTENDS MemTableList

MCKeys == 1..3
=============================================================================
