--------------------------- MODULE MCHandleTable ---------------------------
(* Five keys whose hashes collide on 4 chains, on 8 chains, and fully (keys *)
(* 2 and 5); the fifth entry makes Resize split and reverse the chains.     *)
EXTENDS HandleTable

MCKeys == 1..5
MCHash == <<0, 4, 8, 1, 4>>
=============================================================================
