---------------------------- MODULE MergedCursor ----------------------------
(***************************************************************************)
(* What a merging iterator promises (include/lldb/iterator.h, read for the *)
(* source that all children are together): a cursor over all entries, as   *)
(* long as status() is OK.  After an error it may be anywhere: whoever     *)
(* finds it invalid has to ask for the status.                             *)
(*                                                                         *)
(* An entry is a key and the child that holds it, and copies of a key in   *)
(* several children are ordered as the children are.  Next and Prev of     *)
(* Spec do what the code does when the iterator turns around: the copies   *)
(* of the current key in other children are passed over.  Those of         *)
(* ExactSpec do what the interface says.  Without copies they are the      *)
(* same.                                                                   *)
(***************************************************************************)
EXTENDS Integers

CONSTANTS Keys,   \* keys a caller may seek to
          Bad     \* where an iterator that is not Valid() is

VARIABLES entries,  \* the entries of the source, as pairs
          at,       \* the entry it is positioned at, or Bad
          heading,  \* the direction of the last move
          status    \* status()

Before(e, f) == e[1] < f[1] \/ (e[1] = f[1] /\ e[2] < f[2])

FirstOf(S) == IF S = {} THEN Bad ELSE CHOOSE e \in S : \A f \in S \ {e} : Before(e, f)
LastOf(S) == IF S = {} THEN Bad ELSE CHOOSE e \in S : \A f \in S \ {e} : Before(f, e)

Init == at = Bad /\ heading = "forward" /\ status = "ok"

ToFirstOf(S) == at' = FirstOf(S) /\ heading' = "forward"
ToLastOf(S) == at' = LastOf(S) /\ heading' = "reverse"

Seek(k) == ToFirstOf({e \in entries : e[1] >= k})
SeekToFirst == ToFirstOf(entries)
SeekToLast == ToLastOf(entries)

ExactNext == at \in entries /\ ToFirstOf({e \in entries : Before(at, e)})
ExactPrev == at \in entries /\ ToLastOf({e \in entries : Before(e, at)})

\* The first entry with a larger key, and the last one with a smaller key.
NextKey == at \in entries /\ ToFirstOf({e \in entries : at[1] < e[1]})
PrevKey == at \in entries /\ ToLastOf({e \in entries : e[1] < at[1]})

Next == IF heading = "forward" THEN ExactNext ELSE NextKey
Prev == IF heading = "reverse" THEN ExactPrev ELSE PrevKey

Seeks == (\E k \in Keys : Seek(k)) \/ SeekToFirst \/ SeekToLast

Fail == status' = "error" /\ at' \in entries \union {Bad}

Step ==
  /\ \/ status = "ok" /\ (Seeks \/ Next \/ Prev) /\ status' = "ok"
     \/ Fail
  /\ UNCHANGED entries

ExactStep ==
  /\ \/ status = "ok" /\ (Seeks \/ ExactNext \/ ExactPrev) /\ status' = "ok"
     \/ Fail
  /\ UNCHANGED entries

Spec == Init /\ [][Step]_<<entries, at, heading, status>>
ExactSpec == Init /\ [][ExactStep]_<<entries, at, heading, status>>

=============================================================================
