------------------------------ MODULE DBFormat ------------------------------
(***************************************************************************)
(* Internal keys (db/dbformat.h, db/dbformat.cpp) over the built-in user   *)
(* comparator (util/comparator.cpp).                                       *)
(*                                                                         *)
(* A user key is a sequence of bytes.  An internal key is a user key and   *)
(* the number in its last eight bytes, which packs a sequence number and a *)
(* type; module Coding is about how such a number is laid out in bytes.    *)
(***************************************************************************)
EXTENDS Integers, Sequences, SequencesExt, FiniteSets, FiniteSetsExt

CONSTANTS MaxByte,   \* 0xff
          MaxKeyLen, \* bound: length of a user key
          TypeBase,  \* 2^8, the values of the type byte
          MaxSeq     \* kMaxSequenceNumber

ASSUME FormatAssumption ==
  /\ MaxByte \in Nat /\ MaxKeyLen \in Nat /\ MaxSeq \in Nat
  /\ TypeBase \in Nat /\ TypeBase >= 2

kTypeDeletion == 0
kTypeValue == 1
kValueTypeForSeek == kTypeValue

UserKeys == BoundedSeq(0..MaxByte, MaxKeyLen)
InternalKeys == [user : UserKeys, num : 0..(MaxSeq * TypeBase + TypeBase - 1)]

-----------------------------------------------------------------------------
\* Slice::compare: bytewise, a proper prefix is smaller.
Less(a, b) ==
  \/ IsStrictPrefix(a, b)
  \/ \E i \in 1..Min({Len(a), Len(b)}) :
       a[i] < b[i] /\ \A j \in 1..(i - 1) : a[j] = b[j]

\* The first position where the keys differ, or one past the shorter key.
DiffIndex(start, limit) ==
  LET n == Min({Len(start), Len(limit)})
  IN Min({i \in 1..n : start[i] # limit[i]} \union {n + 1})

SeparatorReachesLimit(start, limit) ==
  LET i == DiffIndex(start, limit)
  IN IF i <= Min({Len(start), Len(limit)}) /\ start[i] < MaxByte /\ start[i] + 1 <= limit[i]
     THEN Append(SubSeq(start, 1, i - 1), start[i] + 1)
     ELSE start

\* BytewiseComparatorImpl::FindShortestSeparator
UserSeparator(start, limit) ==
  LET i == DiffIndex(start, limit)
  IN IF i <= Min({Len(start), Len(limit)}) /\ start[i] < MaxByte /\ start[i] + 1 < limit[i]
     THEN Append(SubSeq(start, 1, i - 1), start[i] + 1)
     ELSE start

\* BytewiseComparatorImpl::FindShortSuccessor: a key of 0xff bytes is kept.
UserSuccessor(k) ==
  LET room == {i \in 1..Len(k) : k[i] # MaxByte}
  IN IF room = {} THEN k
     ELSE Append(SubSeq(k, 1, Min(room) - 1), k[Min(room)] + 1)

\* PackSequenceAndType
Pack(seq, t) == seq * TypeBase + t

\* AppendInternalKey
MakeInternalKey(user, seq, t) == [user |-> user, num |-> Pack(seq, t)]

\* ParseInternalKey of a slice that has the eight bytes of the number.
ParseInternalKey(k) ==
  [ok |-> k.num % TypeBase <= kTypeValue,
   user |-> k.user, seq |-> k.num \div TypeBase, type |-> k.num % TypeBase]

\* InternalKeyComparator::Compare(a, b) < 0
KeyLess(a, b) ==
  Less(a.user, b.user) \/ (a.user = b.user /\ a.num > b.num)

\* "Tack on the earliest possible number to the shortened user key."
Earliest(user) == MakeInternalKey(user, MaxSeq, kValueTypeForSeek)

\* InternalKeyComparator::FindShortestSeparator
FindShortestSeparator(start, limit) ==
  LET tmp == UserSeparator(start.user, limit.user)
  IN IF Len(tmp) < Len(start.user) /\ Less(start.user, tmp) THEN Earliest(tmp) ELSE start

\* InternalKeyComparator::FindShortSuccessor
FindShortSuccessor(k) ==
  LET tmp == UserSuccessor(k.user)
  IN IF Len(tmp) < Len(k.user) /\ Less(k.user, tmp) THEN Earliest(tmp) ELSE k

LookupFromZero(user, seq) == MakeInternalKey(user, seq, kTypeDeletion)

\* LookupKey(user_key, s).internal_key()
LookupKey(user, seq) == MakeInternalKey(user, seq, kValueTypeForSeek)

=============================================================================
