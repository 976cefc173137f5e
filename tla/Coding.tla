------------------------------- MODULE Coding -------------------------------
(***************************************************************************)
(* The encodings of util/coding.h, util/coding.cpp and util/logging.cpp.   *)
(*                                                                         *)
(* A byte carries Group bits of a varint (7 in the code) and a flag, so a  *)
(* byte is a number below 2 * D with D = 2^Group.  Values have a width of  *)
(* Bits bits: 32 or 64 in the code, and small numbers here that stand to   *)
(* Group as those do to 7.                                                 *)
(***************************************************************************)
EXTENDS Integers, Sequences, SequencesExt, FiniteSets

CONSTANTS Group,   \* bits of a value in one byte of a varint
          Bits,    \* width of the values
          Base     \* 10

ASSUME CodingAssumption ==
  /\ Group \in Nat \ {0} /\ Bits \in Nat /\ Bits > Group
  /\ Base \in Nat /\ Base >= 2

D == 2^Group                 \* the constant B = 128 of the code
Modulus == 2^Bits
Values == 0..(Modulus - 1)
Byte == 0..(2 * D - 1)
LastShift == Group * ((Bits - 1) \div Group)   \* 28 for 32 bits, 63 for 64
Failure == [ok |-> FALSE, value |-> 0, used |-> 0]

-----------------------------------------------------------------------------
\* v | B stored in a byte: the low group with the flag set.
More(v) == (v % D) + D

\* EncodeVarint32: one case per length, the last one open-ended.
EncodeVarint32(v) ==
  LET n == LastShift \div Group + 1
      len == CHOOSE l \in 1..n : (v < D^l \/ l = n) /\ \A m \in 1..(l - 1) : v >= D^m
  IN [i \in 1..len |-> IF i < len THEN More(v \div D^(i - 1)) ELSE v \div D^(i - 1)]

\* EncodeVarint64: while (v >= B).
EncodeVarint64(x) ==
  LET Loop[w \in Nat] == IF w >= D THEN <<More(w)>> \o Loop[w \div D] ELSE <<w>>
  IN Loop[x]

VarintLengthOffByOne(x) ==
  LET Loop[w \in Nat] == IF w > D THEN 1 + Loop[w \div D] ELSE 1
  IN Loop[x]

VarintLength(x) ==
  LET Loop[w \in Nat] == IF w >= D THEN 1 + Loop[w \div D] ELSE 1
  IN Loop[x]

\* The loop of GetVarint32PtrFallback and GetVarint64Ptr at byte i: result holds
\* the groups read so far.  The shifted byte loses the bits above the width.
DecodeWithoutShiftLimit(in) ==
  LET Loop[i \in Nat, result \in Nat] ==
        LET shift == Group * (i - 1)
        IN IF i > Len(in) THEN Failure
           ELSE IF in[i] >= D
                THEN Loop[i + 1, result + (((in[i] - D) * 2^shift) % Modulus)]
                ELSE [ok |-> TRUE, value |-> result + ((in[i] * 2^shift) % Modulus), used |-> i]
  IN Loop[1, 0]

GetVarintFallback(in) ==
  LET Loop[i \in Nat, result \in Nat] ==
        LET shift == Group * (i - 1)
        IN IF shift > LastShift \/ i > Len(in) THEN Failure
           ELSE IF in[i] >= D
                THEN Loop[i + 1, result + (((in[i] - D) * 2^shift) % Modulus)]
                ELSE [ok |-> TRUE, value |-> result + ((in[i] * 2^shift) % Modulus), used |-> i]
  IN Loop[1, 0]

\* GetVarint32Ptr: the inlined case of a single byte.
GetVarintPtr(in) ==
  IF in # << >> /\ in[1] < D THEN [ok |-> TRUE, value |-> in[1], used |-> 1]
  ELSE GetVarintFallback(in)

\* PutLengthPrefixedSlice
PutLengthPrefixed(slice) == EncodeVarint32(Len(slice)) \o slice

\* GetLengthPrefixedSlice: value is the length of the slice, used what is consumed.
GetLengthPrefixed(in) ==
  LET len == GetVarintPtr(in)
  IN IF len.ok /\ Len(in) - len.used >= len.value
     THEN [ok |-> TRUE, value |-> len.value, used |-> len.used + len.value]
     ELSE Failure

\* EncodeFixed32, EncodeFixed64: bytes of W bits, least significant first.
W == Group + 1
FixedBytes == (Bits + W - 1) \div W
EncodeFixed(v) == [i \in 1..FixedBytes |-> (v \div 2^(W * (i - 1))) % 2^W]

DecodeFixed(in) ==
  LET Sum[i \in Nat] == IF i = 0 THEN 0 ELSE in[i] * 2^(W * (i - 1)) + Sum[i - 1]
  IN Sum[FixedBytes] % Modulus

-----------------------------------------------------------------------------
\* Decimal numbers (util/logging.cpp) in base Base: the digits are the bytes
\* below Base, and every other byte ends the number.
AppendNumberTo(v) ==
  LET Loop[w \in Nat] == IF w < Base THEN <<w>> ELSE Append(Loop[w \div Base], w % Base)
  IN Loop[v]

\* ConsumeDecimalNumber: kMaxUint64 is Modulus - 1, and the test before each
\* digit refuses a number that would exceed it.
ConsumeDecimalNumber(in) ==
  LET max == Modulus - 1
      Loop[i \in Nat, value \in Nat] ==
        IF i > Len(in) \/ in[i] >= Base THEN [ok |-> i > 1, value |-> value, used |-> i - 1]
        ELSE IF value > max \div Base \/ (value = max \div Base /\ in[i] > max % Base) THEN Failure
        ELSE Loop[i + 1, value * Base + in[i]]
  IN Loop[1, 0]

=============================================================================
