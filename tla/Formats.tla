------------------------------ MODULE Formats -------------------------------
(***************************************************************************)
(* The formats of keys, numbers and filters, checked over every input      *)
(* within the bounds.  The state is an input and never changes:            *)
(*   - a number and a sequence of bytes, well-formed or not;               *)
(*   - two internal keys;                                                  *)
(*   - a sorted run of entries, with a user key and a snapshot to look up, *)
(*     as a memtable or a table is searched with a LookupKey;              *)
(*   - the keys of a table, for which InternalFilterPolicy builds a filter *)
(*     that a policy with other parameters may read;                       *)
(*   - the lengths of a log line's header and message.                     *)
(***************************************************************************)
EXTENDS Coding, DBFormat, BloomFilter, LogLine

CONSTANTS MaxLen,    \* bound: length of the inputs to decode
          MaxKeys,   \* bound: keys of one filter
          Users,     \* user keys of the entries
          Policies,  \* values of bits_per_key
          MaxMessage \* bound: characters of a log message

ASSUME FormatsAssumption ==
  /\ MaxLen \in Nat /\ MaxKeys \in Nat /\ MaxMessage \in Nat
  /\ Users \subseteq UserKeys /\ Policies \subseteq Nat

VARIABLE input

Versions == Users \X (0..MaxSeq)
\* A run of entries: a deletion, a value or nothing for each version.
EntriesOf(deleted, set) ==
  {MakeInternalKey(x[1], x[2], kTypeDeletion) : x \in deleted}
    \union {MakeInternalKey(x[1], x[2], kTypeValue) : x \in set}

\* The inputs of each kind.
NumbersAndBytes == [of : {"bytes"}, v : Values, in : BoundedSeq(Byte, MaxLen)]
PairsOfKeys == [of : {"keys"}, a : InternalKeys, b : InternalKeys]
Runs == UNION {{EntriesOf(V \ S, S) : S \in SUBSET V} : V \in SUBSET Versions}
Lookups == [of : {"lookup"}, entries : Runs, user : Users, seq : 0..MaxSeq]
TableKeys == {MakeInternalKey(u, q, kTypeValue) : u \in Users, q \in {0, 1}}
Filters == [of : {"filter"}, hash : [Users -> Hashes], keys : BoundedSeq(TableKeys, MaxKeys),
            writer : Policies, reader : Policies]
Lines == [of : {"line"}, header : 1..MaxHeader, message : 0..MaxMessage, endsLine : BOOLEAN]

Init ==
  \/ input \in NumbersAndBytes
  \/ input \in PairsOfKeys
  \/ input \in Lookups
  \/ input \in Filters
  \/ input \in Lines

Spec == Init /\ [][UNCHANGED input]_input

-----------------------------------------------------------------------------
\* InternalFilterPolicy strips the number from every key, and keeps duplicates.
InternalCreateFilter(keys, hash, bitsPerKey) ==
  CreateFilter([i \in 1..Len(keys) |-> hash[keys[i].user]], bitsPerKey)
InternalKeyMayMatch(k, hash, filter, bitsPerKey) ==
  KeyMayMatch(hash[k.user], filter, bitsPerKey)

-----------------------------------------------------------------------------
\* What is encoded is decoded, whatever follows it in the buffer, and the decoder
\* stops right behind it; the two encoders and VarintLength agree, and numbers
\* of fixed width and decimal numbers survive the round trip too, up to the
\* largest one.
NumbersRoundTrip ==
  input.of = "bytes" =>
    LET enc == EncodeVarint32(input.v)
    IN /\ enc = EncodeVarint64(input.v)
       /\ Len(enc) = VarintLength(input.v)
       /\ \A b \in ToSet(enc) : b \in Byte
       /\ GetVarintPtr(enc \o input.in) = [ok |-> TRUE, value |-> input.v, used |-> Len(enc)]
       /\ DecodeFixed(EncodeFixed(input.v)) = input.v
       /\ LET dec == AppendNumberTo(input.v)
          IN ConsumeDecimalNumber(Append(dec, Base))
               = [ok |-> TRUE, value |-> input.v, used |-> Len(dec)]

\* Decoders stay inside their input, for every sequence of bytes.  A buffer that
\* ends inside an encoding is refused, and so is one whose bytes go on beyond
\* the width; no length read from a corrupt buffer makes a slice reach past the
\* end, and the decimal parser takes exactly the numbers that fit the width.  A
\* length-prefixed slice comes back whole from in front of any other data.
DecoderStaysInside ==
  input.of = "bytes" =>
    LET r == GetVarintPtr(input.in)
        enc == EncodeVarint32(input.v)
        slice == GetLengthPrefixed(input.in)
        whole == PutLengthPrefixed(input.in)
        digits == SelectInSeq(Append(input.in, Base), LAMBDA b : b >= Base) - 1
        number == FoldFunction(+, 0, [i \in 1..digits |-> input.in[i] * Base^(digits - i)])
        d == ConsumeDecimalNumber(input.in)
    IN /\ r.ok => r.used <= Len(input.in) /\ r.value \in Values /\ Group * (r.used - 1) <= LastShift
       /\ \A n \in 0..(Len(enc) - 1) : ~GetVarintPtr(SubSeq(enc, 1, n)).ok
       /\ d.ok <=> digits > 0 /\ number \in Values
       /\ d.ok => d.value = number /\ d.used = digits
       /\ slice.ok => slice.used <= Len(input.in)
       /\ GetLengthPrefixed(whole \o <<input.v % (2 * D)>>)
            = [ok |-> TRUE, value |-> Len(input.in), used |-> Len(whole)]
       /\ \A n \in 0..(Len(whole) - 1) : ~GetLengthPrefixed(SubSeq(whole, 1, n)).ok

\* comparator.h: FindShortestSeparator gives a key in [start, limit), so an index
\* block that stores it sends every key of the block before and every key of
\* the block behind to the right place, and FindShortSuccessor one at or past
\* its argument.  The assertions in dbformat.cpp hold.
SeparatorSeparates ==
  input.of = "keys" =>
    /\ KeyLess(input.a, input.b) =>
         LET s == FindShortestSeparator(input.a, input.b)
         IN /\ (s = input.a \/ KeyLess(input.a, s)) /\ KeyLess(s, input.b)
            /\ Len(s.user) <= Len(input.a.user)
    /\ LET s == FindShortSuccessor(input.a)
       IN (s = input.a \/ KeyLess(input.a, s)) /\ Len(s.user) <= Len(input.a.user)

\* Where a seek to k stops: the first entry that is not smaller.
SeekPoint(k, E) ==
  {e \in E : ~KeyLess(e, k) /\ \A x \in E : KeyLess(x, e) => KeyLess(x, k)}

\* A lookup at a snapshot sees the newest version that is not newer than the
\* snapshot, a deletion included, and none when there is none: the seek to
\* LookupKey(user_key, s) in the order of InternalKeyComparator stops at it.
LookupSeesSnapshot ==
  input.of = "lookup" =>
    LET Visible == {e \in input.entries :
                      e.user = input.user /\ ParseInternalKey(e).seq <= input.seq}
        found == {e \in SeekPoint(LookupKey(input.user, input.seq), input.entries) : e.user = input.user}
    IN /\ found = {e \in Visible : \A x \in Visible : ParseInternalKey(x).seq <= ParseInternalKey(e).seq}
       /\ \A e \in found : ParseInternalKey(e).ok

\* filter_policy.h: a key that was in the list passed to CreateFilter matches.
\* A lookup at any snapshot finds the filter of a table that has its user key,
\* whatever the hash function, the duplicates in the list and the parameter
\* with which the database was opened when the filter was written.
NoFalseNegatives ==
  input.of = "filter" =>
    LET filter == InternalCreateFilter(input.keys, input.hash, input.writer)
    IN \A k \in ToSet(input.keys), q \in 0..MaxSeq :
         InternalKeyMayMatch(LookupKey(k.user, q), input.hash, filter, input.reader)

\* A log line is written whole, in the first or the second attempt, at every
\* length around the size of the buffer: what fwrite gets was stored, lies in
\* the buffer and has one newline added when it had none.  The assert(false)
\* behind the second attempt is not reached.
LineIsWhole ==
  input.of = "line" =>
    LET length == input.header + input.message
        endsLine == input.endsLine /\ input.message > 0
        line == Logv(input.header, input.message, endsLine)
    IN /\ ~line.cut
       /\ line.stored = length /\ line.written <= line.buffer
       /\ line.written = length + (IF endsLine THEN 0 ELSE 1)

=============================================================================
