----------------------------- MODULE Algorithms -----------------------------
(***************************************************************************)
(* The sequential algorithms, checked against reference definitions over   *)
(* every input within the bounds.  To the inputs of module Formats this    *)
(* one adds                                                                *)
(*   - data to checksum, in two pieces, at an address of each alignment;   *)
(*   - the values of two histograms;                                       *)
(*   - the calls on one in-memory file: a number is an Append of so many   *)
(*     bytes, and -1 is Truncate.                                          *)
(***************************************************************************)
EXTENDS Formats, Crc32c, Histogram, FileBlocks

CONSTANTS MaxData,     \* bound: bytes to checksum
          Samples,     \* values added to a histogram
          MaxSamples,  \* bound: values added to one histogram
          MaxCalls,    \* bound: calls on one in-memory file
          MaxAppend    \* bound: bytes of one Append

AInit ==
  \/ Init
  \/ input \in [of : {"checksum"}, length : 0..MaxData, align : 0..3, step : {1, 5}]
  \/ input \in [of : {"histogram"}, a : BoundedSeq(Samples, MaxSamples), b : BoundedSeq(Samples, MaxSamples)]
  \/ input \in [of : {"file"}, calls : BoundedSeq({-1} \union (1..MaxAppend), MaxCalls)]

ASpec == AInit /\ [][UNCHANGED input]_input

-----------------------------------------------------------------------------
\* The bits of byte i of a pattern that repeats only after 256 bytes.
BitsOf(n) == {b \in 0..7 : (n \div 2^b) % 2 = 1}
Pattern(n, step) == [i \in 1..n |-> BitsOf((step * i) % 256)]

\* The checksum of data and one more byte, by the bitwise division.
OneByteMore(crc, byte) ==
  Xor(FoldLeft(LAMBDA w, i : DivideBit(w), Xor(Xor(crc, kCRC32Xor), byte), <<1, 2, 3, 4, 5, 6, 7, 8>>),
      kCRC32Xor)

\* Extend divides by the polynomial, whatever the alignment of the data and the
\* number of strides, words and odd bytes in it: no data has checksum 0, one
\* byte more is eight bits more to divide, and the data may come in two calls.
\* An unmasked checksum is the one that was masked.
ChecksumExact ==
  /\ input.of = "checksum" =>
       LET data == Pattern(input.length, input.step)
           Crc(n) == Extend({}, input.align, SubSeq(data, 1, n))
           whole == Crc(input.length)
           half == input.length \div 2
       IN /\ whole = IF data = << >> THEN {} ELSE OneByteMore(Crc(input.length - 1), Last(data))
          /\ whole = Extend(Crc(half), (input.align + half) % 4, SubSeq(data, half + 1, input.length))
  /\ input.of = "bytes" /\ input.in = << >> =>
       \A rotate \in 1..(Bits - 1), delta \in Values :
         Unmask(Mask(input.v, Bits, rotate, delta), Bits, rotate, delta) = input.v

\* Merging two histograms gives that of all their values, empty ones, negative
\* values and values beyond the last limit included.  Only an empty histogram has
\* no median.  Any other median is in the bucket of the true median, as Percentile
\* bounds it (the first one from 0), and lies between the extremes as the
\* histogram knows them: min_ starts at the last limit and max_ at 0, so with
\* values beyond the limit only, or negative ones only, that is the bound.
HistogramExact ==
  input.of = "histogram" =>
    LET Of(values) == FoldLeft(Add, Clear, values)
        h == Merge(Of(input.a), Of(input.b))
        sorted == SortSeq(input.a \o input.b, <)
        b == BucketOf(sorted[(h.num + 1) \div 2])
    IN /\ h = Of(input.a \o input.b)
       /\ IF h.num = 0 THEN Median(h) = "NaN" /\ Average(h) = <<0, 1>>
          ELSE /\ AtLeast(Median(h), Min({sorted[1], LastLimit}))
               /\ AtMost(Median(h), Max({sorted[h.num], 0}))
               /\ AtLeast(Median(h), IF b = 1 THEN 0 ELSE kBucketLimit[b - 1])
               /\ AtMost(Median(h), kBucketLimit[b])

\* After any calls, a Read of any offset and length, at the edges of blocks and
\* past the end, gives the bytes appended since the last Truncate: none of them
\* twice or missing, none from before it, and none that was never written.
ReadIsSlice ==
  input.of = "file" =>
    LET Bytes(i) == [j \in 1..input.calls[i] |-> <<i, j>>]
        Do(x, i) ==
          IF input.calls[i] = -1 THEN [file |-> Truncate(x.file), holds |-> << >>]
          ELSE [file |-> AppendBytes(x.file, Bytes(i)), holds |-> x.holds \o Bytes(i)]
        x == FoldLeft(Do, [file |-> NoBlocks, holds |-> << >>], [i \in 1..Len(input.calls) |-> i])
    IN \A offset, n \in 0..(Len(x.holds) + 1) :
         ReadBlocks(x.file, offset, n) =
           IF offset > Len(x.holds) THEN "IOError"
           ELSE SubSeq(x.holds, offset + 1, Min({offset + n, Len(x.holds)}))

=============================================================================
