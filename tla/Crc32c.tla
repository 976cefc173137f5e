------------------------------- MODULE Crc32c -------------------------------
(***************************************************************************)
(* crc32c::Extend of util/crc32c.cpp without acceleration, which port.h    *)
(* never offers.  A word or a byte is the set of its bits, so that         *)
(* exclusive or is the symmetric difference.  The five tables are given by *)
(* the rule their numbers follow.                                          *)
(***************************************************************************)
EXTENDS Integers, Sequences, SequencesExt, FiniteSets, FiniteSetsExt

Polynomial == {3, 4, 5, 6, 8, 9, 11, 12, 13, 17, 18, 20, 21, 22, 23, 25, 31}
kCRC32Xor == 0..31

Xor(a, b) == (a \ b) \union (b \ a)
ShiftRight(w, n) == {b - n : b \in {x \in w : x >= n}}
ShiftLeft(w, n) == {b + n : b \in w}
LowByte(w) == w \cap (0..7)

\* One bit of the division by the polynomial.
DivideBit(w) == Xor(ShiftRight(w, 1), IF 0 \in w THEN Polynomial ELSE {})

kByteExtensionTable ==
  [b \in SUBSET (0..7) |-> LET Shifted[n \in 0..8] == IF n = 0 THEN b ELSE DivideBit(Shifted[n - 1])
                           IN Shifted[8]]

DivideByte(w) == Xor(kByteExtensionTable[LowByte(w)], ShiftRight(w, 8))

\* Table 3 - i is about byte i of a word with 16 bytes behind it.
StrideTable(i) ==
  [b \in SUBSET (0..7) |->
     LET Moved[n \in 0..16] == IF n = 0 THEN ShiftLeft(b, 8 * i) ELSE DivideByte(Moved[n - 1])
     IN Moved[16]]
kStrideExtensionTable3 == StrideTable(0)
kStrideExtensionTable2 == StrideTable(1)
kStrideExtensionTable1 == StrideTable(2)
kStrideExtensionTable0 == StrideTable(3)

STEP1(l, byte) == Xor(kByteExtensionTable[Xor(LowByte(l), byte)], ShiftRight(l, 8))

STEP4(crc, word) ==
  FoldLeft(Xor, word, <<kStrideExtensionTable3[LowByte(crc)],
                        kStrideExtensionTable2[LowByte(ShiftRight(crc, 8))],
                        kStrideExtensionTable1[LowByte(ShiftRight(crc, 16))],
                        kStrideExtensionTable0[ShiftRight(crc, 24)]>>)

STEP16(crcs, words) == [i \in 1..4 |-> STEP4(crcs[i], words[i])]

STEP4W(l, word) == DivideByte(DivideByte(DivideByte(DivideByte(Xor(word, l)))))

StepWordInPlace(crcs, word) == [crcs EXCEPT ![1] = STEP4(crcs[1], word)]

\* The strides are rotated, so that STEP4(0) always takes the next one.
StepWord(crcs, word) == <<crcs[2], crcs[3], crcs[4], STEP4(crcs[1], word)>>

ReadUint32LE(data, p) == UNION {ShiftLeft(data[p + i + 1], 8 * i) : i \in 0..3}
\* n words from offset p on.
WordsAt(data, p, n) == [i \in 1..n |-> ReadUint32LE(data, p + 4 * (i - 1))]

\* Extend of data whose address is align modulo 4.
Extend(crc, align, data) ==
  LET e == Len(data)
      x == (4 - align) % 4
      p == IF x <= e THEN x ELSE 0
      l == FoldLeft(STEP1, Xor(crc, kCRC32Xor), SubSeq(data, 1, p))
      swaths == (e - p) \div 16
      words == ((e - p) % 16) \div 4
      Swath(i) == WordsAt(data, p + 16 * i, 4)
      first == [Swath(0) EXCEPT ![1] = Xor(@, l)]
      strides == FoldLeft(StepWord,
                          FoldLeft(STEP16, first, [i \in 1..(swaths - 1) |-> Swath(i)]),
                          WordsAt(data, p + 16 * swaths, words))
      q == IF swaths > 0 THEN p + 16 * swaths + 4 * words ELSE p
      m == IF swaths > 0 THEN FoldLeft(STEP4W, {}, strides) ELSE l
  IN Xor(FoldLeft(STEP1, m, SubSeq(data, q + 1, e)), kCRC32Xor)

\* crc32c.h: Mask and Unmask of numbers of the given width; kMaskDelta and the
\* rotation by 15 bits are those of the width.
Mask(crc, width, rotate, delta) ==
  ((crc \div 2^rotate) + ((crc * 2^(width - rotate)) % 2^width) + delta) % 2^width
Unmask(masked, width, rotate, delta) ==
  LET rot == (masked - delta) % 2^width
  IN (rot \div 2^(width - rotate)) + ((rot * 2^rotate) % 2^width)

=============================================================================
