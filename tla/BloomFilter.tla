---------------------------- MODULE BloomFilter -----------------------------
(***************************************************************************)
(* BloomFilterPolicy of util/bloom.h and util/bloom.cpp.  A filter is the  *)
(* set of bits that are 1, the number of bytes they are stored in and the  *)
(* byte behind them, which holds the writer's k_.  Keys appear as their    *)
(* hashes: what holds for every hash value holds for BloomHash.            *)
(***************************************************************************)
EXTENDS Integers, Sequences, SequencesExt

CONSTANTS HashBits,  \* 32
          Rotate,    \* 17
          ByteBits,  \* 8
          MinBits,   \* 64
          MaxK       \* 30

ASSUME BloomAssumption ==
  /\ HashBits \in Nat /\ Rotate \in 0..HashBits
  /\ ByteBits \in Nat \ {0} /\ MinBits \in Nat \ {0} /\ MaxK \in Nat \ {0}

Hashes == 0..(2^HashBits - 1)

\* The constructor: bits_per_key * 0.69, kept within 1..30.
NumProbes(bitsPerKey) ==
  LET k == (bitsPerKey * 69) \div 100
  IN IF k < 1 THEN 1 ELSE IF k > MaxK THEN MaxK ELSE k

\* (h >> 17) | (h << 15)
Delta(h) == (h \div 2^Rotate) + (h % 2^Rotate) * 2^(HashBits - Rotate)

\* The bits probed for a hash: h, h + delta, ... in HashBits-bit arithmetic.
Probes(h, k, bits) == {((h + j * Delta(h)) % 2^HashBits) % bits : j \in 0..(k - 1)}

\* CreateFilter for n keys with hashes hs: at least MinBits bits, rounded up to
\* whole bytes.
CreateFilter(hs, bitsPerKey) ==
  LET want == Len(hs) * bitsPerKey
      bytes == ((IF want < MinBits THEN MinBits ELSE want) + ByteBits - 1) \div ByteBits
      k == NumProbes(bitsPerKey)
  IN [bytes |-> bytes, k |-> k,
      ones |-> UNION {Probes(h, k, bytes * ByteBits) : h \in ToSet(hs)}]

MatchWithOwnK(h, filter, bitsPerKey) ==
  \/ filter.k > MaxK
  \/ Probes(h, NumProbes(bitsPerKey), filter.bytes * ByteBits) \subseteq filter.ones

\* KeyMayMatch by a policy with the given bits_per_key: the number of probes is
\* the one stored in the filter, and a number it does not know is a match.
KeyMayMatch(h, filter, bitsPerKey) ==
  \/ filter.k > MaxK
  \/ Probes(h, filter.k, filter.bytes * ByteBits) \subseteq filter.ones

=============================================================================
