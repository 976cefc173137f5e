----------------------------- MODULE FileBlocks -----------------------------
(***************************************************************************)
(* The contents of a FileState of helper/memenv/memenv.cpp, a record of    *)
(* blocks_ and size_, and what Append, Read and Truncate do to it, each    *)
(* under blocks_mutex_.  A byte of a block that was never written is       *)
(* Garbage, and an access outside blocks_ or a block has no value.         *)
(***************************************************************************)
EXTENDS Integers, Sequences, SequencesExt, FiniteSetsExt

CONSTANTS BlockSize,   \* kBlockSize
          Garbage

ASSUME BlocksAssumption == BlockSize \in Nat \ {0}

NoBlocks == [blocks |-> << >>, size |-> 0]
NewBlock == [i \in 1..BlockSize |-> Garbage]

\* memcpy(block + offset, bytes, Len(bytes))
CopyInto(block, offset, bytes) ==
  [i \in 1..BlockSize |-> IF i - offset \in 1..Len(bytes) THEN bytes[i - offset] ELSE block[i]]

\* A round of Append's loop: the room in the last block, or a new block.
AppendPiece(f, bytes) ==
  LET blocks == IF f.size % BlockSize # 0 THEN f.blocks ELSE Append(f.blocks, NewBlock)
  IN [blocks |-> [blocks EXCEPT ![Len(blocks)] = CopyInto(@, f.size % BlockSize, bytes)],
      size |-> f.size + Len(bytes)]

RECURSIVE AppendBytes(_, _)
AppendBytes(f, src) ==
  LET avail == Min({BlockSize - (f.size % BlockSize), Len(src)})
  IN IF src = << >> THEN f
     ELSE AppendBytes(AppendPiece(f, SubSeq(src, 1, avail)), SubSeq(src, avail + 1, Len(src)))

TruncateKeepsBlocks(f) == [f EXCEPT !.size = 0]
Truncate(f) == NoBlocks

RECURSIVE CopyBlocks(_, _, _, _)
CopyBlocks(f, block, offset, n) ==
  LET avail == Min({BlockSize - offset, n})
  IN IF n = 0 THEN << >>
     ELSE SubSeq(f.blocks[block + 1], offset + 1, offset + avail) \o CopyBlocks(f, block + 1, 0, n - avail)

\* Read clips n to what there is and copies block by block.
ReadBlocks(f, offset, n) ==
  IF offset > f.size THEN "IOError"
  ELSE CopyBlocks(f, offset \div BlockSize, offset % BlockSize, Min({n, f.size - offset}))

=============================================================================
