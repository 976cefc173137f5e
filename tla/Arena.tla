------------------------------- MODULE Arena --------------------------------
(***************************************************************************)
(* The memtable's allocator, util/arena.h and util/arena.cpp.              *)
(*                                                                         *)
(* An address is a block and an offset in it.  operator new returns blocks *)
(* aligned at least as strictly as AllocateAligned's align, so an address  *)
(* is aligned when its offset is.  Allocate and AllocateAligned run under  *)
(* mu_, so each is one action.                                             *)
(***************************************************************************)
EXTENDS Integers, FiniteSets, FiniteSetsExt

CONSTANTS BlockSize,   \* kBlockSize
          Align,       \* align
          Requests,    \* sizes clients ask for
          MaxBlocks,   \* bound: blocks allocated
          MaxRegions   \* bound: regions handed out

ASSUME ArenaAssumption ==
  /\ BlockSize \in Nat \ {0} /\ BlockSize % 4 = 0
  /\ Align \in Nat \ {0}
  /\ Requests \subseteq Nat \ {0}
  /\ MaxBlocks \in Nat /\ MaxRegions \in Nat

VARIABLES
  blocks,     \* blocks_: how many there are; they are numbered from 1
  blockSize,  \* the size of each block
  cur,        \* the block alloc_ptr_ points into, 0 for nullptr
  ptr,        \* the offset of alloc_ptr_ in that block
  remaining,  \* alloc_bytes_remaining_
  usage,      \* memory_usage_, without the sizeof(char*) counted per block
  regions     \* what clients were given: [block, start, size, aligned]

arenaVars == <<blocks, blockSize, cur, ptr, remaining, usage, regions>>

ArenaInit ==
  /\ blocks = 0
  /\ blockSize = [b \in 1..MaxBlocks |-> 0]
  /\ cur = 0 /\ ptr = 0 /\ remaining = 0
  /\ usage = 0
  /\ regions = {}

-----------------------------------------------------------------------------
Give(b, start, size, al) ==
  /\ Cardinality(regions) < MaxRegions
  /\ regions' = regions \union {[block |-> b, start |-> start, size |-> size, aligned |-> al]}

\* AllocateNewBlock; the new block has the number blocks + 1.
AllocateNewBlock(size) ==
  /\ blocks < MaxBlocks
  /\ blocks' = blocks + 1
  /\ blockSize' = [blockSize EXCEPT ![blocks + 1] = size]
  /\ usage' = usage + size

\* AllocateFallback: a large request gets a block of its own and leaves the
\* current one in use; otherwise a fresh block replaces the current one.
AllocateFallback(bytes, al) ==
  /\ \/ /\ bytes > BlockSize \div 4
        /\ AllocateNewBlock(bytes)
        /\ UNCHANGED <<cur, ptr, remaining>>
     \/ /\ bytes <= BlockSize \div 4
        /\ AllocateNewBlock(BlockSize)
        /\ cur' = blocks + 1
        /\ ptr' = bytes
        /\ remaining' = BlockSize - bytes
  /\ Give(blocks + 1, 0, bytes, al)

AfterRoundsDown(padding, bytes, al) ==
  \/ /\ bytes + padding <= remaining
     /\ ptr' = ptr + padding + bytes
     /\ remaining' = remaining - (padding + bytes)
     /\ Give(cur, IF padding = 0 THEN ptr ELSE ptr + padding - Align, bytes, al)
     /\ UNCHANGED <<blocks, blockSize, cur, usage>>
  \/ /\ bytes + padding > remaining
     /\ AllocateFallback(bytes, al)

\* The common part of the two Allocates: bytes after padding, or the fallback.
AllocateAfter(padding, bytes, al) ==
  \/ /\ bytes + padding <= remaining
     /\ ptr' = ptr + padding + bytes
     /\ remaining' = remaining - (padding + bytes)
     /\ Give(cur, ptr + padding, bytes, al)
     /\ UNCHANGED <<blocks, blockSize, cur, usage>>
  \/ /\ bytes + padding > remaining
     /\ AllocateFallback(bytes, al)

Allocate(bytes) == AllocateAfter(0, bytes, FALSE)

\* misalign ? (align - misalign) : 0
Padding == IF ptr % Align = 0 THEN 0 ELSE Align - (ptr % Align)

AllocateAligned(bytes) == AllocateAfter(Padding, bytes, TRUE)

ArenaNext == \E bytes \in Requests : Allocate(bytes) \/ AllocateAligned(bytes)

ArenaSpec == ArenaInit /\ [][ArenaNext]_arenaVars

-----------------------------------------------------------------------------
TypeOK ==
  /\ blocks \in 0..MaxBlocks
  /\ blockSize \in [1..MaxBlocks -> Nat]
  /\ cur \in 0..blocks
  /\ ptr \in Nat /\ remaining \in Nat
  /\ usage \in Nat
  /\ regions \subseteq [block : 1..blocks, start : Nat, size : Nat, aligned : BOOLEAN]

\* The free part of the current block is what remaining counts, and nothing in
\* that block was handed out beyond alloc_ptr_; the padding and the large blocks
\* that get their own memory do not disturb it.
FreeTailUnused ==
  /\ cur = 0 => remaining = 0 /\ ptr = 0
  /\ cur # 0 => ptr + remaining = blockSize[cur]
  /\ \A r \in regions : r.block = cur => r.start + r.size <= ptr

\* Every region lies inside its block.
RegionsInBlocks ==
  \A r \in regions : r.start + r.size <= blockSize[r.block]

\* No two regions overlap: what one client writes never changes what another has.
RegionsDisjoint ==
  \A r, q \in regions :
    r.block = q.block => r = q \/ r.start + r.size <= q.start \/ q.start + q.size <= r.start

\* AllocateAligned returns aligned addresses, after whatever Allocates.
AlignedRegions ==
  \A r \in regions : r.aligned => r.start % Align = 0

\* A block is given up for a new one only when less than a quarter of a block,
\* plus the padding, is left in it: mixed request sizes cannot waste more.
WasteBounded ==
  [][cur' # cur => remaining < BlockSize \div 4 + Align]_arenaVars

=============================================================================
