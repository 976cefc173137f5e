# A TLA+ model of lldb

lldb is a C++ reimplementation, in progress, of the LevelDB storage library.
The repository has the layers under the database: the cache, the memtable's
skip list and arena, the environments (POSIX and in-memory), the merging
iterator, the formats of keys, numbers and filters, checksums, histograms and
the logger. There is no DB, table
reader, log or version set yet. This directory models those layers, checks the
models with TLC on small instances, and proves the most important invariants
for every instance with TLAPS.

`PROJECT.json` is the machine-readable index: components, runs, mutants, the
map from definitions to source lines, findings, hazards and theorems. All paths
below are relative to `src/`.

## 1. Inventory

| Component | State it keeps | Operations | Hard behaviour | What makes it correct |
|---|---|---|---|---|
| `LRUCache` (util/cache.cpp) | entries with reference counts, lists `lru_` and `in_use_`, table, `usage_` | Insert, Lookup, Release, Erase, Prune, destructor | entries erased or replaced while clients hold them; eviction; memory reuse | counts exact, lists divide the entries, nobody reaches freed memory, capacity kept |
| `HandleTable` (util/cache.cpp) | chained buckets, `elems_` | Insert, Lookup, Remove, Resize | in-place relinking, colliding hashes | is a map, results included |
| `ShardedLRUCache` (util/cache.cpp) | shards, last id | forwards to a shard; Prune and TotalCharge visit all | totals over shards without a common lock | a total lies between what stayed cached and what was ever cached during the call; Prune leaves nothing that stayed unused |
| `SkipList` (memtable/skiplist.h) | nodes with atomic links, `max_height_` | Insert by one writer; searches and iterators of readers without a lock | weak memory, reads while nodes are linked | levels sorted, no uninitialized read, every search exact for one state of the list not older than what the reader was bound to see |
| `Arena` (util/arena.*) | current block, rest of it | Allocate, AllocateAligned | block boundaries, padding | regions disjoint, inside blocks, aligned; bounded waste |
| `PosixEnv::Schedule` (util/env_posix.cpp) | queue, mutex, condition variable, thread | Schedule from any thread, the background loop | lost wakeups, spurious wakeups, work that schedules work | each item runs once, in order, eventually |
| Random access files and `Limiter` | two atomic counters, descriptors, mappings, the limits computed once | first use of the Env, open, read, delete | counters below zero, failures half way, a limit that wraps to a negative int | permits conserved, nothing leaks, descriptors stay within the budget |
| `LockFile`/`UnlockFile`, `PosixLockTable` | set of locked names, kernel's fcntl lock | lock, unlock | threads and processes, restarts, fcntl's semantics | one caller per process; one process (violated, see section 6) |
| `PosixWritableFile` | buffer, descriptor | Append, Flush, Sync, Close, destructor | short writes, write and fsync errors, kernel write-back, crash | a byte is lost only with an error, which every caller but that of the destructor is told; none twice; Sync is durable; manifest after directory |
| `WriteStringToFile(Sync)` (util/env.cpp) | one writable file | one function | one of several steps fails | OK means all of it; an error leaves no part |
| `PosixSequentialFile`, `ReadFileToString` | file offset | Read, Skip | short reads, a writer at the same time, Skip past the end and with a count that is no off_t | every byte that is not skipped, once and in order; Skip stops at the end (violated, see section 6) |
| `InMemoryEnv` (helper/memenv) | name map, reference-counted files | open, remove, rename, destructor; file objects | destructors race with the Env | freed exactly when unreachable |
| `MergingIterator` (table/merger.cpp) | child positions, current, direction | five positioning methods, status | changes of direction, keys that several children have, failing children | a cursor over the entries of all children; each step goes to the neighbouring entry (violated, see section 6) |
| `Iterator` cleanup list (table/iterator.cpp) | head node in the iterator, further nodes on the heap | RegisterCleanup, destructor | a node is freed while the list is walked; children go first | each function runs once, after the children |
| `FileState` contents (memenv.cpp) | list of blocks, size | Append, Read, Truncate | block boundaries, blocks left over | Read is a slice of what was appended |
| CRC32C (util/crc32c.*) | none | Extend, Mask, Unmask | alignment, strides of 16 and 4 bytes, tails | the checksum of the polynomial, in any pieces |
| Histogram (util/histogram.*) | buckets, sums, minimum and maximum | Clear, Add, Merge, percentiles, average | bucket limits, negative values, empty and merged ones | merging is adding; percentiles lie in the right bucket |
| `PosixLogger::Logv` (util/posix_logger.h) | stack or heap buffer | one function | lengths at the size of the buffer | the line is whole and ends in one newline, inside the buffer |
| Formats (util/coding, util/logging, db/dbformat, util/comparator, util/bloom) | none | encoders, decoders, comparisons, filters | boundaries, malformed input | round trips, separators separate, snapshots see the right version, no false negatives |

How they interact: the cache uses `HandleTable` under its mutex; the memtable
puts its skip list and its entries into one arena; the sharded cache holds one
mutex per shard and none over all; `WriteStringToFile` drives a
`WritableFile` by the status of each call, and a `SequentialFile` may read the
same file at that time; a merging iterator deletes its children and then its base
class runs the cleanup functions; internal keys are ordered by
`InternalKeyComparator` over the user comparator, searched with `LookupKey`,
and filtered through `InternalFilterPolicy`, which strips the sequence number
before `BloomFilterPolicy` sees the key. Work items reach `Schedule` from any thread, the background
thread included.

Components that are left out, with the reasons, are listed in `PROJECT.json`
with the status `not_modelled`, and in section 7.

## 2. Modules and the code they model

| Module | Models | State and actions |
|---|---|---|
| `LRUCache` | one shard | `live`, `key`, `charge`, `refs`, `in_cache` are the fields of an `LRUHandle` per memory block; `lru`, `in_use`, `usage`, `table` are the members; `pins` is the ghost count of handles clients hold. One action per method. Insert, Prune and the destructor, which loop, take one action per turn; `pc` is the method that has the mutex, so nothing runs in between. The deleter is the freeing of the block. `table` is the map that `HandleTable` is shown to implement. |
| `LRUPolicy`, `LRUShard` | what a shard promises | a shard is an order of unused keys, a set of used keys and their charges; `LRUShard` lets the oldest unused key go while the shard is over its capacity. `IsLRUShard` in `LRUCache` is the refinement: memory, counts and lists are mapped away. |
| `ShardedCache` | `ShardedLRUCache` over shards of `LRUPolicy` | calls on one shard are atomic (its mutex); Prune and TotalCharge are one action per shard. `kept` and `seen` are ghosts: what a running call may count on. |
| `HandleTable`, `HandleMap` | the hash table and its contract | chains as sequences; `HandleMap` is a map from keys to entries with the result of the last call; `ImplementsMap` is the refinement. |
| `SkipList` | skip list under C++ memory orders | `mem` is the history of the list after each store of the only writer, `view[r]` the stores reader `r` is bound to see. A load returns any visible value; an acquire load of a release store moves the view up to it, a relaxed load of `max_height_` moves nothing. `search` has the locals of the three Find functions, one load per step. `Synchronize` is the external synchronisation a client may add. |
| `MemTableList` | skip list and arena together | the client allocates an entry, then Insert allocates a node for its height; `place` is the region of each node. |
| `BackgroundWork` | `Schedule`, `BackgroundThreadMain` | one action per statement under the mutex; `Signal`, `Lock` and spurious wakeups model port/port.h over the standard library. |
| `RandomAccessFiles` | `NewRandomAccessFile`, both `Limiter`s, both file classes | a slot is a thread with one file; each atomic operation and each system call is one action, failures included. `Default` is the first call of `Env::Default`, which computes both limits; `LimiterAsserts` is the assertion of the constructor, which ends the process or, with NDEBUG, is not there. |
| `FileLock` | `LockFile`, `UnlockFile`, `PosixLockTable` | each system call and each table operation is one action per caller; the kernel's lock is external, as POSIX describes fcntl locks. |
| `PosixEnv` | the three modules above as members of one object | no method uses two of the members, so a behaviour uses one of them (`part`). |
| `WritableFile` | `PosixWritableFile` | bytes are numbered in the order they are appended, so loss, repetition and order show. `WriteSome` is one `write` that takes any part (0 bytes: EINTR). `durable` and `dirDurable` are what a crash would leave. `WriteBack` is the kernel. |
| `WriteString` | `DoWriteStringToFile`, composed with `WritableFile` | either any client uses the file (`stage = "free"`) or this function does. |
| `ReadString` | `PosixSequentialFile` and `ReadFileToString`, composed with `WriteString` | one action per `read` or `lseek`, with every short count and every `uint64_t` that Skip may be given, converted to `off_t`; the file is the one being written. The ghost `strayed` says that a Skip has left the data of the file or gone backwards. |
| `MemEnv` | `InMemoryEnv` and its file objects | Env methods are atomic (they hold `mutex_`); a file object's Unref and Skip are two actions each. Files are recycled memory. |
| `MergingIterator`, `MergedCursor` | the iterator and its contract | children are sorted sets of keys that may overlap, an entry is a key and its child; the set `F` of an action is the children whose move failed. `MergedCursor` is a cursor over all entries that may be anywhere once its status is an error; its `Spec` has the code's turns, its `ExactSpec` those of the interface. |
| `Arena` | the allocator | addresses are block and offset; `regions` is the ghost set of what was handed out. |
| `IteratorCleanup` | `Iterator` and the end of a merging iterator | `RegisterCleanup`, then the destructors step by step: the children, then one cleanup node at a time. Nodes are recycled memory. |
| `FileBlocks` | contents of a `FileState` | a record of blocks and size; Append, Read and Truncate are functions on it. A byte never written is `Garbage`. |
| `Crc32c` | Extend, Mask, Unmask | words are sets of bits, so exclusive or is symmetric difference; 32 bits, no scaling down. |
| `Histogram` | the class's methods | functions on a record of its members, in exact fractions. |
| `LogLine` | Logv | lengths of header and message; what each (v)snprintf stores and returns. |
| `Coding`, `DBFormat`, `BloomFilter` | pure operators | numbers with a width (binary and decimal), byte strings, filters as sets of bits. Loops are recursive functions. |
| `Formats`, `Algorithms` | compose the pure modules | the state is an input that never changes; the invariants relate operators to each other and to reference definitions. |

`MC*` modules give values to constants that a .cfg cannot express and define
symmetry sets. `*_proofs` modules hold the theorems (`Util_proofs` those of
`BackgroundWork`, `FileLock`, `RandomAccessFiles`, `MemEnv` and `Formats`), and
`SharedLemmas` what several of them need about numbers, lists and sums over finite sets.

Data is abstracted to what the properties tell apart: values, names and hashes
are model values or small sets, a byte of a file is its number, and a hash
function is arbitrary. Control is not: every early return and error path of the
operations is there.

## 3. Runs

| Run | Bounds | What it shows |
|---|---|---|
| `lru_cache` | 4 blocks, 3 keys, charges 1 and 2, capacities 0 and 2, 2 handles per entry | Counts, lists and usage agree after every step of every method; nobody reaches freed memory; eviction takes no pinned entry; the destructor frees all but what clients hold; and the shard implements `LRUShard`: the oldest unused entry goes, and only while the shard is over its capacity. |
| `sharded_cache` | 2 threads, 2 shards, 3 keys, a capacity of 3 that is rounded up to 2 per shard | Prune and TotalCharge account for every shard although others insert, use and erase between two of their steps. |
| `handle_table` | 5 keys, 2 entries each, hashes that collide on 4 chains, on 8 chains and fully | The table is the map of `HandleMap`, results included. |
| `memtable_list` | 3 keys, height 2, a writer and a reader, blocks of 32 bytes, entries of 3, nodes of 8 and 12 bytes | After each store every level is sorted and contained in the one below; no reader meets an uninitialized link; searches and Next are exact for one state of the list not older than what the reader was bound to see when they began (a reader that nothing synchronizes may be bound to little); searches end. All links of a node are inside its region, aligned, and no two regions overlap. |
| `posix_env` | 2 clients, the background thread as a third, 3 items; 2 processes with 2 callers, restarts; 4 files, one mmap permit, descriptor limits of 4, 9, 10, 20, infinite and unknown, an int of -4 to 3 | Items run once, in order; the thread never sleeps on work; everything scheduled runs. One caller per process between Insert and Remove of the table; the kernel lock is not left behind. Permits are conserved on every path, no descriptor or mapping outlives its file; long-lived descriptors stay within a fifth of the process's. |
| `file_lock_exclusion` | 2 processes with 2 callers, restarts | Violated: two processes hold the lock (section 6). |
| `files` | buffer of 2 bytes, 4 bytes in all, 1 other file, reads of 2 bytes, an off_t up to 5 | Bytes are lost only with an error, which the client is told unless the destructor meets it, and never written twice or out of order; Sync is durable; Sync writes a MANIFEST after the directory; OK of WriteStringToFile means all is written, an error leaves no part of it; a reader whose Skips end inside the file misses nothing, and ReadFileToString returns all the file had when it was opened. |
| `skip_past_end` | the same | Violated: Skip goes past the end of the file (section 6). |
| `mem_env` | 2 names, 3 files, 3 objects | The count is the number of referrers; a file is freed exactly when nobody reaches it, by one thread. |
| `iterators` | 3 children, 3 keys distributed in every way, copies included, 1 failing child, 2 cleanup nodes beside the head | The iterator implements `MergedCursor`; every cleanup function runs once, after the children are gone, and the walk never touches a freed node. |
| `merge_turns` | 2 children, 2 keys | Violated: a turn passes over the copies of a key (section 6). |
| `algorithms` | see below | Round trips, safe decoding, separators, lookups, filters, checksums, histograms, file blocks, log lines. |

Why the bounds are enough. The interesting cases of the cache need an entry in
use, one on `lru_`, one erased but held and one being inserted: four blocks. Five
keys are the fewest that make the table resize. Two shards are the fewest that a
loop can be between; two entries in one shard, one of which fills it, make
Insert evict. A skip list of height 2 has all
interactions of two levels, three keys put a new node in front of, between and
behind others; larger instances only repeat the inductive step. Two readers do
not interact (they store nothing), so one is enough. A node of height 1 takes 8
bytes and one of height 2 takes 12, above a quarter of a block, so nodes come from
the current block, after padding, and from blocks of their own. A buffer of 2 and
4 bytes have appends that fit, fill exactly, overflow into the empty buffer, and
overflow past it (the direct write); a read of 2 can be short, and an `off_t` of 5 is larger than
the file, so a Skip may end in it, at its end, past it and at no offset at all. A fifth of the
descriptor limits is 0, 1, 2 and 4, where 4 becomes -4 in an int of -4 to 3. Three
objects can open, replace and close one file; three children make a turn meet a
current, an exhausted and a live child; three cleanup nodes give a list with a
first, a middle and a last.

In `algorithms`, a varint group of 2 bits and a width of 5 keep the ratio
that makes the last byte of a 32-bit varint partly unused (4 of 7 bits, here 1
of 2), and inputs go up to 4 bytes, one beyond the longest varint, and in base 3
beyond the largest number; user keys are
all strings up to 2 of 4 byte values, with 3 sequence numbers; hashes have 4
bits, and a bit count that is not a multiple of the byte is rounded up. Checksums
are of up to 40 bytes at each of the 4 alignments and in two pieces of every
length: the loops need 16 bytes to begin with the strides, so 40 reach a second
round of them and every tail. The tables of util/crc32c.cpp and `kBucketLimit` of
util/histogram.cpp are given by the rule their numbers follow; all 5 x 256
entries (8 bit steps of the polynomial per byte; entry i of stride table k is
byte i at place 3 - k advanced by 128 bits) and all 154 limits (1 to 9, sixteen
mantissas in nine decades, 1e200) were compared with it outside TLA+. Histograms
take -5, values on both sides of bucket limits, and 2000, beyond the last one of
the single decade of the run. File blocks of 3 bytes take up to 3 calls of Append (up to 5
bytes) and Truncate. A log line has a stack buffer of 6, so that
it ends before, at and behind it.

Bounds on counters (`MaxPins`, `MaxBytes`, `MaxFiles`, `MaxErrors`, `MaxBlocks`,
`MaxRegions`, `MaxSize`, `MaxLen`, `MaxKeys`, `MaxKeyLen`, `MaxData`,
`MaxSamples`, `MaxCalls`, `MaxAppend`, `MaxMessage`, `Decades`) are guards or
input sets, and named.

Deadlock is checked except in `files` and `skip_past_end`, where a closed file takes no
more calls.
Where a system may rest without stopping, the model has an
explicit idle step (`Stopped`, `Idle`, `Finished`, and `Aborted` after a failed assertion).

Every property of a passing run has a mutant in `PROJECT.json`: a plausible
mistake in one mapped definition, under which TLC finds that property violated.

## 4. Fairness

Only two runs check liveness.

- `PosixEnv` (with the fairness of `BackgroundWork`): threads inside Schedule and the background thread keep
  running (weak fairness), the mutex is granted to a thread that asks again and
  again (strong fairness on taking it: std::mutex of the platforms in question
  does not starve a waiter for ever), and work functions return. Without the
  last one nothing behind them could run, as the code has one thread. No
  spurious wakeup is assumed, so `EverythingRuns` needs the signals.
- `MemTableList` (with the fairness of `SkipList`): the writer inside Insert and a reader inside a search keep running.
  `SearchesReturn` needs no more: finitely many nodes can be linked in front of a
  reader.

All other specifications have no fairness and make only safety claims.

## 5. Proofs

TLAPS proves, for all values of the constants that satisfy the named
assumptions:

| Theorem | Module | States |
|---|---|---|
| `TypeCorrect`, `ReferenceCounting`, `ListsDivideEntries`, `TableHoldsCached` | `LRUCache_proofs` | `TypeOK`, `RefsExact`, `ListsExact`, `TableExact` |
| `NoUseAfterFree` | | `NoDanglingPointer`: neither a list, the table, Insert nor a client reaches freed memory |
| `DestructorFrees` | | after the destructor only entries that a client holds are allocated |
| `EvictionSparesPinned` | | the action property `PinnedEntriesStay` |
| `UsageNeverDrifts` | | `UsageIsSum`: `usage_` is the sum of the charges of the cached entries |
| `BehavesAsLRU` | | the refinement `IsLRUShard`: the code of a shard implements `LRUShard` |
| `TableImplementsMap` | `HandleTable_proofs` | the refinement `ImplementsMap`: the hash table implements `HandleMap` |
| `ElemsCounted` | | `ElemsExact`: `elems_` is the number of entries that Resize visits |
| `CallsAccounted` | `ShardedCache_proofs` | `CallsAccountForShards`: what Prune and TotalCharge promise about the whole cache |
| `WorkRunsOnceInOrder`, `NoLostWakeup` | `Util_proofs` | `FirstInFirstOut`, `NeverSleepsOnWork` of `BackgroundWork` |
| `TableAdmitsOneCaller`, `KernelLockReleased` | | `OneCallerPerProcess`, `KernelLockNotStuck` of `FileLock` |
| `PermitsAreConserved`, `DescriptorsInBudget` | | `PermitsConserved`, `DescriptorBudget` of `RandomAccessFiles` |
| `ReferencesCounted`, `StatesFreedInTime` | | `RefsCountReferrers`, `FreedWhenUnreachable` of `MemEnv` |
| `LookupsSeeSnapshots`, `SeparatorsSeparate` | | `LookupSeesSnapshot`, `SeparatorSeparates` of internal keys |
| `FiltersKeepTheirKeys` | | `NoFalseNegatives` of bloom filters |
| `LinesAreWhole` | | `LineIsWhole` of the logger |
| `AllocationsDisjoint`, `AllocationsInBlocks`, `AllocationsAligned` | `MemTableList_proofs` | `RegionsDisjoint`, `RegionsInBlocks`, `AlignedRegions` of an arena |
| `WasteIsBounded` | | the action property `WasteBounded` |
| `ListStaysSorted`, `ReadersSeeCompleteNodes` | | `LevelsSorted`, `NoUninitializedRead` of the skip list, alone and in its arena |
| `ReadersGetExactAnswers` | | the action property `ReadsExact` |
| `LinksStayInside`, `MemTableRegionsDisjoint` | | `LinksInsideNode`, `RegionsDisjoint` of the list in its arena |
| `BytesNeverLostOrRepeated`, `SyncedNamesDurable` | `ReadString_proofs` | `NothingLostOrRepeated`, `SyncWritesDurableNames` of `WritableFile` |
| `SyncIsDurable` | | the action property `SyncMakesDurable` |
| `WriteStringWholeOrGone`, `ReaderGetsAll` | | `AllOrNothing`, `ReaderMissesNothing` |
| `EveryCleanupOnce` | `IteratorCleanup_proofs` | `CleanupsRunOnce` |
| `MergesChildren` | | the refinement `IsMergedCursor`: the merging iterator implements `MergedCursor` |

**LRUCache.** Assumed (`ConstantsAssumption`): charges and capacities are
naturals, there are finitely many blocks (of any number), and the null values are
not handles or keys. No invariant is inductive
alone: that a list has an entry depends on its count, the count on `in_cache`,
and whether the table may still point to it on where Insert is. The inductive
invariant is `IInv == TypeOK /\ RefsExact /\ ListsExact /\ TableExact /\
MethodsConsistent`; the last conjunct says that an entry displaced by Insert is
cached until it is erased, and that the destructor began without entries in use.
Lemmas on sequences (removing from, appending to and taking the tail of a list
without duplicates) come first, then `DropFacts` on Unref, `ErasingKeeps` on
FinishErase, which Insert, Erase and both loops share, one lemma per method, and
`Inductive`. `NoUseAfterFree` follows from the invariant: whatever is pinned,
listed or in the table has a positive count.

`UsageNeverDrifts` needs to know what a sum over a set is. `SubsetInduction` states
induction over the finite subsets of a set without an operator parameter, as the
well-foundedness of the strict subset order; from it `SumsExist` and `SumsAgree` show
that the recursive function in `MapThenSumSet` exists and is unique, and
`TotalWithout` that taking any one element out takes its value off. Then `ErasedUsage`
and `InsertedUsage` say what the two kinds of steps do to the sum.

`BehavesAsLRU` maps memory, counts and lists away: `Contents` is the sequence of keys
on `lru_`, the keys in use and the charges, without the entry Insert displaced and has
still to erase, and `Busy` is the method that holds the mutex. `EntryFacts` and
`OrderFacts` draw from `IInv` that cached entries have different keys, so that taking
an entry off a list takes its key out of the sequence (`KeyedRemove`, `OrderWithout`,
`ErasedContents`); one lemma `...Refines` per action follows. The eviction loop needs
more than `IInv`: its test is on `usage_`, that of `LRUShard` on the sum of the
charges by key, and the two agree by `UsageIsSum` and `TotalImage`, a sum over an
injective image (`UsageMatches`). Replacing an entry is one step of `LRUShard` and two
of the code, the second of which changes nothing there.

**HandleTable.** Assumed: hashes are naturals; keys, entries and hash function are
arbitrary. The invariant is that every entry is on the chain its hash selects, that no
two entries of a chain have the same key (`Chained`), and that `elems` is the number of
entries, of which there are finitely many. The chains that Resize flattens, and the
tables it goes through as it moves one entry after the other, are recursive functions
of a step number; `StepsExist` shows by induction over a set of step numbers that such
functions exist. `TraversalFacts` and `CountVisited` then say that Resize visits every
entry once, `RehashKeeps` that the new array has the same entries, each on its new
chain, and `LinkKeeps` and `UnlinkKeeps` what Insert and Remove do to a chain.
`FindIsMap` shows that the walk along one chain finds the entry that the map has for the
key, and `MapUpdates` that exchanging entries on the chains updates the map. TLC checks
the invariant on the run's bounds. `ElemsCounted` is the assertion at the end of Resize,
in every state rather than only where Resize runs.

**ShardedCache.** Assumed: a positive number of shards, each key in one of them, and
natural capacity and charges; keys and threads are any sets. `CallsAccountForShards`
speaks of a call that has visited all shards, so the invariant says what holds in the
middle of one: `PruneSound`, that what Prune has still to account for lies in shards it
has not visited, and `ChargeSound`, that the total so far is between the charges of what
stayed cached and of what was ever cached in the shards visited (`Passed`).
`GoodShards` says of each shard that a cached key is in one place, is routed to that
shard and has its charge, and `HandlesSound` that a handle of a cached entry keeps it in
use. TLC checks the conjunction on the run's bounds. One lemma `Good...` per operator of
`LRUPolicy` shows that it keeps a shard good. `Shrunk`, Insert's eviction loop, is a
recursive function of the number of rounds: `RoundsExist` shows by induction over a set
of round numbers that it exists, and `GoodShrunk` that every round leaves a good shard
with fewer unused keys, so that the loop ends. The sums are the `Total` of
`SharedLemmas`.

**BackgroundWork.** `ScheduleIInv == ScheduleTypeOK /\ CriticalSections /\
ThreadsConsistent /\ NeverSleepsOnWork`. That no wakeup is lost rests on one fact in
`ThreadsConsistent`: between the signal and the push of a Schedule the background
thread is not waiting, because the signal woke it or it holds no mutex to go to
sleep with. `FirstInFirstOut` is proved on top of it with four lemmas on
concatenation.

**Arena** (`ArenaSpec == ArenaInit /\ [][ArenaNext]_arenaVars`). Assumed: the block size
is a positive multiple of 4, as 4096 is, the alignment is positive, and requests are
positive (the code asserts it). `ArenaInv == TypeOK /\ FreeTailUnused /\
RegionsInBlocks /\ RegionsDisjoint /\ AlignedRegions`: a new region starts where no
region of the current block ends later, or in a block that has none.

**SkipList** (`Spec`, and `LSpec` by `MemTableIsList`). Assumed: keys are positive
naturals in the order of the comparator (with 0 for `head_`), of any number; the
largest height is positive; there are any readers and one writer, who is none of them;
and the null and the uninitialized pointer are no nodes. `LevelsSorted` is inductive
only together with where the writer is, and `NoUninitializedRead` with what a reader
sees. `ListInv` has four parts:

- `MemoryOK`, over the whole history of stores: after each store every level is sorted
  and part of the level below (`Sorted`), what is linked was made before, links are only
  added (`Linked` grows), and a store without release goes to a node that is not linked
  on that level;
- `WriterOK`: the levels from `max_height_` on are empty and nodes not made have no
  links (`Unused`); Insert's search is left of the new key, `prev[l]` is the last node
  before it on every level searched (`PrevOK`), and the linking loop has linked the
  levels below `level` and none of the others (`InLinking`);
- `ReaderOK`: a reader is at `head_` or at a node it sees linked on the level it
  searches, and before its target;
- types.

`PublishKeeps` and `LinkingKeeps` treat the two stores of the linking loop on one level,
`HistoryKeeps` carries a store into the history, and one lemma per step of Insert
follows. The heart of the readers' part is `LoadFacts`: whichever of the visible stores
a load returns, the reader's node is linked in that state of the list, since links are
only added, so what it loads is the successor there (`Sorted`); and as the only stores
without release are to nodes not linked, a load that returns a later store acquires it
and the view moves along. `ReadersGetExactAnswers` takes the state of the load that ended the
search: the reader is before its target there, and stops at the successor
(`StopIsAnswer`). No earlier load of the search matters, a stale `max_height_` neither.

**MemTableList** (`LSpec`). Assumed besides: a node is not smaller than a link, and all
sizes asked for are requests of the arena. `LInv == ListInv /\ ArenaInv /\
PlaceInv`: every node but `head_` that was made has a place, places are regions given
out by AllocateAligned and belong to one node, a link that is set lies inside, and
while Insert links, all links below its height do. `NewRegion` says that an allocation
returns a region nobody had; `InsertStepSets` that only the first store of the linking
loop sets a link that was not, and that one is below the height.

`TypeCorrect`, `TableHoldsCached`, `ElemsCounted`, `AllocationsInBlocks`,
`AllocationsAligned` and `WasteIsBounded` state definitions that no run checks, as the
proofs say more than a run could: `TypeOK`, `TableExact`, `ElemsExact`,
`RegionsInBlocks`, `AlignedRegions` and `WasteBounded`.

**FileLock.** Assumed: `Nobody` is not a process. `LockIInv == LockTypeOK /\
OneCallerPerProcess /\ KernelLockNotStuck`, which TLC checks as it stands: the two
properties need each other, since the kernel's lock rests on a caller that has the
table's entry. Both hold although `ProcessesExclude` does not (section 6).

**RandomAccessFiles.** Assumed: the limits and `IntMax` are naturals, the values
`Infinity` and `Failed` of getrlimit differ, and finitely many files are open or
being opened. `CountersExact` alone is not inductive for the budget: a limiter
that is refused hands a permit back, so the counter may be below zero.
`HoldersInLimit` says that holders never outnumber the limit (a negative one admits
nobody), `LimitInBudget` that the limit is at most a fifth of getrlimit's answer, also
when that wraps, `AbortedByWrap` that the assertion of `Limiter` fails only on a limit
that wrapped, `DescriptorsExact` where a descriptor or a mapping exists, and `NothingBeforeEnv`
that nobody opens a file before the limits are computed. The lemmas count slots by
place, with the cardinality theorems: a step moves one slot between two places.

**MemEnv.** Assumed: finitely many names and objects, and `NoState` is no state.
`MemIInv == MemTypeOK /\ ObjectsConsistent /\ OneNamePerState /\ CountsExact /\
FreedExactly`. A FileState has at most one name (`OneNamePerState`), so removing
a name changes its count by one; `FreedExactly` covers the moment between Unref's
decrement and the delete.

**ReadString** (`RSpec`, with `WriteString` and `WritableFile`). Assumed: the buffer
and the read size are positive. The invariant has three parts. `FileInv` says of the
writer that what is in the file, the write in progress and the buffer is in order
(`InOrder`) and, until something fails, complete (`Complete`); `InPlace` says which
of them can hold bytes at each place in Append, Flush, Sync and Close. `StageInv`
relates the place in DoWriteStringToFile to the method that runs and to its status,
and says that until the end the file holds a prefix of the string (`PrefixOnly`).
`ReaderInv` says that what was delivered is in order (`Ordered`), wherever the reader
went afterwards, and that until it strays, what was delivered and what was skipped
divide the offsets up to `pos`, which is not behind the end of the file (`Covered`).
An error that the destructor meets is told nobody (`UntoldError`), so `Complete` and
`NothingLostOrRepeated` make an exception of it. The proofs are over bytes and indices: nothing is bounded but by the
constants, which are arbitrary. TLC checks the conjunction on the run's bounds.

**IteratorCleanup and MergingIterator** (`CSpec`). Assumed: finitely many blocks and
keys, at least two children, and null values that are no nodes, keys or children.
For the cleanup list `CleanupInv == CleanupTypes /\ Numbered /\ Linked /\
Destructor`: the nodes behind the head hold the functions registered after the
first and not run yet, each linked to the one registered before it. For the
refinement `MergeInv == MergeTypes /\ Aligned`: unless a child has failed, every
child is at its first entry from the current one on while moving forwards, and at its
last entry up to it while moving backwards, where entries are ordered by key and, among
copies of one key, by child (`Above`, `Below`). `ForwardMove` and `ReverseMove` say what
FindSmallest and FindLargest then find: the first entry of a part of the entries that is
closed upwards (`UpClosed`), or the last of one closed downwards. Each method leaves the
children at the ends of such a part: `SeekToFirstLands`, `SeekToLastLands` and
`SeekLands` treat the seeks, `NextAhead` and `PrevAhead` a step in the direction of the
last one, where the part is all that is behind the current entry, and `NextTurns` and
`PrevTurns` the change of direction, where it is all that has a larger or a smaller key:
the copies of the current key are not in it. `StepOfCursor` maps each to a step of the
cursor, and all other steps to stuttering. That a finite set of keys has a least element
(`HasFirst`) is an induction over finite sets, which is possible here because it can
be stated as the well-foundedness of the strict subset order, without an operator
parameter.

**Formats.** The state is an input that never changes, so each theorem is a fact about
the operators, for every value of the constants: any alphabet and length of keys, any
set of policies, buffer and message size. Assumed: those constants are naturals, the
base in which a sequence number is packed holds both value types, a header fits the
buffer on the stack. `LookupsSeeSnapshots` rests on packing: `PackParses` shows that
parsing undoes it and `PackOrder` that the packed number orders by sequence number
first, whatever the types, from the uniqueness of quotient and remainder (`Division`,
`DivisionUnique`). `SeparatorsSeparate` needs what the loop in `DiffIndex` leaves
(`DiffIndexFacts`), and that a separator is only shortened where it stays before the
limit (`SeparatorBeforeLimit`). `FilterMatches` shows that the probes of a key depend on
its hash, on the size of the filter and on the number of probes it stores alone, so the
reader finds the bits the writer set, whatever its own policy. `LogvIsWhole` goes
through both attempts.

Only model-checked:

- liveness: the provers do not handle fairness and ENABLED;
- `NumbersRoundTrip` and `DecoderStaysInside` of `Formats`: loops over the digits of a
  number, with powers of the base, of which the provers know nothing;
- the properties of `Algorithms` (checksums, histograms, file blocks), whose modules use
  RECURSIVE operators and folds over whole inputs;
- `ProcessesExclude`, `SkipStopsAtEnd` and `MovesByOneEntry`, which do not hold.

## 6. Findings and observations

**Finding (run `file_lock_exclusion`).** `LockFile` opens the lock file before it
asks `PosixLockTable`, and closes the descriptor when the table refuses
(util/env_posix.cpp:661). POSIX drops all fcntl locks of a process on a file when
it closes any descriptor of it, so a refused second call releases the lock that
the first caller still holds, and another process can take it. env.h:142 says
the lock is "used to prevent concurrent access to the same db by multiple
processes".

UnlockFile has the same window: it takes the name out of the table before it closes
its descriptor (:682), and a thread that locks the file in between loses its lock.
`OneCallerPerProcess` and `KernelLockNotStuck` do not see this; only `ProcessesExclude`
does.

**Finding (run `skip_past_end`).** Skip of a sequential file is one `lseek` from the
current offset (util/env_posix.cpp:157), which goes past the end of the file and
returns OK; bytes written there later are passed over. env.h:215 says: "If end of file
is reached, skipping will stop at the end of the file, and Skip will return OK." A
count above the largest `off_t` even moves backwards. `ReaderMissesNothing` is about
readers whose Skips end inside the file.

**Finding (run `merge_turns`).** When Next turns the iterator around, it moves every
other child past an entry equal to `key()` (table/merger.cpp:66), so copies of the key
that come later are skipped; Prev puts every other child before `key()`
(table/merger.cpp:94) and skips the copies that come earlier. iterator.h:37 says "Moves
to the next entry in the source", and iterator.h:42 the same of the previous one.
Internal keys are distinct, so the database does not meet this; but nothing in
NewMergingIterator asks for it, and test/test_merger.cpp:314 merges children that
share keys. `IsMergedCursor` is what does hold with such children.

Observations made while reading. The models have these behaviours, the last two
excepted; the properties are stated so that they allow them:

- util/cache.cpp:103: the destructor's assertion "Error if caller has an
  unreleased handle" sees only entries that are still cached; a handle of an
  erased entry passes it. `DestroyFreesAll` says what the destructor leaves.
- util/env_posix.cpp:304 and :328: Append and Flush write to a MANIFEST without
  the directory sync that Sync performs, so the kernel may put such bytes on disk
  before the directory entries they refer to.
- util/env_posix.cpp:93: while a refused `Limiter::Acquire` has not put its permit
  back, another caller may be refused although one is free.
- util/env_posix.cpp:282: a destructor that closes the file ignores the status of
  Close, so bytes still in the buffer may be lost without anybody being told.
- util/env_posix.cpp:795: a fifth of a finite limit of more than 5 * 2^31 descriptors
  wraps to an int that may be negative. The assertion at :78 then ends the process;
  without assertions it goes on with no permits at all. Linux bounds the limit by
  fs.nr_open, which is below that.
- helper/memenv/memenv.cpp:167: Skip calls Size() twice; a truncation in between
  makes the unsigned difference wrap, and Skip moves past the end.
  memenv.cpp:347: renaming a file to its own name removes it.
- util/histogram.cpp: the median of an empty histogram divides zero by zero. The
  maximum starts at 0 and the minimum at the last limit, so a histogram of negative
  values only reports the maximum 0, and one of values beyond the last limit only
  that limit as the minimum; the median is bounded by these, not by the values.
  `HistogramExact` says so.
- util/env_posix.cpp:257: `offset + n` of a mapped file's Read can wrap.
- util/env_posix.cpp:550: the size of the file to map is asked by name after the
  file was opened, and may be that of another file.

## 7. Not modelled

- `Status`, `Slice`, `Options`: value types and plain data; a status appears in
  the models as an outcome.
- Wrappers of std::mutex and std::condition_variable (port/, util/mutexlock.h):
  `BackgroundWork` models what they wrap as external.
- `Hash` and `Random`: numeric functions without a promise beyond their quality.
  The models take any hash function and any height instead.
- Directory, time and thread operations of `PosixEnv`: one system call each, no
  state.
- `NewId` of the sharded cache, one increment under a mutex; the empty iterator;
  GetChildren, LockFile and the no-op logger of the in-memory Env: no behaviour to
  get wrong across steps.
- The bytes that Read of a random access file returns: one `pread` or one copy
  from the mapping.
- Formatting: `ToString`, `DebugString`, `EscapeString`, the text of log lines.
- The rounding of doubles in `Histogram`, and StandardDeviation, which is correct in
  exact arithmetic and hard only because of it.
- Inputs too short to have the fields that are read: `ParseInternalKey` of fewer than
  8 bytes and `KeyMayMatch` of a filter of fewer than 2, which return at once.
- Contents of in-memory files beside their names: `MemEnv` has sizes and positions, but
  what is read is in `FileBlocks`.

## 8. Plan

Done, in this order: LRUCache and HandleTable, SkipList, BackgroundWork,
RandomAccessFiles, FileLock, WritableFile with WriteString, MemEnv,
MergingIterator, Arena, Formats; proofs of LRUCache, BackgroundWork and Arena;
then ReadString, ShardedCache over LRUPolicy with the refinement of LRUShard,
MemTableList, IteratorCleanup, Crc32c, Histogram, FileBlocks, LogLine and the
limits of RandomAccessFiles; PosixEnv, which puts three modules in one run; and copies of
a key in several children of MergingIterator.

Then the proofs of FileLock, RandomAccessFiles, MemEnv, ReadString with WriteString
and WritableFile, IteratorCleanup with the refinement of MergedCursor, of `UsageIsSum`
and the refinement of LRUShard, and of SkipList and MemTableList; last those of
ShardedCache, of lookups, separators, filters and log lines, and the refinement of
HandleMap by the hash table.

Left: `NumbersRoundTrip` and `DecoderStaysInside`, which need a theory of powers of a
base; checksums, histograms and file blocks stay with TLC.
