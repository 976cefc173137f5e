---------------------------- MODULE Util_proofs ----------------------------
(***************************************************************************)
(* Proofs about the environment (background work, file locks, random       *)
(* access files and the in-memory environment, each for any number of      *)
(* threads, processes, files and names) and about the formats of keys,     *)
(* filters and log lines.  The components share no state; each section     *)
(* below reasons about one of them.                                        *)
(***************************************************************************)
EXTENDS BackgroundWork, FileLock, RandomAccessFiles, MemEnv, Formats, SharedLemmas

-----------------------------------------------------------------------------
(***************************************************************************)
(* Proof that scheduled work runs once and in order, and that no wakeup is *)
(* lost, for any number of clients and items.                              *)
(***************************************************************************)

ScheduleIInv == ScheduleTypeOK /\ CriticalSections /\ ThreadsConsistent /\ NeverSleepsOnWork

\* Appending, taking and finishing an item keep the order of the history.
LEMMA ConcatAppend ==
  ASSUME NEW a \in Seq(Items), NEW b \in Seq(Items), NEW i \in Items
  PROVE  a \o Append(b, i) = Append(a \o b, i)
  BY SMT

LEMMA ConcatEmpty ==
  ASSUME NEW a \in Seq(Items)
  PROVE  a \o << >> = a /\ << >> \o a = a
  BY SMT

LEMMA ConcatAssoc ==
  ASSUME NEW a \in Seq(Items), NEW b \in Seq(Items), NEW c \in Seq(Items)
  PROVE  (a \o b) \o c = a \o (b \o c)
  BY SMT

LEMMA SplitFirst ==
  ASSUME NEW q \in Seq(Items), q # << >>
  PROVE  /\ q[1] \in Items
         /\ SubSeq(q, 2, Len(q)) \in Seq(Items)
         /\ <<q[1]>> \o SubSeq(q, 2, Len(q)) = q
  BY SMT

\* The critical sections, the state of the threads and the absence of lost
\* wakeups are preserved by every step.
LEMMA ScheduleInductive == ScheduleIInv /\ [ScheduleNext]_scheduleVars => ScheduleIInv'
<1> SUFFICES ASSUME ScheduleIInv, [ScheduleNext]_scheduleVars PROVE ScheduleIInv'
  OBVIOUS
<1> USE ThreadsAssumption, ItemsAssumption
    DEF ScheduleIInv, ScheduleTypeOK, CriticalSections, ThreadsConsistent, NeverSleepsOnWork, Threads
<1>1. ASSUME NEW t \in Threads, NEW i \in Items, Schedule(t, i) PROVE ScheduleIInv'
  BY <1>1 DEF Schedule
<1>2. ASSUME NEW t \in Threads, ScheduleLock(t) PROVE ScheduleIInv'
  BY <1>2 DEF ScheduleLock, Lock
<1>3. ASSUME NEW t \in Threads, ScheduleStart(t) PROVE ScheduleIInv'
  BY <1>3 DEF ScheduleStart
<1>4. ASSUME NEW t \in Threads, ScheduleSignal(t) PROVE ScheduleIInv'
  BY <1>4 DEF ScheduleSignal, SignalIfEmpty, Signal
<1>5. ASSUME NEW t \in Threads, ScheduleEmplace(t) PROVE ScheduleIInv'
  BY <1>5 DEF ScheduleEmplace, Emplace, Unlock
<1>6. CASE BgLock
  BY <1>6 DEF BgLock, Lock
<1>7. CASE BgWait
  BY <1>7 DEF BgWait, Unlock
<1>8. CASE SpuriousWakeup
  BY <1>8 DEF SpuriousWakeup
<1>9. CASE BgTake
  BY <1>9, SplitFirst DEF BgTake, Take, Unlock
<1>10. CASE BgDone
  BY <1>10 DEF BgDone
<1>11. CASE UNCHANGED scheduleVars \/ Idle
  BY <1>11 DEF Idle, scheduleVars
<1>12. QED
  BY <1>1, <1>2, <1>3, <1>4, <1>5, <1>6, <1>7, <1>8, <1>9, <1>10, <1>11 DEF ScheduleNext

LEMMA Initially == ScheduleInit => ScheduleIInv /\ FirstInFirstOut
<1> SUFFICES ASSUME ScheduleInit PROVE ScheduleIInv /\ FirstInFirstOut
  OBVIOUS
<1>1. << >> \in Seq(Items) /\ << >> \o << >> = << >>
  BY ConcatEmpty
<1>2. ScheduleIInv
  <2>1. ScheduleTypeOK
    <3>1. call \in [Threads -> {"out", "lock", "start", "signal", "push"}]
      BY DEF ScheduleInit
    <3>2. arg \in [Threads -> Items \union {None}]
      BY DEF ScheduleInit
    <3>3. QED
      BY <1>1, <3>1, <3>2 DEF ScheduleInit, ScheduleTypeOK
  <2>2. CriticalSections /\ NeverSleepsOnWork
    BY DEF ScheduleInit, CriticalSections, NeverSleepsOnWork
  <2>3. ThreadsConsistent
    BY DEF ScheduleInit, ThreadsConsistent, Threads
  <2>4. QED
    BY <2>1, <2>2, <2>3 DEF ScheduleIInv
<1>3. FirstInFirstOut
  BY <1>1 DEF ScheduleInit, FirstInFirstOut, InFlight
<1>4. QED
  BY <1>2, <1>3

\* Every step keeps executed, running and queued items, in this order, equal to
\* what was scheduled.
LEMMA KeepsOrder == ScheduleIInv /\ FirstInFirstOut /\ [ScheduleNext]_scheduleVars => FirstInFirstOut'
<1> SUFFICES ASSUME ScheduleIInv, FirstInFirstOut, [ScheduleNext]_scheduleVars PROVE FirstInFirstOut'
  OBVIOUS
<1>t. ScheduleTypeOK /\ ThreadsConsistent
  BY DEF ScheduleIInv
<1>f. InFlight \in Seq(Items)
  BY <1>t DEF ScheduleTypeOK, InFlight
<1>1. ASSUME NEW t \in Threads, ScheduleEmplace(t) PROVE FirstInFirstOut'
  <2>1. arg[t] \in Items
    BY <1>1, <1>t DEF ScheduleEmplace, ThreadsConsistent, ScheduleTypeOK
  <2>2. executed \o InFlight \in Seq(Items)
    BY <1>t, <1>f DEF ScheduleTypeOK
  <2>3. (executed \o InFlight) \o Append(queue, arg[t])
          = Append((executed \o InFlight) \o queue, arg[t])
    BY <2>1, <2>2, <1>t, ConcatAppend DEF ScheduleTypeOK
  <2>4. InFlight' = InFlight
    BY <1>1 DEF ScheduleEmplace, InFlight
  <2>5. QED
    BY <1>1, <2>3, <2>4 DEF ScheduleEmplace, Emplace, FirstInFirstOut
<1>2. CASE BgTake
  <2>1. running = None /\ InFlight = << >> /\ InFlight' = <<queue[1]>>
    BY <1>2, <1>t, SplitFirst, ItemsAssumption
       DEF BgTake, Take, InFlight, ThreadsConsistent, ScheduleTypeOK
  <2>2. <<queue[1]>> \o queue' = queue /\ <<queue[1]>> \in Seq(Items) /\ queue' \in Seq(Items)
    BY <1>2, <1>t, SplitFirst DEF BgTake, Take, ScheduleTypeOK
  <2>3. (executed \o <<queue[1]>>) \o queue' = executed \o queue
    <3> DEFINE h == <<queue[1]>>
    <3>1. executed \in Seq(Items) /\ h \in Seq(Items) /\ queue' \in Seq(Items) /\ h \o queue' = queue
      BY <2>2, <1>t DEF ScheduleTypeOK
    <3> HIDE DEF h
    <3>2. (executed \o h) \o queue' = executed \o (h \o queue')
      BY <3>1, ConcatAssoc
    <3>3. QED
      BY <3>1, <3>2 DEF h
  <2>4. executed \o << >> = executed
    BY <1>t, ConcatEmpty DEF ScheduleTypeOK
  <2>5. QED
    BY <1>2, <2>1, <2>3, <2>4 DEF BgTake, FirstInFirstOut
<1>3. CASE BgDone
  <2>1. running \in Items /\ InFlight = <<running>> /\ InFlight' = << >>
    BY <1>3, <1>t DEF BgDone, InFlight, ThreadsConsistent, ScheduleTypeOK
  <2>2. executed' \o << >> = executed'
    BY <1>3, <1>t, <2>1, ConcatEmpty DEF BgDone, ScheduleTypeOK
  <2>3. executed' = executed \o <<running>>
    BY <1>3, <1>t, <2>1 DEF BgDone, ScheduleTypeOK
  <2>4. QED
    BY <1>3, <2>1, <2>2, <2>3 DEF BgDone, FirstInFirstOut
<1>4. CASE UNCHANGED <<executed, running, queue, scheduled>>
  BY <1>4 DEF FirstInFirstOut, InFlight
<1>5. QED
  BY <1>1, <1>2, <1>3, <1>4
     DEF ScheduleNext, Schedule, ScheduleLock, ScheduleStart, ScheduleSignal, BgLock, BgWait,
         SpuriousWakeup, Idle, scheduleVars

\* Work runs once and in the order it was scheduled, whichever threads schedule it.
THEOREM WorkRunsOnceInOrder == ScheduleSpec => []FirstInFirstOut
<1>1. ScheduleIInv /\ FirstInFirstOut /\ [ScheduleNext]_scheduleVars => (ScheduleIInv /\ FirstInFirstOut)'
  BY ScheduleInductive, KeepsOrder
<1>2. QED
  BY Initially, <1>1, PTL DEF ScheduleSpec

\* The background thread never sleeps while work is queued.
THEOREM NoLostWakeup == ScheduleSpec => []NeverSleepsOnWork
<1>1. ScheduleIInv => NeverSleepsOnWork
  BY DEF ScheduleIInv
<1>2. QED
  BY Initially, ScheduleInductive, <1>1, PTL DEF ScheduleSpec

-----------------------------------------------------------------------------
(***************************************************************************)
(* Proofs about FileLock, for any processes and any callers of each: the   *)
(* lock table admits one caller per process, and the kernel's lock is not  *)
(* left behind.  That two processes exclude each other does not hold.      *)
(***************************************************************************)

LockPlaces == {"out", "opened", "inserted", "busy", "refused", "held", "unlocked", "removed"}

LockTypeOK ==
  /\ kernel \in Processes \union {Nobody}
  /\ locked \in [Processes -> BOOLEAN]
  /\ lockPc \in [Callers -> LockPlaces]

\* The kernel's lock rests on a caller in "held", and that caller owns its
\* process's entry; so neither property is inductive without the other's state.
LockIInv == LockTypeOK /\ OneCallerPerProcess /\ KernelLockNotStuck

-----------------------------------------------------------------------------
\* Every caller belongs to a process.
LEMMA CallersHaveProcesses == \A c \in Callers : ProcessOf(c) \in Processes
BY DEF Callers, ProcessOf

\* The type invariant is preserved by every step of a caller or a restart.
LEMMA LockTypesPreserved == LockTypeOK /\ [LockNext]_lockVars => LockTypeOK'
<1> SUFFICES ASSUME LockTypeOK, [LockNext]_lockVars PROVE LockTypeOK'
  OBVIOUS
<1> USE CallersHaveProcesses DEF LockTypeOK, LockPlaces, LockGoto, Close, Unlck
<1>1. ASSUME NEW c \in Callers,
             LockOpen(c) \/ LockInsert(c) \/ LockHeld(c) \/ LockHeldClose(c)
      PROVE  LockTypeOK'
  BY <1>1 DEF LockOpen, LockInsert, LockHeld, LockHeldClose
<1>2. ASSUME NEW c \in Callers, LockSetlk(c) \/ LockRefused(c) \/ LockRemove(c)
      PROVE  LockTypeOK'
  BY <1>2 DEF LockSetlk, LockRefused, LockRemove
<1>3. ASSUME NEW c \in Callers, UnlockSetlk(c) \/ UnlockRemove(c) \/ UnlockClose(c)
      PROVE  LockTypeOK'
  BY <1>3 DEF UnlockSetlk, UnlockRemove, UnlockClose
<1>4. ASSUME NEW p \in Processes, Restart(p) PROVE LockTypeOK'
  BY <1>4 DEF Restart
<1>5. CASE UNCHANGED lockVars
  BY <1>5 DEF lockVars
<1> QED BY <1>1, <1>2, <1>3, <1>4, <1>5 DEF LockNext

\* A step of caller c that leaves the table alone and neither takes nor drops
\* the entry of its process keeps the first property.
LEMMA BystanderKeepsTable ==
  ASSUME LockIInv, NEW c \in Callers, NEW to \in LockPlaces,
         lockPc' = [lockPc EXCEPT ![c] = to], UNCHANGED locked,
         to \in {"inserted", "refused", "held", "unlocked"} <=> OwnsEntry(c)
  PROVE  OneCallerPerProcess'
<1>1. \A d \in Callers : OwnsEntry(d)' <=> OwnsEntry(d)
  BY DEF LockIInv, LockTypeOK, OwnsEntry
<1> QED BY <1>1 DEF LockIInv, OneCallerPerProcess

\* A caller that removes its process's entry was the only one that owned it.
LEMMA RemovalKeepsTable ==
  ASSUME LockIInv, NEW c \in Callers, NEW to \in LockPlaces, OwnsEntry(c),
         lockPc' = [lockPc EXCEPT ![c] = to], to \in {"out", "removed"},
         locked' = [locked EXCEPT ![ProcessOf(c)] = FALSE]
  PROVE  OneCallerPerProcess'
<1>1. \A d \in Callers : OwnsEntry(d)' <=> d # c /\ OwnsEntry(d)
  BY DEF LockIInv, LockTypeOK, OwnsEntry
<1>2. \A d \in Callers : ProcessOf(d) = ProcessOf(c) => ~OwnsEntry(d)'
  BY <1>1 DEF LockIInv, OneCallerPerProcess
<1>3. \A p \in Processes : locked'[p] <=> p # ProcessOf(c) /\ locked[p]
  BY DEF LockIInv, LockTypeOK
<1> QED BY <1>1, <1>2, <1>3, CallersHaveProcesses DEF LockIInv, OneCallerPerProcess

\* Every step keeps the lock table exact.
LEMMA TablePreserved == LockIInv /\ [LockNext]_lockVars => OneCallerPerProcess'
<1> SUFFICES ASSUME LockIInv, [LockNext]_lockVars PROVE OneCallerPerProcess'
  OBVIOUS
<1>1. ASSUME NEW c \in Callers, LockOpen(c) \/ LockHeld(c) \/ LockHeldClose(c) \/ UnlockClose(c)
      PROVE  OneCallerPerProcess'
  BY <1>1, BystanderKeepsTable
     DEF LockOpen, LockHeld, LockHeldClose, UnlockClose, LockGoto, LockPlaces, OwnsEntry
<1>2. ASSUME NEW c \in Callers, LockSetlk(c) \/ LockRefused(c) \/ UnlockSetlk(c)
      PROVE  OneCallerPerProcess'
  BY <1>2, BystanderKeepsTable DEF LockSetlk, LockRefused, UnlockSetlk, LockGoto, LockPlaces, OwnsEntry
<1>3. ASSUME NEW c \in Callers, LockInsert(c) PROVE OneCallerPerProcess'
  <2>1. \A d \in Callers : OwnsEntry(d)' <=> d = c \/ OwnsEntry(d)
    BY <1>3 DEF LockInsert, LockGoto, LockIInv, LockTypeOK, OwnsEntry
  <2>2. \A d \in Callers : ProcessOf(d) = ProcessOf(c) => ~OwnsEntry(d)
    BY <1>3, CallersHaveProcesses DEF LockInsert, LockIInv, OneCallerPerProcess
  <2>3. \A p \in Processes : locked'[p] <=> p = ProcessOf(c) \/ locked[p]
    BY <1>3, CallersHaveProcesses DEF LockInsert, LockIInv, LockTypeOK
  <2> QED BY <2>1, <2>2, <2>3 DEF LockIInv, OneCallerPerProcess
<1>4. ASSUME NEW c \in Callers, LockRemove(c) \/ UnlockRemove(c) PROVE OneCallerPerProcess'
  BY <1>4, RemovalKeepsTable DEF LockRemove, UnlockRemove, LockGoto, LockPlaces, OwnsEntry
<1>5. ASSUME NEW p \in Processes, Restart(p) PROVE OneCallerPerProcess'
  <2>1. \A d \in Callers : OwnsEntry(d)' <=> ProcessOf(d) # p /\ OwnsEntry(d)
    BY <1>5 DEF Restart, LockIInv, LockTypeOK, OwnsEntry
  <2>2. \A q \in Processes : locked'[q] <=> q # p /\ locked[q]
    BY <1>5 DEF Restart, LockIInv, LockTypeOK
  <2> QED BY <2>1, <2>2 DEF LockIInv, OneCallerPerProcess
<1>6. CASE UNCHANGED lockVars
  BY <1>6 DEF lockVars, LockIInv, OneCallerPerProcess, OwnsEntry
<1> QED BY <1>1, <1>2, <1>3, <1>4, <1>5, <1>6 DEF LockNext

\* Every step keeps the kernel's lock with a caller in "held".
LEMMA KernelPreserved == LockIInv /\ [LockNext]_lockVars => KernelLockNotStuck'
<1> SUFFICES ASSUME LockIInv, [LockNext]_lockVars, kernel' # Nobody
             PROVE  \E d \in Callers : ProcessOf(d) = kernel' /\ lockPc'[d] = "held"
  BY DEF KernelLockNotStuck
<1>1. ASSUME NEW c \in Callers, LockSetlk(c)
      PROVE  ProcessOf(c) = kernel' /\ lockPc'[c] = "held"
  BY <1>1 DEF LockSetlk, LockGoto, LockIInv, LockTypeOK
<1>2. ASSUME NEW d \in Callers, ProcessOf(d) = kernel, lockPc[d] = "held", ~\E c \in Callers : LockSetlk(c)
      PROVE  kernel' = kernel /\ lockPc'[d] = "held"
  <2> USE <1>2 DEF LockIInv, LockTypeOK, LockGoto, Close, Unlck
  <2>1. ASSUME NEW c \in Callers,
               LockOpen(c) \/ LockInsert(c) \/ LockHeld(c) \/ LockHeldClose(c) \/ LockRefused(c)
        PROVE  kernel' = kernel /\ lockPc'[d] = "held"
    BY <2>1 DEF LockOpen, LockInsert, LockHeld, LockHeldClose, LockRefused
  <2>2. ASSUME NEW c \in Callers,
               LockRemove(c) \/ UnlockSetlk(c) \/ UnlockRemove(c) \/ UnlockClose(c)
        PROVE  kernel' = kernel /\ lockPc'[d] = "held"
    BY <2>2 DEF LockRemove, UnlockSetlk, UnlockRemove, UnlockClose
  <2>3. ASSUME NEW p \in Processes, Restart(p) PROVE kernel' = kernel /\ lockPc'[d] = "held"
    BY <2>3 DEF Restart
  <2>4. CASE UNCHANGED lockVars
    BY <2>4 DEF lockVars
  <2> QED BY <2>1, <2>2, <2>3, <2>4 DEF LockNext
<1>3. kernel = Nobody => kernel' = Nobody \/ \E c \in Callers : LockSetlk(c)
  BY DEF LockNext, lockVars, LockOpen, LockInsert, LockHeld, LockHeldClose, LockRefused, LockRemove,
         UnlockSetlk, UnlockRemove, UnlockClose, Restart, Close, Unlck
<1> QED BY <1>1, <1>2, <1>3 DEF LockIInv, KernelLockNotStuck

LEMMA LockInductive == LockSpec => []LockIInv
<1>1. LockInit => LockIInv
  BY DEF LockInit, LockIInv, LockTypeOK, LockPlaces, OneCallerPerProcess, OwnsEntry, KernelLockNotStuck
<1>2. LockIInv /\ [LockNext]_lockVars => LockIInv'
  BY LockTypesPreserved, TablePreserved, KernelPreserved DEF LockIInv
<1> QED BY <1>1, <1>2, PTL DEF LockSpec

-----------------------------------------------------------------------------
\* PosixLockTable: of the callers of a process at most one is between
\* locks_.Insert and locks_.Remove, and the entry is there exactly then.
THEOREM TableAdmitsOneCaller == LockSpec => []OneCallerPerProcess
BY LockInductive, PTL DEF LockIInv

\* LockFile's error paths and UnlockFile never leave the fcntl lock with a
\* process none of whose callers holds it.
THEOREM KernelLockReleased == LockSpec => []KernelLockNotStuck
BY LockInductive, PTL DEF LockIInv

-----------------------------------------------------------------------------
(***************************************************************************)
(* Proofs about RandomAccessFiles, for any finite number of threads and    *)
(* any limits: permits are conserved and the descriptor budget is kept.    *)
(***************************************************************************)

Places == {"none", "opened", "map", "mmap_back", "fd_acquire", "fd_file", "fd_back",
           "bare_close", "bare_file", "map_close", "map_failed", "mmap_file",
           "map_undo", "mmap_release", "fd_release", "bare_reading"}

FilesTypeOK ==
  /\ rlimit \in RLimits /\ limit \in Int /\ env \in BOOLEAN /\ aborted \in BOOLEAN
  /\ mmap_allowed \in Int /\ fd_allowed \in Int
  /\ filePc \in [Files -> Places]
  /\ fd \in [Files -> BOOLEAN]
  /\ mapped \in [Files -> BOOLEAN]

\* The counters account for every permit that is taken.
CountersExact ==
  env => /\ mmap_allowed = MaxMmaps - Cardinality(MmapHolders) - Cardinality(MmapReturning)
         /\ fd_allowed = limit - Cardinality(FdHolders) - Cardinality(FdReturning)

\* Nothing is opened before the Env exists.
NothingBeforeEnv ==
  ~env => (aborted \/ limit = -1) /\ \A f \in Files : filePc[f] = "none"

\* The assertion of Limiter's constructor fails only on a limit that wrapped.
AbortedByWrap == aborted => rlimit \notin {Failed, Infinity} /\ rlimit \div 5 > IntMax

\* Where a slot has closed its descriptor for good, or has not opened it yet.
ClosedPlaces == {"none", "bare_file", "mmap_file", "map_undo", "mmap_release", "fd_release"}

DescriptorsExact ==
  \A f \in Files :
    /\ filePc[f] \in ClosedPlaces => ~fd[f]
    /\ filePc[f] \notin {"map_close", "mmap_file"} => ~mapped[f]

\* What MaxOpenFiles computed is within the budget, though it may be negative.
LimitInBudget ==
  env => /\ rlimit = Failed => limit <= Fallback
         /\ rlimit \notin {Failed, Infinity} => 5 * limit <= rlimit

\* A negative limit admits nobody, any other as many as it says.
HoldersInLimit == FdHolders # {} => Cardinality(FdHolders) <= limit

FilesIInv ==
  /\ FilesTypeOK /\ CountersExact /\ NothingBeforeEnv /\ DescriptorsExact
  /\ AbortedByWrap /\ LimitInBudget /\ HoldersInLimit

-----------------------------------------------------------------------------
One(p, S) == IF p \in S THEN 1 ELSE 0

\* The slots at some places are finitely many.
LEMMA AtFinite ==
  ASSUME NEW S
  PROVE  IsFiniteSet(At(S)) /\ Cardinality(At(S)) \in Nat
<1>1. At(S) \in SUBSET Files
  BY DEF At
<1> QED BY <1>1, FilesAssumption, FS_Subset, FS_CardinalityType

\* A slot that moves leaves the count of where it was and joins that of where
\* it goes.
LEMMA MoveCounts ==
  ASSUME FilesTypeOK, NEW f \in Files, NEW from, NEW to, Goto(f, from, to), NEW S
  PROVE  Cardinality(At(S)') = Cardinality(At(S)) + One(to, S) - One(from, S)
<1>1. CASE to \in S
  <2>1. At(S)' = At(S) \union {f}
    BY <1>1 DEF At, Goto, FilesTypeOK
  <2>2. f \in At(S) <=> from \in S
    BY DEF At, Goto
  <2> QED BY <1>1, <2>1, <2>2, AtFinite, FS_AddElement DEF One
<1>2. CASE to \notin S
  <2>1. At(S)' = At(S) \ {f}
    BY <1>2 DEF At, Goto, FilesTypeOK
  <2>2. f \in At(S) <=> from \in S
    BY DEF At, Goto
  <2>3. Cardinality(At(S) \ {f}) =
          IF f \in At(S) THEN Cardinality(At(S)) - 1 ELSE Cardinality(At(S))
    BY AtFinite, FS_RemoveElement
  <2> QED BY <1>2, <2>1, <2>2, <2>3, AtFinite DEF One
<1> QED BY <1>1, <1>2

MmapPlaces == {"map", "map_close", "map_failed", "map_undo", "mmap_file", "mmap_release"}
FdPlaces == {"fd_file", "fd_release"}

\* What a move changes in the four counts of permits.
LEMMA MovePermits ==
  ASSUME FilesTypeOK, NEW f \in Files, NEW from, NEW to, Goto(f, from, to)
  PROVE  /\ Cardinality(MmapHolders)' =
              Cardinality(MmapHolders) + One(to, MmapPlaces) - One(from, MmapPlaces)
         /\ Cardinality(MmapReturning)' =
              Cardinality(MmapReturning) + One(to, {"mmap_back"}) - One(from, {"mmap_back"})
         /\ Cardinality(FdHolders)' =
              Cardinality(FdHolders) + One(to, FdPlaces) - One(from, FdPlaces)
         /\ Cardinality(FdReturning)' =
              Cardinality(FdReturning) + One(to, {"fd_back"}) - One(from, {"fd_back"})
<1>1. \A S : Cardinality(At(S)') = Cardinality(At(S)) + One(to, S) - One(from, S)
  BY MoveCounts
<1> QED BY <1>1 DEF MmapHolders, MmapReturning, FdHolders, FdReturning, MmapPlaces, FdPlaces

LEMMA CountsAreNaturals ==
  /\ Cardinality(MmapHolders) \in Nat /\ Cardinality(MmapReturning) \in Nat
  /\ Cardinality(FdHolders) \in Nat /\ Cardinality(FdReturning) \in Nat
BY AtFinite DEF MmapHolders, MmapReturning, FdHolders, FdReturning

-----------------------------------------------------------------------------
\* The type invariant is preserved by every step of a slot.
LEMMA FilesTypesPreserved ==
  ASSUME FilesTypeOK, NEW f \in Files, Step(f), UNCHANGED process
  PROVE  FilesTypeOK'
<1>1. \A from, to : to \in Places /\ Goto(f, from, to) => filePc' \in [Files -> Places]
  BY DEF FilesTypeOK, Goto
<1>2. Opens(f) \/ Closes(f) => fd' \in [Files -> BOOLEAN]
  BY DEF FilesTypeOK, Opens, Closes
<1>3. Map(f) \/ Unmap(f) => mapped' \in [Files -> BOOLEAN]
  BY DEF FilesTypeOK, Map, Unmap
<1> USE <1>1, <1>2, <1>3 DEF FilesTypeOK, Places, process
<1>4. CASE Open(f) \/ MmapAcquire(f) \/ MmapRefused(f) \/ FdAcquire(f) \/ FdRefused(f)
  BY <1>4 DEF Open, MmapAcquire, MmapRefused, FdAcquire, FdRefused
<1>5. CASE BareClose(f) \/ MapFails(f) \/ MapClose(f) \/ MapUndo(f)
  BY <1>5 DEF BareClose, MapFails, MapClose, MapUndo
<1>6. CASE MmapRelease(f) \/ CloseFd(f) \/ FdRelease(f)
  BY <1>6 DEF MmapRelease, CloseFd, FdRelease
<1>7. CASE ReadOpen(f) \/ ReadClose(f) \/ DeleteBare(f)
  BY <1>7 DEF ReadOpen, ReadClose, DeleteBare
<1>8. CASE Map(f)
  BY <1>8 DEF Map
<1>9. CASE Unmap(f)
  BY <1>9 DEF Unmap
<1> QED BY <1>4, <1>5, <1>6, <1>7, <1>8, <1>9 DEF Step

\* A slot's step needs the Env: before it, every slot is at "none", where only
\* Open is possible.
LEMMA StepNeedsEnv ==
  ASSUME FilesIInv, NEW f \in Files, Step(f)
  PROVE  env
<1>1. filePc[f] = "none" => env
  BY DEF Step, Open, MmapAcquire, MmapRefused, FdAcquire, FdRefused, BareClose, Map, MapFails,
         MapClose, MapUndo, Unmap, MmapRelease, CloseFd, FdRelease, ReadOpen, ReadClose,
         DeleteBare, Goto
<1> QED BY <1>1 DEF FilesIInv, NothingBeforeEnv

\* Every step of a slot takes or returns the permits its move says.
LEMMA CountersPreserved ==
  ASSUME FilesIInv, NEW f \in Files, Step(f), UNCHANGED process
  PROVE  CountersExact'
<1> USE MovePermits, CountsAreNaturals, LimitsAssumption
    DEF FilesIInv, FilesTypeOK, CountersExact, One, MmapPlaces, FdPlaces, process
<1>0. env
  BY StepNeedsEnv
<1>1. CASE Open(f)
  BY <1>0, <1>1 DEF Open
<1>2. CASE MmapAcquire(f)
  BY <1>0, <1>2 DEF MmapAcquire
<1>3. CASE MmapRefused(f)
  BY <1>0, <1>3 DEF MmapRefused
<1>4. CASE FdAcquire(f)
  BY <1>0, <1>4 DEF FdAcquire
<1>5. CASE FdRefused(f)
  BY <1>0, <1>5 DEF FdRefused
<1>6. CASE BareClose(f)
  BY <1>0, <1>6 DEF BareClose
<1>7. CASE Map(f)
  BY <1>0, <1>7 DEF Map
<1>8. CASE MapFails(f)
  BY <1>0, <1>8 DEF MapFails
<1>9. CASE MapClose(f)
  BY <1>0, <1>9 DEF MapClose
<1>10. CASE MapUndo(f)
  BY <1>0, <1>10 DEF MapUndo
<1>11. CASE Unmap(f)
  BY <1>0, <1>11 DEF Unmap
<1>12. CASE MmapRelease(f)
  BY <1>0, <1>12 DEF MmapRelease
<1>13. CASE CloseFd(f)
  BY <1>0, <1>13 DEF CloseFd
<1>14. CASE FdRelease(f)
  BY <1>0, <1>14 DEF FdRelease
<1>15. CASE ReadOpen(f) \/ ReadClose(f) \/ DeleteBare(f)
  BY <1>0, <1>15 DEF ReadOpen, ReadClose, DeleteBare
<1> QED BY <1>1, <1>2, <1>3, <1>4, <1>5, <1>6, <1>7, <1>8, <1>9, <1>10, <1>11, <1>12,
           <1>13, <1>14, <1>15 DEF Step

\* Descriptors and mappings are where the slot's place says.
LEMMA DescriptorsPreserved ==
  ASSUME FilesIInv, NEW f \in Files, Step(f)
  PROVE  DescriptorsExact'
<1> USE DEF FilesIInv, FilesTypeOK, DescriptorsExact, ClosedPlaces, Goto, Opens, Closes
<1>1. CASE Open(f) \/ MmapAcquire(f) \/ MmapRefused(f) \/ FdAcquire(f) \/ FdRefused(f)
  BY <1>1 DEF Open, MmapAcquire, MmapRefused, FdAcquire, FdRefused
<1>2. CASE BareClose(f) \/ Map(f) \/ MapFails(f) \/ MapClose(f) \/ MapUndo(f)
  BY <1>2 DEF BareClose, Map, MapFails, MapClose, MapUndo
<1>3. CASE Unmap(f) \/ MmapRelease(f) \/ CloseFd(f) \/ FdRelease(f)
  BY <1>3 DEF Unmap, MmapRelease, CloseFd, FdRelease
<1>4. CASE ReadOpen(f) \/ ReadClose(f) \/ DeleteBare(f)
  BY <1>4 DEF ReadOpen, ReadClose, DeleteBare
<1> QED BY <1>1, <1>2, <1>3, <1>4 DEF Step

\* fd_limiter_ grants a permit only when it counts one as free, and it never
\* counts more free than there are.
LEMMA HoldersPreserved ==
  ASSUME FilesIInv, NEW f \in Files, Step(f), UNCHANGED process
  PROVE  HoldersInLimit'
<1>1. CASE FdAcquire(f) /\ Grants(fd_allowed)
  <2>1. Goto(f, "fd_acquire", "fd_file")
    BY <1>1 DEF FdAcquire
  <2>2. Cardinality(FdHolders)' = Cardinality(FdHolders) + 1
    BY <2>1, MovePermits, CountsAreNaturals DEF FilesIInv, One, FdPlaces
  <2>3. fd_allowed = limit - Cardinality(FdHolders) - Cardinality(FdReturning) /\ fd_allowed > 0
    BY <1>1, StepNeedsEnv DEF FilesIInv, CountersExact, Grants
  <2> QED BY <2>2, <2>3, CountsAreNaturals DEF FilesIInv, FilesTypeOK, HoldersInLimit, process
<1>2. CASE ~(FdAcquire(f) /\ Grants(fd_allowed))
  <2>1. FdHolders' \subseteq FdHolders
    <3> SUFFICES ASSUME NEW g \in Files, filePc'[g] \in FdPlaces
                 PROVE  filePc[g] \in FdPlaces
      BY DEF FdHolders, At, FdPlaces
    <3> USE DEF FilesIInv, FilesTypeOK, Goto, FdPlaces
    <3>1. CASE Open(f) \/ MmapAcquire(f) \/ MmapRefused(f) \/ FdAcquire(f) \/ FdRefused(f)
      BY <1>2, <3>1 DEF Open, MmapAcquire, MmapRefused, FdAcquire, FdRefused
    <3>2. CASE BareClose(f) \/ Map(f) \/ MapFails(f) \/ MapClose(f) \/ MapUndo(f)
      BY <3>2 DEF BareClose, Map, MapFails, MapClose, MapUndo
    <3>3. CASE Unmap(f) \/ MmapRelease(f) \/ CloseFd(f) \/ FdRelease(f)
      BY <3>3 DEF Unmap, MmapRelease, CloseFd, FdRelease
    <3>4. CASE ReadOpen(f) \/ ReadClose(f) \/ DeleteBare(f)
      BY <3>4 DEF ReadOpen, ReadClose, DeleteBare
    <3> QED BY <3>1, <3>2, <3>3, <3>4 DEF Step
  <2>2. FdHolders' # {} => Cardinality(FdHolders') <= Cardinality(FdHolders) /\ FdHolders # {}
    BY <2>1, AtFinite, FS_Subset DEF FdHolders
  <2>3. Cardinality(FdHolders') \in Nat
    BY <2>1, AtFinite, FS_Subset, FS_CardinalityType DEF FdHolders
  <2> QED BY <2>2, <2>3, CountsAreNaturals DEF FilesIInv, FilesTypeOK, HoldersInLimit, process
<1> QED BY <1>1, <1>2

\* A step of a slot preserves the invariant.
LEMMA StepKeeps ==
  ASSUME FilesIInv, NEW f \in Files, Step(f), UNCHANGED process
  PROVE  FilesIInv'
<1>1. NothingBeforeEnv' /\ AbortedByWrap' /\ LimitInBudget'
  BY StepNeedsEnv DEF FilesIInv, NothingBeforeEnv, AbortedByWrap, LimitInBudget, process
<1> QED BY <1>1, FilesTypesPreserved, CountersPreserved, DescriptorsPreserved, HoldersPreserved DEF FilesIInv

\* A number converted to int comes out at most as large as it was, and as it was
\* when it fits.
LEMMA ToIntShrinks ==
  ASSUME NEW n \in Nat
  PROVE  ToInt(n) \in Int /\ ToInt(n) <= n /\ (n <= IntMax => ToInt(n) = n)
BY LimitsAssumption DEF ToInt

\* MaxOpenFiles stays within the budget.
LEMMA MaxOpenFilesInBudget ==
  ASSUME rlimit \in RLimits, limit = -1
  PROVE  /\ MaxOpenFiles \in Int
         /\ rlimit = Failed => MaxOpenFiles = Fallback
         /\ rlimit \notin {Failed, Infinity} => 5 * MaxOpenFiles <= rlimit
         /\ MaxOpenFiles < 0 => rlimit \notin {Failed, Infinity} /\ rlimit \div 5 > IntMax
<1>1. CASE rlimit = Failed
  BY <1>1, LimitsAssumption DEF MaxOpenFiles
<1>2. CASE rlimit = Infinity
  BY <1>2, LimitsAssumption DEF MaxOpenFiles
<1>3. CASE rlimit \notin {Failed, Infinity}
  <2>1. rlimit \in Nat /\ rlimit \div 5 \in Nat /\ 5 * (rlimit \div 5) <= rlimit
    BY <1>3, LimitsAssumption
  <2>2. MaxOpenFiles = ToInt(rlimit \div 5)
    BY <1>3 DEF MaxOpenFiles
  <2> DEFINE q == rlimit \div 5
  <2>3. q \in Nat /\ 5 * q <= rlimit /\ MaxOpenFiles = ToInt(q)
    BY <2>1, <2>2
  <2>4. ToInt(q) \in Int /\ ToInt(q) <= q /\ (q <= IntMax => ToInt(q) = q)
    BY <2>3, ToIntShrinks
  <2>5. MaxOpenFiles < 0 => q > IntMax
    <3> HIDE DEF q
    <3> QED BY <2>3, <2>4, LimitsAssumption
  <2>6. MaxOpenFiles \in Int /\ 5 * MaxOpenFiles <= rlimit
    <3> HIDE DEF q
    <3> QED BY <2>1, <2>3, <2>4
  <2> QED BY <1>3, <2>5, <2>6
<1> QED BY <1>1, <1>2, <1>3

\* The construction of the Env preserves the invariant: nobody holds a permit.
LEMMA DefaultKeeps ==
  ASSUME FilesIInv, Default
  PROVE  FilesIInv'
<1>0. aborted' \in BOOLEAN /\ (aborted' => MaxOpenFiles < 0 \/ ~(MaxOpenFiles >= 0))
  BY DEF Default, LimiterAsserts
<1>1. rlimit \in RLimits /\ limit = -1 /\ \A f \in Files : filePc[f] = "none"
  BY DEF FilesIInv, FilesTypeOK, Default, NothingBeforeEnv
<1>2. MmapHolders' = {} /\ MmapReturning' = {} /\ FdHolders' = {} /\ FdReturning' = {}
  BY <1>1 DEF Default, MmapHolders, MmapReturning, FdHolders, FdReturning, At
<1>3. FilesTypeOK'
  BY <1>0, <1>1, MaxOpenFilesInBudget, LimitsAssumption DEF FilesIInv, FilesTypeOK, Default
<1>4. CountersExact'
  BY <1>2, <1>3, FS_EmptySet, LimitsAssumption DEF FilesTypeOK, Default, CountersExact
<1>5. DescriptorsExact' /\ NothingBeforeEnv'
  BY <1>0, <1>1 DEF FilesIInv, Default, DescriptorsExact, NothingBeforeEnv
<1>6. LimitInBudget'
  BY <1>1, MaxOpenFilesInBudget, LimitsAssumption DEF Default, LimitInBudget
<1>7. AbortedByWrap'
  BY <1>0, <1>1, MaxOpenFilesInBudget DEF Default, AbortedByWrap
<1> QED BY <1>2, <1>3, <1>4, <1>5, <1>6, <1>7 DEF FilesIInv, HoldersInLimit

LEMMA FilesInductive == FilesSpec => []FilesIInv
<1>1. FilesInit => FilesIInv
  <2> SUFFICES ASSUME FilesInit PROVE FilesIInv
    OBVIOUS
  <2>1. FdHolders = {}
    BY DEF FilesInit, FdHolders, At
  <2>2. FilesTypeOK
    <3>1. filePc \in [Files -> Places]
      BY DEF FilesInit, Places
    <3>2. fd \in [Files -> BOOLEAN] /\ mapped \in [Files -> BOOLEAN]
      BY DEF FilesInit
    <3>3. limit \in Int /\ mmap_allowed \in Int /\ fd_allowed \in Int
      BY DEF FilesInit
    <3>4. rlimit \in RLimits /\ env \in BOOLEAN /\ aborted \in BOOLEAN
      BY DEF FilesInit
    <3> QED BY <3>1, <3>2, <3>3, <3>4 DEF FilesTypeOK
  <2>3. DescriptorsExact /\ NothingBeforeEnv /\ AbortedByWrap
    BY DEF FilesInit, DescriptorsExact, NothingBeforeEnv, AbortedByWrap
  <2> QED BY <2>1, <2>2, <2>3 DEF FilesInit, FilesIInv, CountersExact, LimitInBudget, HoldersInLimit
<1>2. FilesIInv /\ [FilesNext]_filesVars => FilesIInv'
  <2> SUFFICES ASSUME FilesIInv, [FilesNext]_filesVars PROVE FilesIInv'
    OBVIOUS
  <2>1. CASE UNCHANGED filesVars
    BY <2>1 DEF filesVars, process, FilesIInv, FilesTypeOK, CountersExact, NothingBeforeEnv, DescriptorsExact,
                AbortedByWrap, LimitInBudget, HoldersInLimit, MmapHolders, MmapReturning, FdHolders,
                FdReturning, At
  <2> QED BY <2>1, StepKeeps, DefaultKeeps DEF FilesNext, Aborted
<1> QED BY <1>1, <1>2, PTL DEF FilesSpec

-----------------------------------------------------------------------------
\* Limiter, NewRandomAccessFile and both file classes: on every path, error paths
\* included, acquires_allowed_ accounts for every permit, and no descriptor or
\* mapping outlives its use.
THEOREM PermitsAreConserved == FilesSpec => []PermitsConserved
<1>1. FilesIInv => PermitsConserved
  BY DEF FilesIInv, CountersExact, DescriptorsExact, ClosedPlaces, PermitsConserved
<1> QED BY <1>1, FilesInductive, PTL

\* MaxOpenFiles and fd_limiter_: files that keep a descriptor take at most a
\* fifth of what the process may open, for any number of threads, and Limiter's
\* assertion fails only when that fifth does not fit an int.
THEOREM DescriptorsInBudget == FilesSpec => []DescriptorBudget
<1>1. FilesIInv => DescriptorBudget
  <2> SUFFICES ASSUME FilesIInv PROVE DescriptorBudget
    OBVIOUS
  <2>1. FdHolders = {} => Cardinality(FdHolders) = 0
    BY FS_EmptySet
  <2>2. FdHolders # {} => env
    BY DEF FilesIInv, NothingBeforeEnv, FdHolders, At
  <2>3. rlimit \in Nat \union {Failed, Infinity}
    BY LimitsAssumption DEF FilesIInv, FilesTypeOK
  <2>4. CASE FdHolders = {}
    BY <2>1, <2>3, <2>4, LimitsAssumption DEF FilesIInv, AbortedByWrap, DescriptorBudget
  <2>5. CASE FdHolders # {}
    BY <2>2, <2>3, <2>5, CountsAreNaturals, LimitsAssumption
       DEF FilesIInv, FilesTypeOK, HoldersInLimit, LimitInBudget, AbortedByWrap, DescriptorBudget
  <2> QED BY <2>4, <2>5
<1> QED BY <1>1, FilesInductive, PTL

-----------------------------------------------------------------------------
(***************************************************************************)
(* Proofs about MemEnv, for any finite numbers of names and file objects   *)
(* and any number of FileStates: reference counts are exact, and a         *)
(* FileState is freed exactly when nobody can reach it.                    *)
(***************************************************************************)

Kinds == {"none", "sequential", "random", "writable"}

\* Sizes and positions play no part in who refers to what.
MemTypeOK ==
  /\ file_map \in [Names -> States \union {NoState}]
  /\ live \subseteq States
  /\ refs \in [States -> Int]
  /\ kind \in [Objects -> Kinds]
  /\ file \in [Objects -> States \union {NoState}]
  /\ pc \in [Objects -> {"idle", "skip", "delete"}]

\* An object has a FileState as long as it is open or about to delete it.
ObjectsConsistent ==
  \A o \in Objects :
    /\ kind[o] # "none" \/ pc[o] = "delete" => file[o] \in States
    /\ pc[o] = "delete" => kind[o] = "none"
    /\ pc[o] = "skip" => kind[o] # "none"

\* No FileState has two names, so the map has one reference to it at most.
OneNamePerState ==
  \A m, n \in Names : file_map[m] = file_map[n] /\ file_map[m] # NoState => m = n

NamesOf(f) == {n \in Names : file_map[n] = f}
HoldersOf(f) == {o \in Objects : kind[o] # "none" /\ file[o] = f}
Deleting(f) == {o \in Objects : pc[o] = "delete" /\ file[o] = f}

Named(f) == \E n \in Names : file_map[n] = f
NameCount(f) == IF Named(f) THEN 1 ELSE 0

CountsExact == \A f \in States : refs[f] = NameCount(f) + Cardinality(HoldersOf(f))

FreedExactly ==
  \A f \in States :
    /\ f \in live <=> Named(f) \/ HoldersOf(f) # {} \/ Deleting(f) # {}
    /\ Deleting(f) # {} => ~Named(f) /\ HoldersOf(f) = {}
    /\ \A o, p \in Deleting(f) : o = p

MemIInv == MemTypeOK /\ ObjectsConsistent /\ OneNamePerState /\ CountsExact /\ FreedExactly

-----------------------------------------------------------------------------
LEMMA HoldersFinite ==
  ASSUME NEW f
  PROVE  /\ IsFiniteSet(HoldersOf(f)) /\ Cardinality(HoldersOf(f)) \in Nat
         /\ Cardinality(HoldersOf(f)) = 0 <=> HoldersOf(f) = {}
<1>1. HoldersOf(f) \in SUBSET Objects
  BY DEF HoldersOf
<1>2. IsFiniteSet(HoldersOf(f))
  BY <1>1, MemEnvAssumption, FS_Subset
<1> QED BY <1>2, FS_CardinalityType, FS_EmptySet

\* With one name at most, the number of names is 1 or 0.
LEMMA NamesCounted ==
  ASSUME OneNamePerState, NEW f \in States
  PROVE  Cardinality(NamesOf(f)) = NameCount(f)
<1>1. CASE Named(f)
  <2>1. PICK n \in Names : file_map[n] = f
    BY <1>1 DEF Named
  <2>2. NamesOf(f) = {n}
    BY <2>1, MemEnvAssumption DEF NamesOf, OneNamePerState
  <2> QED BY <1>1, <2>2, FS_Singleton DEF NameCount
<1>2. CASE ~Named(f)
  <2>1. NamesOf(f) = {}
    BY <1>2 DEF NamesOf, Named
  <2> QED BY <1>2, <2>1, FS_EmptySet DEF NameCount
<1> QED BY <1>1, <1>2

\* An object that is made on a FileState adds one holder to it, to no other, and
\* changes nothing about who is deleting.
LEMMA MakeAddsHolder ==
  ASSUME MemIInv, NEW o \in Objects, NEW k \in Kinds \ {"none"}, NEW f \in States,
         MakeObject(o, k, f), NEW g \in States
  PROVE  /\ HoldersOf(g)' = IF g = f THEN HoldersOf(g) \union {o} ELSE HoldersOf(g)
         /\ Cardinality(HoldersOf(g)') =
              Cardinality(HoldersOf(g)) + (IF g = f THEN 1 ELSE 0)
         /\ Deleting(g)' = Deleting(g)
<1>1. HoldersOf(g)' = IF g = f THEN HoldersOf(g) \union {o} ELSE HoldersOf(g)
  BY DEF MakeObject, HoldersOf, MemIInv, MemTypeOK
<1>2. o \notin HoldersOf(g)
  BY DEF MakeObject, HoldersOf
<1>3. Cardinality(HoldersOf(g) \union {o}) = Cardinality(HoldersOf(g)) + 1
  BY <1>2, HoldersFinite, FS_AddElement
<1>4. Deleting(g)' = Deleting(g)
  BY DEF MakeObject, Deleting, MemIInv, MemTypeOK
<1> QED BY <1>1, <1>3, <1>4, HoldersFinite

\* Making an object keeps types and the objects' consistency.
LEMMA MakeKeepsObjects ==
  ASSUME MemIInv, NEW o \in Objects, NEW k \in Kinds \ {"none"}, NEW f \in States,
         MakeObject(o, k, f)
  PROVE  /\ kind' \in [Objects -> Kinds]
         /\ file' \in [Objects -> States \union {NoState}]
         /\ pc' \in [Objects -> {"idle", "skip", "delete"}]
         /\ ObjectsConsistent'
BY DEF MakeObject, MemIInv, MemTypeOK, ObjectsConsistent

\* A file that has a name is opened once more.
LEMMA OpenKeeps ==
  ASSUME MemIInv, NEW o \in Objects, NEW n \in Names, NEW k \in Kinds \ {"none"},
         file_map[n] # NoState, MakeObject(o, k, file_map[n]), Ref(file_map[n]),
         UNCHANGED <<file_map, live>>
  PROVE  MemIInv'
<1>1. PICK f \in States : f = file_map[n]
  BY DEF MemIInv, MemTypeOK
<1>2. MakeObject(o, k, f) /\ Named(f)
  BY <1>1 DEF Named
<1>3. refs' = [refs EXCEPT ![f] = @ + 1]
  BY <1>1 DEF Ref
<1>4. \A g \in States : Named(g)' <=> Named(g)
  BY DEF Named
<1>5. MemTypeOK' /\ ObjectsConsistent'
  BY <1>2, <1>3, MakeKeepsObjects DEF MemIInv, MemTypeOK
<1>6. OneNamePerState'
  BY DEF MemIInv, OneNamePerState
<1>7. CountsExact'
  <2> SUFFICES ASSUME NEW g \in States
               PROVE  refs'[g] = NameCount(g)' + Cardinality(HoldersOf(g)')
    BY DEF CountsExact
  <2>1. NameCount(g)' = NameCount(g) /\ NameCount(g) \in Nat
    BY <1>4 DEF NameCount
  <2>2. refs'[g] = refs[g] + (IF g = f THEN 1 ELSE 0)
    BY <1>3 DEF MemIInv, MemTypeOK
  <2>3. Cardinality(HoldersOf(g)') = Cardinality(HoldersOf(g)) + (IF g = f THEN 1 ELSE 0)
    BY <1>2, MakeAddsHolder
  <2> QED BY <2>1, <2>2, <2>3, HoldersFinite DEF MemIInv, CountsExact
<1>8. FreedExactly'
  <2> SUFFICES ASSUME NEW g \in States
               PROVE  /\ g \in live' <=> Named(g)' \/ HoldersOf(g)' # {} \/ Deleting(g)' # {}
                      /\ Deleting(g)' # {} => ~Named(g)' /\ HoldersOf(g)' = {}
                      /\ \A p, q \in Deleting(g)' : p = q
    BY DEF FreedExactly
  <2> QED BY <1>2, <1>4, MakeAddsHolder DEF MemIInv, FreedExactly
<1> QED BY <1>5, <1>6, <1>7, <1>8 DEF MemIInv

\* A new FileState, referenced by its name and by the object.
LEMMA CreateKeeps ==
  ASSUME MemIInv, NEW o \in Objects, NEW n \in Names, NEW f \in States, CreateFile(o, n, f)
  PROVE  MemIInv'
<1> USE MemEnvAssumption
<1>1. MakeObject(o, "writable", f) /\ "writable" \in Kinds \ {"none"}
  BY DEF CreateFile, Kinds
<1>2. ~Named(f) /\ HoldersOf(f) = {} /\ Deleting(f) = {}
  BY DEF CreateFile, MemIInv, FreedExactly
<1>3. \A g \in States : Named(g)' <=> g = f \/ Named(g)
  <2> TAKE g \in States
  <2>1. \A m \in Names : file_map'[m] = IF m = n THEN f ELSE file_map[m]
    BY DEF CreateFile, MemIInv, MemTypeOK
  <2>2. file_map[n] = NoState
    BY DEF CreateFile
  <2> QED BY <2>1, <2>2 DEF Named
<1>4. MemTypeOK' /\ ObjectsConsistent'
  BY <1>1, MakeKeepsObjects DEF CreateFile, MemIInv, MemTypeOK
<1>5. OneNamePerState'
  <2>1. \A m \in Names : file_map'[m] = IF m = n THEN f ELSE file_map[m]
    BY DEF CreateFile, MemIInv, MemTypeOK
  <2>2. \A m \in Names : file_map[m] # f
    BY <1>2 DEF Named
  <2> QED BY <2>1, <2>2 DEF MemIInv, OneNamePerState
<1>6. CountsExact'
  <2> SUFFICES ASSUME NEW g \in States
               PROVE  refs'[g] = NameCount(g)' + Cardinality(HoldersOf(g)')
    BY DEF CountsExact
  <2>1. Cardinality(HoldersOf(g)') = Cardinality(HoldersOf(g)) + (IF g = f THEN 1 ELSE 0)
    BY <1>1, MakeAddsHolder
  <2>2. CASE g = f
    <3>1. refs'[g] = 2 /\ NameCount(g)' = 1
      BY <1>3, <2>2 DEF CreateFile, MemIInv, MemTypeOK, NameCount
    <3> QED BY <1>2, <2>1, <2>2, <3>1, HoldersFinite
  <2>3. CASE g # f
    <3>1. refs'[g] = refs[g] /\ NameCount(g)' = NameCount(g)
      BY <1>3, <2>3 DEF CreateFile, MemIInv, MemTypeOK, NameCount
    <3> QED BY <2>1, <2>3, <3>1, HoldersFinite DEF MemIInv, CountsExact
  <2> QED BY <2>2, <2>3
<1>7. FreedExactly'
  <2> SUFFICES ASSUME NEW g \in States
               PROVE  /\ g \in live' <=> Named(g)' \/ HoldersOf(g)' # {} \/ Deleting(g)' # {}
                      /\ Deleting(g)' # {} => ~Named(g)' /\ HoldersOf(g)' = {}
                      /\ \A p, q \in Deleting(g)' : p = q
    BY DEF FreedExactly
  <2>1. live' = live \union {f}
    BY DEF CreateFile
  <2> QED BY <1>1, <1>2, <1>3, <2>1, MakeAddsHolder DEF MemIInv, FreedExactly
<1> QED BY <1>4, <1>5, <1>6, <1>7 DEF MemIInv

\* The Env gives up its references to the FileStates in F, which lose their
\* names, and no others.
LEMMA UnrefKeeps ==
  ASSUME MemIInv, NEW F \in SUBSET States, \A f \in F : Named(f), EnvUnref(F),
         UNCHANGED <<kind, file, pc>>,
         \A g \in States : Named(g)' <=> Named(g) /\ g \notin F,
         file_map' \in [Names -> States \union {NoState}], OneNamePerState'
  PROVE  MemIInv'
<1>1. \A g \in States : HoldersOf(g)' = HoldersOf(g) /\ Deleting(g)' = Deleting(g)
  BY DEF HoldersOf, Deleting
<1>2. \A g \in States : refs'[g] = IF g \in F THEN refs[g] - 1 ELSE refs[g]
  BY DEF EnvUnref
<1>3. MemTypeOK' /\ ObjectsConsistent'
  BY DEF EnvUnref, MemIInv, MemTypeOK, ObjectsConsistent
<1>4. CountsExact'
  <2> SUFFICES ASSUME NEW g \in States
               PROVE  refs'[g] = NameCount(g)' + Cardinality(HoldersOf(g)')
    BY DEF CountsExact
  <2>1. NameCount(g)' = IF g \in F THEN NameCount(g) - 1 ELSE NameCount(g)
    BY DEF NameCount
  <2>2. NameCount(g) \in Nat
    BY DEF NameCount
  <2> QED BY <1>1, <1>2, <2>1, <2>2, HoldersFinite DEF MemIInv, CountsExact
<1>5. FreedExactly'
  <2> SUFFICES ASSUME NEW g \in States
               PROVE  /\ g \in live' <=> Named(g)' \/ HoldersOf(g)' # {} \/ Deleting(g)' # {}
                      /\ Deleting(g)' # {} => ~Named(g)' /\ HoldersOf(g)' = {}
                      /\ \A p, q \in Deleting(g)' : p = q
    BY DEF FreedExactly
  <2>1. g \in F => (refs[g] <= 1 <=> HoldersOf(g) = {})
    BY HoldersFinite DEF MemIInv, CountsExact, NameCount
  <2>2. g \in live' <=> g \in live /\ ~(g \in F /\ refs[g] <= 1)
    BY DEF EnvUnref
  <2> QED BY <1>1, <2>1, <2>2 DEF MemIInv, FreedExactly
<1> QED BY <1>3, <1>4, <1>5 DEF MemIInv

\* RemoveFile takes one name away.
LEMMA RemoveKeeps ==
  ASSUME MemIInv, NEW n \in Names, RemoveFile(n)
  PROVE  MemIInv'
<1>1. PICK f \in States : f = file_map[n]
  BY DEF RemoveFile, MemIInv, MemTypeOK
<1>2. \A m \in Names : file_map'[m] = IF m = n THEN NoState ELSE file_map[m]
  BY DEF RemoveFile, MemIInv, MemTypeOK
<1>3. \A g \in States : Named(g)' <=> Named(g) /\ g \notin {f}
  BY <1>1, <1>2, MemEnvAssumption DEF Named, MemIInv, OneNamePerState
<1>4. file_map' \in [Names -> States \union {NoState}] /\ OneNamePerState'
  BY <1>2 DEF RemoveFile, MemIInv, MemTypeOK, OneNamePerState
<1>5. EnvUnref({f}) /\ UNCHANGED <<kind, file, pc>> /\ Named(f)
  BY <1>1 DEF RemoveFile, Named
<1> QED BY <1>3, <1>4, <1>5, UnrefKeeps

\* RenameFile moves one name and drops the file that had the other, also when
\* both are the same.
LEMMA RenameKeeps ==
  ASSUME MemIInv, NEW src \in Names, NEW target \in Names, RenameFile(src, target)
  PROVE  MemIInv'
<1> DEFINE F == {file_map[target]} \ {NoState}
<1>1. \A m \in Names : file_map'[m] = IF m = src THEN NoState
                                      ELSE IF m = target THEN file_map[src]
                                      ELSE file_map[m]
  BY DEF RenameFile, Renamed
<1>2. F \in SUBSET States /\ \A f \in F : Named(f)
  BY DEF MemIInv, MemTypeOK, Named
<1>3. file_map' \in [Names -> States \union {NoState}] /\ OneNamePerState'
  BY <1>1 DEF RenameFile, Renamed, MemIInv, MemTypeOK, OneNamePerState
<1>4. ASSUME NEW g \in States PROVE Named(g)' <=> Named(g) /\ g \notin F
  <2>1. ASSUME NEW m \in Names, file_map'[m] = g
        PROVE  Named(g) /\ g \notin F
    <3>1. m # src /\ (m = target => g = file_map[src]) /\ (m # target => g = file_map[m])
      BY <1>1, <2>1, MemEnvAssumption
    <3> QED BY <3>1, MemEnvAssumption DEF Named, MemIInv, OneNamePerState
  <2>2. ASSUME NEW m \in Names, file_map[m] = g, g \notin F
        PROVE  Named(g)'
    <3>1. m # target /\ g # NoState
      BY <2>2, MemEnvAssumption
    <3>2. CASE m = src
      BY <1>1, <2>2, <3>1, <3>2 DEF Named
    <3>3. CASE m # src
      BY <1>1, <2>2, <3>1, <3>3 DEF Named
    <3> QED BY <3>2, <3>3
  <2> QED BY <2>1, <2>2 DEF Named
<1>5. EnvUnref(F) /\ UNCHANGED <<kind, file, pc>>
  BY DEF RenameFile
<1> HIDE DEF F
<1> QED BY <1>2, <1>3, <1>4, <1>5, UnrefKeeps

\* ~InMemoryEnv takes all names away.
LEMMA DestroyKeeps ==
  ASSUME MemIInv, DestroyEnv
  PROVE  MemIInv'
<1> DEFINE F == {file_map[n] : n \in Names} \ {NoState}
<1>1. F \in SUBSET States /\ \A f \in F : Named(f)
  BY DEF MemIInv, MemTypeOK, Named
<1>2. \A m \in Names : file_map'[m] = NoState
  BY DEF DestroyEnv
<1>3. \A g \in States : ~Named(g)' /\ (Named(g) => g \in F)
  BY <1>2, MemEnvAssumption DEF Named
<1>4. file_map' \in [Names -> States \union {NoState}] /\ OneNamePerState'
  BY <1>2 DEF DestroyEnv, OneNamePerState
<1>5. EnvUnref(F) /\ UNCHANGED <<kind, file, pc>>
  BY DEF DestroyEnv
<1> HIDE DEF F
<1> QED BY <1>1, <1>3, <1>4, <1>5, UnrefKeeps

-----------------------------------------------------------------------------
\* Reads, writes and skips move no pointer and count nothing.
LEMMA UseKeeps ==
  ASSUME MemIInv, NEW o \in Objects, NEW to \in {"idle", "skip"},
         pc[o] # "delete", kind[o] # "none",
         pc' = [pc EXCEPT ![o] = to], UNCHANGED <<file_map, live, refs, kind, file>>
  PROVE  MemIInv'
<1>1. \A g \in States : /\ HoldersOf(g)' = HoldersOf(g) /\ Deleting(g)' = Deleting(g)
                        /\ Named(g)' = Named(g) /\ NameCount(g)' = NameCount(g)
  BY DEF HoldersOf, Deleting, Named, NameCount, MemIInv, MemTypeOK
<1>2. MemTypeOK' /\ ObjectsConsistent' /\ OneNamePerState'
  BY DEF MemIInv, MemTypeOK, ObjectsConsistent, OneNamePerState
<1>3. CountsExact'
  BY <1>1 DEF MemIInv, CountsExact
<1>4. FreedExactly'
  BY <1>1 DEF MemIInv, FreedExactly
<1> QED BY <1>2, <1>3, <1>4 DEF MemIInv

\* The first half of an object's Unref: the last reference leaves the object as
\* the one that deletes the FileState.
LEMMA CloseKeeps ==
  ASSUME MemIInv, NEW o \in Objects, CloseObject(o)
  PROVE  MemIInv'
<1>1. PICK f \in States : f = file[o]
  BY DEF CloseObject, MemIInv, ObjectsConsistent
<1>2. o \in HoldersOf(f) /\ Deleting(f) = {} /\ f \in live
  BY <1>1 DEF CloseObject, HoldersOf, MemIInv, FreedExactly
<1>3. \A g \in States : HoldersOf(g)' = IF g = f THEN HoldersOf(g) \ {o} ELSE HoldersOf(g)
  BY <1>1, MemEnvAssumption DEF CloseObject, HoldersOf, MemIInv, MemTypeOK
<1>4. Cardinality(HoldersOf(f)') = Cardinality(HoldersOf(f)) - 1
  <2>1. Cardinality(HoldersOf(f) \ {o}) = Cardinality(HoldersOf(f)) - 1
    BY <1>2, HoldersFinite, FS_RemoveElement
  <2> QED BY <1>3, <2>1
<1>5. \A g \in States : Named(g)' = Named(g) /\ NameCount(g)' = NameCount(g) /\ NameCount(g) \in Nat
  BY DEF CloseObject, Named, NameCount
<1>6. \A g \in States : refs'[g] = IF g = f THEN refs[g] - 1 ELSE refs[g]
  BY <1>1 DEF CloseObject, MemIInv, MemTypeOK
<1>7. MemTypeOK' /\ ObjectsConsistent' /\ OneNamePerState'
  BY <1>1, MemEnvAssumption
     DEF CloseObject, MemIInv, MemTypeOK, Kinds, ObjectsConsistent, OneNamePerState
<1>8. CountsExact'
  <2> SUFFICES ASSUME NEW g \in States
               PROVE  refs'[g] = NameCount(g)' + Cardinality(HoldersOf(g)')
    BY DEF CountsExact
  <2>1. CASE g = f
    BY <1>4, <1>5, <1>6, <2>1, HoldersFinite DEF MemIInv, CountsExact
  <2>2. CASE g # f
    BY <1>3, <1>5, <1>6, <2>2 DEF MemIInv, CountsExact
  <2> QED BY <2>1, <2>2
<1>9. FreedExactly'
  <2>1. live' = live
    BY DEF CloseObject
  <2>2. CASE refs[f] <= 1
    <3>1. ~Named(f)
      <4>1. Cardinality(HoldersOf(f)) >= 1
        BY <1>2, HoldersFinite
      <4> QED BY <2>2, <4>1, HoldersFinite DEF MemIInv, CountsExact, NameCount
    <3>2. HoldersOf(f)' = {}
      <4>1. refs[f] = NameCount(f) + Cardinality(HoldersOf(f)) /\ NameCount(f) \in Nat
        BY <1>5 DEF MemIInv, CountsExact
      <4>2. Cardinality(HoldersOf(f)) <= 1
        BY <2>2, <4>1, HoldersFinite
      <4>3. Cardinality(HoldersOf(f)') <= 0 /\ HoldersOf(f)' = HoldersOf(f) \ {o}
        BY <1>3, <1>4, <4>2, HoldersFinite
      <4>4. IsFiniteSet(HoldersOf(f) \ {o})
        BY HoldersFinite, FS_RemoveElement
      <4> QED BY <4>3, <4>4, FS_EmptySet, FS_CardinalityType
    <3>3. \A g \in States : Deleting(g)' = IF g = f THEN {o} ELSE Deleting(g)
      BY <1>1, <1>2, <2>2 DEF CloseObject, Deleting, MemIInv, MemTypeOK
    <3> QED BY <1>2, <1>3, <1>5, <2>1, <3>1, <3>2, <3>3 DEF MemIInv, FreedExactly
  <2>3. CASE ~(refs[f] <= 1)
    <3>1. \A g \in States : Deleting(g)' = Deleting(g)
      BY <1>1, <2>3, MemEnvAssumption DEF CloseObject, Deleting, MemIInv, MemTypeOK
    <3>2. Named(f) \/ HoldersOf(f)' # {}
      <4> SUFFICES ASSUME ~Named(f), HoldersOf(f) \ {o} = {} PROVE FALSE
        BY <1>3
      <4>1. Cardinality(HoldersOf(f)) - 1 = 0
        BY <1>3, <1>4, FS_EmptySet
      <4> QED BY <2>3, <4>1, HoldersFinite DEF MemIInv, CountsExact, NameCount
    <3> QED BY <1>2, <1>3, <1>5, <2>1, <3>1, <3>2 DEF MemIInv, FreedExactly
  <2> QED BY <2>2, <2>3
<1> QED BY <1>7, <1>8, <1>9 DEF MemIInv

\* The second half: the FileState is deleted.
LEMMA DeleteKeeps ==
  ASSUME MemIInv, NEW o \in Objects, DeleteState(o)
  PROVE  MemIInv'
<1>1. PICK f \in States : f = file[o]
  BY DEF DeleteState, MemIInv, ObjectsConsistent
<1>2. kind[o] = "none" /\ o \in Deleting(f)
  BY <1>1 DEF DeleteState, MemIInv, ObjectsConsistent, Deleting
<1>3. Deleting(f) = {o} /\ ~Named(f) /\ HoldersOf(f) = {}
  BY <1>2 DEF MemIInv, FreedExactly
<1>4. \A g \in States : Deleting(g)' = IF g = f THEN {} ELSE Deleting(g)
  BY <1>1, <1>3, MemEnvAssumption DEF DeleteState, Deleting, MemIInv, MemTypeOK
<1>5. \A g \in States : /\ HoldersOf(g)' = HoldersOf(g)
                        /\ Named(g)' = Named(g) /\ NameCount(g)' = NameCount(g)
  BY <1>2 DEF DeleteState, HoldersOf, Named, NameCount, MemIInv, MemTypeOK
<1>6. MemTypeOK' /\ ObjectsConsistent' /\ OneNamePerState'
  BY <1>2, MemEnvAssumption
     DEF DeleteState, MemIInv, MemTypeOK, ObjectsConsistent, OneNamePerState
<1>7. CountsExact'
  BY <1>5 DEF DeleteState, MemIInv, CountsExact
<1>8. FreedExactly'
  BY <1>1, <1>3, <1>4, <1>5 DEF DeleteState, MemIInv, FreedExactly
<1> QED BY <1>6, <1>7, <1>8 DEF MemIInv

LEMMA MemInductive == MemSpec => []MemIInv
<1>1. MemInit => MemIInv
  <2> SUFFICES ASSUME MemInit PROVE MemIInv
    OBVIOUS
  <2>1. MemTypeOK /\ ObjectsConsistent /\ OneNamePerState
    BY DEF MemInit, MemTypeOK, Kinds, ObjectsConsistent, OneNamePerState
  <2>2. \A f \in States : ~Named(f) /\ HoldersOf(f) = {} /\ Deleting(f) = {}
    BY MemEnvAssumption DEF MemInit, Named, HoldersOf, Deleting
  <2>3. CountsExact
    BY <2>2, FS_EmptySet DEF MemInit, CountsExact, NameCount
  <2>4. FreedExactly
    BY <2>2 DEF MemInit, FreedExactly
  <2> QED BY <2>1, <2>3, <2>4 DEF MemIInv
<1>2. MemIInv /\ [MemNext]_memVars => MemIInv'
  <2> SUFFICES ASSUME MemIInv, [MemNext]_memVars PROVE MemIInv'
    OBVIOUS
  <2>1. ASSUME NEW o \in Objects, NEW n \in Names,
               OpenForReading(o, n) \/ NewWritableFile(o, n) \/ NewAppendableFile(o, n)
        PROVE  MemIInv'
    <3>1. \/ \E f \in States : CreateFile(o, n, f)
          \/ \E k \in Kinds \ {"none"} :
               /\ file_map[n] # NoState /\ MakeObject(o, k, file_map[n])
               /\ Ref(file_map[n]) /\ UNCHANGED <<file_map, live>>
      BY <2>1 DEF OpenForReading, NewWritableFile, NewAppendableFile, Kinds
    <3> QED BY <3>1, OpenKeeps, CreateKeeps
  <2>2. ASSUME NEW o \in Objects,
               (\E n \in 1..MaxSize : AppendTo(o, n) \/ Read(o, n) \/ SkipBegin(o, n)) \/ SkipEnd(o)
        PROVE  MemIInv'
    <3>1. pc[o] # "delete" /\ kind[o] # "none" /\ UNCHANGED <<file_map, live, refs, kind, file>>
      BY <2>2 DEF AppendTo, Read, SkipBegin, SkipEnd, MemIInv, ObjectsConsistent
    <3>2. pc' = [pc EXCEPT ![o] = "idle"] \/ pc' = [pc EXCEPT ![o] = "skip"]
      BY <2>2 DEF AppendTo, Read, SkipBegin, SkipEnd, MemIInv, MemTypeOK
    <3> QED BY <3>1, <3>2, UseKeeps
  <2>3. CASE UNCHANGED memVars \/ Finished
    <3>1. UNCHANGED <<file_map, live, refs, kind, file, pc>>
      BY <2>3 DEF Finished, memVars
    <3>2. \A g \in States : /\ HoldersOf(g)' = HoldersOf(g) /\ Deleting(g)' = Deleting(g)
                            /\ Named(g)' = Named(g) /\ NameCount(g)' = NameCount(g)
      BY <3>1 DEF HoldersOf, Deleting, Named, NameCount
    <3>3. MemTypeOK' /\ ObjectsConsistent' /\ OneNamePerState'
      BY <3>1 DEF MemIInv, MemTypeOK, ObjectsConsistent, OneNamePerState
    <3> QED BY <3>1, <3>2, <3>3 DEF MemIInv, CountsExact, FreedExactly
  <2> QED BY <2>1, <2>2, <2>3, RemoveKeeps, RenameKeeps, DestroyKeeps, CloseKeeps, DeleteKeeps
             DEF MemNext
<1> QED BY <1>1, <1>2, PTL DEF MemSpec

-----------------------------------------------------------------------------
\* The number of referrers, as the properties count them.
LEMMA ReferrersCounted ==
  ASSUME MemIInv, NEW f \in States
  PROVE  /\ Referrers(f) = NameCount(f) + Cardinality(HoldersOf(f))
         /\ Referrers(f) \in Nat
         /\ Referrers(f) = 0 <=> ~Named(f) /\ HoldersOf(f) = {}
<1>1. Referrers(f) = Cardinality(NamesOf(f)) + Cardinality(HoldersOf(f))
  BY DEF Referrers, NamesOf, HoldersOf
<1>2. Cardinality(NamesOf(f)) = NameCount(f)
  BY NamesCounted DEF MemIInv
<1> QED BY <1>1, <1>2, HoldersFinite DEF NameCount

\* FileState::Ref and Unref: whatever the Env's methods and the destructors of
\* file objects do at the same time, refs_ is the number of names and objects
\* that point to the FileState.
THEOREM ReferencesCounted == MemSpec => []RefsCountReferrers
<1>1. MemIInv => RefsCountReferrers
  BY ReferrersCounted DEF RefsCountReferrers, MemIInv, CountsExact
<1> QED BY <1>1, MemInductive, PTL

\* FileState::Unref deletes a FileState exactly when nobody can reach it, and one
\* thread only does so.
THEOREM StatesFreedInTime == MemSpec => []FreedWhenUnreachable
<1>1. ASSUME MemIInv, NEW f \in States
      PROVE  /\ f \in live <=> Referrers(f) > 0 \/ Deleting(f) # {}
             /\ Cardinality(Deleting(f)) <= 1
             /\ Deleting(f) # {} => Referrers(f) = 0
  <2>1. f \in live <=> Referrers(f) > 0 \/ Deleting(f) # {}
    BY <1>1, ReferrersCounted DEF MemIInv, FreedExactly
  <2>2. Deleting(f) # {} => Referrers(f) = 0
    BY <1>1, ReferrersCounted DEF MemIInv, FreedExactly
  <2>3. ASSUME NEW o \in Deleting(f) PROVE Cardinality(Deleting(f)) = 1
    <3>1. Deleting(f) = {o}
      BY <1>1 DEF MemIInv, FreedExactly
    <3> QED BY <3>1, FS_Singleton
  <2>4. Cardinality(Deleting(f)) <= 1
    <3>1. CASE Deleting(f) = {}
      BY <3>1, FS_EmptySet
    <3>2. CASE Deleting(f) # {}
      BY <2>3, <3>2
    <3> QED BY <3>1, <3>2
  <2> QED BY <2>1, <2>2, <2>4
<1>2. MemIInv => FreedWhenUnreachable
  BY <1>1 DEF FreedWhenUnreachable, Deleting
<1> QED BY <1>2, MemInductive, PTL

-----------------------------------------------------------------------------
(***************************************************************************)
(* Proofs about the formats: the separator of two keys lies between them,  *)
(* a lookup at a snapshot stops at the version it must see, a filter has   *)
(* no false negatives and a log line is written whole, for every width,    *)
(* alphabet, set of keys and buffer size.                                  *)
(***************************************************************************)

\* The least of two natural numbers, as std::min gives it.
LEMMA MinOfTwo ==
  ASSUME NEW a \in Nat, NEW b \in Nat
  PROVE  /\ Min({a, b}) \in Nat
         /\ Min({a, b}) <= a /\ Min({a, b}) <= b
         /\ Min({a, b}) = a \/ Min({a, b}) = b
<1>1. \E x \in {a, b} : \A y \in {a, b} : x <= y
  OBVIOUS
<1>2. Min({a, b}) \in {a, b} /\ \A y \in {a, b} : Min({a, b}) <= y
  BY <1>1 DEF Min
<1> QED BY <1>2

\* The first field of an input says of which kind it is.
LEMMA InputKind ==
  ASSUME Init
  PROVE  /\ input.of = "keys" => input \in PairsOfKeys
         /\ input.of = "lookup" => input \in Lookups
         /\ input.of = "filter" => input \in Filters
         /\ input.of = "line" => input \in Lines
<1>1. input \in NumbersAndBytes => input.of = "bytes"
  BY DEF NumbersAndBytes
<1>2. input \in PairsOfKeys => input.of = "keys"
  BY DEF PairsOfKeys
<1>3. input \in Lookups => input.of = "lookup"
  BY DEF Lookups
<1>4. input \in Filters => input.of = "filter"
  BY DEF Filters
<1>5. input \in Lines => input.of = "line"
  BY DEF Lines
<1> QED BY <1>1, <1>2, <1>3, <1>4, <1>5 DEF Init

-----------------------------------------------------------------------------
\* PosixLogger::Logv prints the whole line into the buffer it ends up with.
LEMMA LogvIsWhole ==
  ASSUME NEW header \in Nat, NEW message \in Nat, NEW endsLine \in BOOLEAN
  PROVE  LET line == Logv(header, message, endsLine)
         IN /\ ~line.cut
            /\ line.stored = header + message /\ line.written <= line.buffer
            /\ line.written = header + message + (IF endsLine THEN 0 ELSE 1)
<1> DEFINE length == header + message
           space == IF Fits(length, StackBuffer) THEN StackBuffer ELSE length + 2
           offset == IF Fits(length, space) THEN length ELSE space - 1
           cut == offset # length
           newline == endsLine /\ offset = length
           written == IF newline THEN offset ELSE offset + 1
<1>1. length \in Nat /\ space \in Nat /\ length < space - 1 /\ space - 1 \in Nat
  BY LoggerAssumption DEF Fits
<1>2. offset = length
  BY <1>1 DEF Fits
<1>3. cut = FALSE
  BY <1>2
<1>4. Min({length, space - 1}) = length
  BY <1>1, MinOfTwo
<1>5. written = IF endsLine THEN length ELSE length + 1
  BY <1>2
<1>6. Logv(header, message, endsLine)
        = [buffer |-> space, stored |-> Min({length, space - 1}), cut |-> cut, written |-> written]
  BY Zenon DEF Logv
<1>7. length = header + message
  OBVIOUS
<1> HIDE DEF length, space, offset, newline, written, cut
<1>8. Logv(header, message, endsLine).cut = FALSE
  BY <1>3, <1>6
<1>9. /\ Logv(header, message, endsLine).stored = length
      /\ Logv(header, message, endsLine).buffer = space
      /\ Logv(header, message, endsLine).written = written
  BY <1>4, <1>6
<1> QED BY <1>1, <1>5, <1>7, <1>8, <1>9

\* A line is written whole for every size of the buffer on the stack, and every
\* length of header and message.
THEOREM LinesAreWhole == Spec => []LineIsWhole
<1>1. Init => LineIsWhole
  <2> SUFFICES ASSUME Init, input.of = "line"
               PROVE  LineIsWhole
    BY DEF LineIsWhole
  <2>1. input.header \in Nat /\ input.message \in Nat /\ input.endsLine \in BOOLEAN
    BY InputKind, LoggerAssumption, FormatsAssumption DEF Lines
  <2> DEFINE endsLine == input.endsLine /\ input.message > 0
  <2>2. endsLine \in BOOLEAN
    OBVIOUS
  <2> HIDE DEF endsLine
  <2>3. LET line == Logv(input.header, input.message, endsLine)
        IN /\ ~line.cut
           /\ line.stored = input.header + input.message /\ line.written <= line.buffer
           /\ line.written = input.header + input.message + (IF endsLine THEN 0 ELSE 1)
    BY <2>1, <2>2, LogvIsWhole
  <2> QED BY <2>3, Zenon DEF LineIsWhole, endsLine
<1>2. LineIsWhole /\ [UNCHANGED input]_input => LineIsWhole'
  BY Zenon DEF LineIsWhole
<1> QED BY <1>1, <1>2, PTL DEF Spec

-----------------------------------------------------------------------------
\* A hash whose key was in the list finds its bits set, by whatever policy.
LEMMA FilterMatches ==
  ASSUME NEW hs, NEW i \in DOMAIN hs, NEW writer, NEW reader
  PROVE  KeyMayMatch(hs[i], CreateFilter(hs, writer), reader)
<1> DEFINE want == Len(hs) * writer
           bytes == ((IF want < MinBits THEN MinBits ELSE want) + ByteBits - 1) \div ByteBits
           k == NumProbes(writer)
           ones == UNION {Probes(h, k, bytes * ByteBits) : h \in ToSet(hs)}
<1>1. CreateFilter(hs, writer) = [bytes |-> bytes, k |-> k, ones |-> ones]
  BY Zenon DEF CreateFilter
<1>2. hs[i] \in ToSet(hs)
  BY DEF ToSet
<1>3. Probes(hs[i], k, bytes * ByteBits) \subseteq ones
  BY <1>2, Zenon
<1> HIDE DEF bytes, k, ones
<1>4. CreateFilter(hs, writer).k = k /\ CreateFilter(hs, writer).bytes = bytes /\ CreateFilter(hs, writer).ones = ones
  BY <1>1
<1> QED BY <1>3, <1>4, Zenon DEF KeyMayMatch

\* A filter has no false negatives, for every hash function, list of keys,
\* number of probes and pair of policies.
THEOREM FiltersKeepTheirKeys == Spec => []NoFalseNegatives
<1>1. Init => NoFalseNegatives
  <2> SUFFICES ASSUME Init, input.of = "filter",
                      NEW k \in ToSet(input.keys), NEW q \in 0..MaxSeq
               PROVE  InternalKeyMayMatch(LookupKey(k.user, q), input.hash,
                        InternalCreateFilter(input.keys, input.hash, input.writer), input.reader)
    BY Zenon DEF NoFalseNegatives
  <2> DEFINE hs == [i \in 1..Len(input.keys) |-> input.hash[input.keys[i].user]]
  <2>1. input.keys \in BoundedSeq(TableKeys, MaxKeys)
    BY InputKind DEF Filters
  <2>2. input.keys \in Seq(TableKeys)
    BY <2>1, FormatsAssumption DEF BoundedSeq, SeqOf
  <2>3. PICK i \in 1..Len(input.keys) : k = input.keys[i]
    BY <2>2 DEF ToSet
  <2>4. i \in DOMAIN hs /\ hs[i] = input.hash[k.user]
    BY <2>3
  <2>5. LookupKey(k.user, q).user = k.user
    BY DEF LookupKey, MakeInternalKey
  <2>6. KeyMayMatch(hs[i], CreateFilter(hs, input.writer), input.reader)
    <3> HIDE DEF hs
    <3> QED BY <2>4, FilterMatches
  <2> QED BY <2>4, <2>5, <2>6, Zenon DEF InternalKeyMayMatch, InternalCreateFilter
<1>2. NoFalseNegatives /\ [UNCHANGED input]_input => NoFalseNegatives'
  BY Zenon DEF NoFalseNegatives
<1> QED BY <1>1, <1>2, PTL DEF Spec

-----------------------------------------------------------------------------
\* Slice::compare orders no key before itself.
LEMMA LessIrreflexive ==
  ASSUME NEW a \in Seq(Nat)
  PROVE  ~Less(a, a)
<1>1. Min({Len(a), Len(a)}) = Len(a)
  BY MinOfTwo
<1>2. \A i \in 1..Len(a) : a[i] \in Nat
  OBVIOUS
<1> QED BY <1>1, <1>2 DEF Less, IsStrictPrefix

\* A user key is a sequence of bytes.
LEMMA UserKeysAreBytes ==
  ASSUME NEW k \in UserKeys
  PROVE  /\ k \in Seq(Nat) /\ k \in Seq(0..MaxByte)
         /\ Len(k) <= MaxKeyLen
<1>1. PICK m \in 0..MaxKeyLen : k \in [1..m -> 0..MaxByte]
  BY DEF UserKeys, BoundedSeq, SeqOf
<1>2. m \in Nat /\ m <= MaxKeyLen
  BY FormatAssumption
<1>3. k \in Seq(0..MaxByte) /\ Len(k) = m
  <2> DEFINE Bytes == 0..MaxByte
  <2>1. k \in Seq(Bytes)
    <3>1. k \in [1..m -> Bytes]
      BY <1>1
    <3> HIDE DEF Bytes
    <3> QED BY <3>1, <1>2
  <2>2. DOMAIN k = 1..Len(k) /\ Len(k) \in Nat
    <3> HIDE DEF Bytes
    <3> QED BY <2>1
  <2> QED BY <1>1, <1>2, <2>1, <2>2
<1>4. k \in [1..m -> Nat]
  BY <1>1, FormatAssumption
<1>5. k \in Seq(Nat)
  BY <1>4, <1>2
<1> QED BY <1>2, <1>3, <1>5

\* DiffIndex: the loop over the common bytes stops at the first difference.
LEMMA DiffIndexFacts ==
  ASSUME NEW a \in Seq(Nat), NEW b \in Seq(Nat)
  PROVE  /\ DiffIndex(a, b) \in Nat \ {0}
         /\ \A j \in 1..(DiffIndex(a, b) - 1) : j <= Len(a) /\ j <= Len(b) /\ a[j] = b[j]
<1> DEFINE n == Min({Len(a), Len(b)})
           S == {i \in 1..n : a[i] # b[i]} \union {n + 1}
<1>1. n \in Nat /\ n <= Len(a) /\ n <= Len(b)
  <2>1. Len(a) \in Nat /\ Len(b) \in Nat
    OBVIOUS
  <2> QED BY <2>1, MinOfTwo
<1>2. DiffIndex(a, b) = Min(S)
  BY Zenon DEF DiffIndex
<1> HIDE DEF n
<1>3. S \subseteq Nat /\ n + 1 \in S
  BY <1>1
<1>4. Min(S) \in S /\ \A y \in S : Min(S) <= y
  <2> HIDE DEF S
  <2> QED BY <1>3, LeastOfNats
<1>5. ASSUME NEW j \in 1..(Min(S) - 1)
      PROVE  j <= Len(a) /\ j <= Len(b) /\ a[j] = b[j]
  <2>1. Min(S) \in Nat /\ Min(S) <= n + 1
    BY <1>3, <1>4
  <2>2. j \in 1..n /\ j < Min(S)
    BY <2>1, <1>1
  <2>3. j \notin S
    <3> HIDE DEF S
    <3> QED BY <1>4, <2>1, <2>2
  <2>4. a[j] = b[j]
    BY <2>2, <2>3
  <2> QED BY <1>1, <2>2, <2>4
<1>6. Min(S) \in Nat \ {0}
  BY <1>1, <1>4
<1> QED BY <1>2, <1>5, <1>6

\* BytewiseComparatorImpl::FindShortestSeparator: a separator that is not start
\* itself lies before limit.
LEMMA SeparatorBeforeLimit ==
  ASSUME NEW start \in Seq(Nat), NEW end \in Seq(Nat),
         UserSeparator(start, end) # start
  PROVE  Less(UserSeparator(start, end), end)
<1> DEFINE i == DiffIndex(start, end)
           sep == Append(SubSeq(start, 1, i - 1), start[i] + 1)
           n == Min({Len(start), Len(end)})
<1>1. /\ i \in Nat \ {0}
      /\ \A j \in 1..(i - 1) : j <= Len(start) /\ j <= Len(end) /\ start[j] = end[j]
  BY DiffIndexFacts
<1>2. i <= n /\ start[i] + 1 < end[i] /\ UserSeparator(start, end) = sep
  BY Zenon DEF UserSeparator
<1>3. n \in Nat /\ n <= Len(start) /\ n <= Len(end)
  <2>1. Len(start) \in Nat /\ Len(end) \in Nat
    OBVIOUS
  <2> QED BY <2>1, MinOfTwo
<1> HIDE DEF i, n
<1>4. i \in 1..Len(start) /\ i \in 1..Len(end) /\ start[i] \in Nat
  BY <1>1, <1>2, <1>3
<1>5. SubSeq(start, 1, i - 1) \in Seq(Nat) /\ Len(SubSeq(start, 1, i - 1)) = i - 1
  BY <1>4
<1>6. \A j \in 1..(i - 1) : SubSeq(start, 1, i - 1)[j] = start[j]
  BY <1>4
<1>7. /\ Len(sep) = i /\ sep[i] = start[i] + 1
      /\ \A j \in 1..(i - 1) : sep[j] = start[j]
  BY <1>4, <1>5, <1>6
<1>8. i \in 1..Min({Len(sep), Len(end)})
  <2>1. Len(end) \in Nat /\ i <= Len(end)
    BY <1>4
  <2>2. Min({i, Len(end)}) = i
    BY <1>1, <2>1, MinOfTwo
  <2>3. Min({Len(sep), Len(end)}) = i
    BY <1>7, <2>2, Zenon
  <2>4. i \in 1..i
    BY <1>1
  <2> QED BY <2>3, <2>4, Zenon
<1>9. sep[i] < end[i] /\ \A j \in 1..(i - 1) : sep[j] = end[j]
  BY <1>1, <1>2, <1>7
<1> HIDE DEF sep
<1>10. Less(sep, end)
  BY <1>8, <1>9, Zenon DEF Less
<1> QED BY <1>2, <1>10

\* The separator of two internal keys lies between them, the successor of one
\* is not before it, and neither is longer, for every alphabet and length.
THEOREM SeparatorsSeparate == Spec => []SeparatorSeparates
<1>1. Init => SeparatorSeparates
  <2> SUFFICES ASSUME Init, input.of = "keys"
               PROVE  SeparatorSeparates
    BY DEF SeparatorSeparates
  <2>1. input.a \in InternalKeys /\ input.b \in InternalKeys
    BY InputKind DEF PairsOfKeys
  <2>2. PICK a \in InternalKeys : a = input.a
    BY <2>1
  <2>3. PICK b \in InternalKeys : b = input.b
    BY <2>1
  <2>4. a.user \in UserKeys /\ b.user \in UserKeys
    BY DEF InternalKeys
  <2>5. a.user \in Seq(Nat) /\ b.user \in Seq(Nat) /\ Len(a.user) \in Nat
    BY <2>4, UserKeysAreBytes
  <2>6. \A u : Earliest(u).user = u
    BY DEF Earliest, MakeInternalKey
  <2>7. ASSUME KeyLess(a, b)
        PROVE  LET s == FindShortestSeparator(a, b)
               IN /\ (s = a \/ KeyLess(a, s)) /\ KeyLess(s, b)
                  /\ Len(s.user) <= Len(a.user)
    <3> DEFINE tmp == UserSeparator(a.user, b.user)
    <3>1. CASE Len(tmp) < Len(a.user) /\ Less(a.user, tmp)
      <4>1. FindShortestSeparator(a, b) = Earliest(tmp)
        BY <3>1, Zenon DEF FindShortestSeparator
      <4>2. tmp # a.user
        BY <3>1, <2>5, LessIrreflexive
      <4>3. Less(tmp, b.user)
        BY <4>2, <2>5, SeparatorBeforeLimit
      <4> HIDE DEF tmp
      <4>4. KeyLess(a, Earliest(tmp)) /\ KeyLess(Earliest(tmp), b)
        BY <3>1, <4>3, <2>6, Zenon DEF KeyLess
      <4>5. Len(Earliest(tmp).user) < Len(a.user)
        BY <3>1, <2>6, Zenon
      <4>6. Len(Earliest(tmp).user) <= Len(a.user)
        BY <4>5
      <4> QED BY <4>1, <4>4, <4>6, Zenon
    <3>2. CASE ~(Len(tmp) < Len(a.user) /\ Less(a.user, tmp))
      <4>1. FindShortestSeparator(a, b) = a
        BY <3>2, Zenon DEF FindShortestSeparator
      <4>2. Len(a.user) <= Len(a.user)
        BY <2>5
      <4> QED BY <4>1, <4>2, <2>7, Zenon
    <3> QED BY <3>1, <3>2, Zenon
  <2>8. LET s == FindShortSuccessor(a)
        IN (s = a \/ KeyLess(a, s)) /\ Len(s.user) <= Len(a.user)
    <3> DEFINE tmp == UserSuccessor(a.user)
    <3>1. CASE Len(tmp) < Len(a.user) /\ Less(a.user, tmp)
      <4>1. FindShortSuccessor(a) = Earliest(tmp)
        BY <3>1, Zenon DEF FindShortSuccessor
      <4> HIDE DEF tmp
      <4>2. KeyLess(a, Earliest(tmp))
        BY <3>1, <2>6, Zenon DEF KeyLess
      <4>3. Len(Earliest(tmp).user) < Len(a.user)
        BY <3>1, <2>6, Zenon
      <4>4. Len(Earliest(tmp).user) <= Len(a.user)
        BY <4>3
      <4> QED BY <4>1, <4>2, <4>4, Zenon
    <3>2. CASE ~(Len(tmp) < Len(a.user) /\ Less(a.user, tmp))
      <4>1. FindShortSuccessor(a) = a
        BY <3>2, Zenon DEF FindShortSuccessor
      <4>2. Len(a.user) <= Len(a.user)
        BY <2>5
      <4> QED BY <4>1, <4>2, Zenon
    <3> QED BY <3>1, <3>2, Zenon
  <2> QED BY <2>2, <2>3, <2>7, <2>8, Zenon DEF SeparatorSeparates
<1>2. SeparatorSeparates /\ [UNCHANGED input]_input => SeparatorSeparates'
  BY Zenon DEF SeparatorSeparates
<1> QED BY <1>1, <1>2, PTL DEF Spec

-----------------------------------------------------------------------------
\* Division by a positive number leaves a remainder below it.
LEMMA Division ==
  ASSUME NEW n \in Nat, NEW b \in Nat \ {0}
  PROVE  /\ n \div b \in Nat /\ n % b \in Nat
         /\ n = b * (n \div b) + (n % b) /\ n % b < b
<1> DEFINE d == n \div b
           m == n % b
<1>1. n \in Int /\ m \in Int /\ d \in Int /\ 0 <= m /\ m < b /\ n = b * d + m
  OBVIOUS
<1> HIDE DEF d, m
<1>2. ASSUME d < 0 PROVE FALSE
  <2>1. d <= -1
    BY <1>1, <1>2
  <2>2. b * d <= b * (-1)
    BY <1>1, <2>1
  <2>3. b * (-1) = -b /\ b * d \in Int
    BY <1>1
  <2> QED BY <1>1, <2>2, <2>3
<1>3. d \in Nat /\ m \in Nat /\ n = b * d + m /\ m < b
  BY <1>1, <1>2
<1> QED BY <1>3, Zenon DEF d, m

\* There is only one way to write a number as a multiple and a remainder.
LEMMA DivisionUnique ==
  ASSUME NEW b \in Nat \ {0}, NEW q \in Nat, NEW r \in Nat, r < b,
         NEW p \in Nat, NEW t \in Nat, t < b, b * q + r = b * p + t
  PROVE  q = p /\ r = t
<1>1. ASSUME q < p PROVE FALSE
  <2>1. q + 1 <= p
    BY <1>1
  <2>2. b * (q + 1) <= b * p
    BY <2>1
  <2>3. b * (q + 1) = b * q + b
    OBVIOUS
  <2>4. b * q \in Nat /\ b * p \in Nat
    OBVIOUS
  <2> QED BY <2>2, <2>3, <2>4
<1>2. ASSUME p < q PROVE FALSE
  <2>1. p + 1 <= q
    BY <1>2
  <2>2. b * (p + 1) <= b * q
    BY <2>1
  <2>3. b * (p + 1) = b * p + b
    OBVIOUS
  <2>4. b * q \in Nat /\ b * p \in Nat
    OBVIOUS
  <2> QED BY <2>2, <2>3, <2>4
<1>3. q = p
  BY <1>1, <1>2
<1>4. b * q \in Nat /\ b * q + r = b * q + t
  BY <1>3
<1> QED BY <1>3, <1>4

\* PackSequenceAndType is undone by ParseInternalKey, for a type that fits.
LEMMA PackParses ==
  ASSUME NEW q \in Nat, NEW t \in {0, 1}
  PROVE  /\ Pack(q, t) \in Nat
         /\ Pack(q, t) \div TypeBase = q
         /\ Pack(q, t) % TypeBase = t
<1>1. TypeBase \in Nat \ {0} /\ TypeBase >= 2 /\ t \in Nat /\ t < TypeBase
  BY FormatAssumption
<1>2. Pack(q, t) \in Nat /\ Pack(q, t) = TypeBase * q + t
  BY <1>1 DEF Pack
<1>3. /\ Pack(q, t) \div TypeBase \in Nat /\ Pack(q, t) % TypeBase \in Nat
      /\ Pack(q, t) = TypeBase * (Pack(q, t) \div TypeBase) + (Pack(q, t) % TypeBase)
      /\ Pack(q, t) % TypeBase < TypeBase
  BY <1>1, <1>2, Division
<1> DEFINE d == Pack(q, t) \div TypeBase
           m == Pack(q, t) % TypeBase
<1> HIDE DEF d, m
<1>4. d \in Nat /\ m \in Nat /\ m < TypeBase /\ TypeBase * d + m = TypeBase * q + t
  <2>1. d \in Nat /\ m \in Nat /\ Pack(q, t) = TypeBase * d + m /\ m < TypeBase
    BY <1>3, Zenon DEF d, m
  <2> QED BY <1>2, <2>1
<1>5. d = q /\ m = t
  BY <1>1, <1>4, DivisionUnique
<1> QED BY <1>2, <1>5 DEF d, m

\* A number is larger for a later sequence number, whatever the types.
LEMMA PackOrder ==
  ASSUME NEW p \in Nat, NEW q \in Nat, NEW t \in {0, 1}, NEW u \in {0, 1}
  PROVE  /\ p < q => Pack(p, t) < Pack(q, u)
         /\ Pack(p, t) <= Pack(q, 1) <=> p <= q
<1>1. ASSUME NEW x \in Nat, NEW y \in Nat, x < y PROVE x * TypeBase + TypeBase <= y * TypeBase
  <2>1. TypeBase \in Nat /\ x + 1 <= y
    BY <1>1, FormatAssumption
  <2>2. (x + 1) * TypeBase <= y * TypeBase
    BY <2>1
  <2> QED BY <2>1, <2>2
<1>2. TypeBase \in Nat /\ TypeBase >= 2 /\ p * TypeBase \in Nat /\ q * TypeBase \in Nat
  BY FormatAssumption
<1>3. p < q => Pack(p, t) < Pack(q, u)
  BY <1>1, <1>2 DEF Pack
<1>4. q < p => Pack(q, 1) < Pack(p, t)
  BY <1>1, <1>2 DEF Pack
<1>5. p < q => Pack(p, t) <= Pack(q, 1)
  BY <1>1, <1>2 DEF Pack
<1>6. Pack(p, t) <= Pack(p, 1)
  BY <1>2 DEF Pack
<1>7. Pack(p, t) \in Nat /\ Pack(q, 1) \in Nat
  BY <1>2 DEF Pack
<1> QED BY <1>3, <1>4, <1>5, <1>6, <1>7

\* An entry of a run is the deletion or the value of one version: it parses,
\* and no other entry of the run has its user key and sequence number.
LEMMA EntryOfRun ==
  ASSUME NEW V \in SUBSET Versions, NEW S \in SUBSET V, NEW e \in EntriesOf(V \ S, S)
  PROVE  \E q \in Nat, t \in {0, 1} :
           /\ e.num = Pack(q, t)
           /\ <<e.user, q>> \in IF t = 0 THEN V \ S ELSE S
<1>1. \A x \in V : x = <<x[1], x[2]>> /\ x[2] \in Nat
  BY FormatAssumption DEF Versions
<1>2. CASE e \in {MakeInternalKey(x[1], x[2], kTypeDeletion) : x \in V \ S}
  <2>1. PICK x \in V \ S : e = MakeInternalKey(x[1], x[2], kTypeDeletion)
    BY <1>2
  <2>2. e.user = x[1] /\ e.num = Pack(x[2], 0)
    BY <2>1 DEF MakeInternalKey, kTypeDeletion
  <2>3. x[2] \in Nat /\ <<e.user, x[2]>> \in V \ S
    BY <1>1, <2>2
  <2> QED BY <2>2, <2>3
<1>3. CASE e \in {MakeInternalKey(x[1], x[2], kTypeValue) : x \in S}
  <2>1. PICK x \in S : e = MakeInternalKey(x[1], x[2], kTypeValue)
    BY <1>3
  <2>2. e.user = x[1] /\ e.num = Pack(x[2], 1)
    BY <2>1 DEF MakeInternalKey, kTypeValue
  <2>3. x[2] \in Nat /\ <<e.user, x[2]>> \in S
    BY <1>1, <2>2
  <2> QED BY <2>2, <2>3
<1> QED BY <1>2, <1>3 DEF EntriesOf

\* A lookup sees the newest version at its snapshot, for every run of entries,
\* user key and snapshot.
THEOREM LookupsSeeSnapshots == Spec => []LookupSeesSnapshot
<1>1. Init => LookupSeesSnapshot
  <2> SUFFICES ASSUME Init, input.of = "lookup"
               PROVE  LookupSeesSnapshot
    BY DEF LookupSeesSnapshot
  <2>1. input.entries \in Runs /\ input.user \in Users /\ input.seq \in 0..MaxSeq
    BY InputKind, FormatAssumption DEF Lookups
  <2>2. PICK V \in SUBSET Versions : input.entries \in {EntriesOf(V \ S, S) : S \in SUBSET V}
    BY <2>1 DEF Runs
  <2>3. PICK S \in SUBSET V : input.entries = EntriesOf(V \ S, S)
    BY <2>2
  <2>4. PICK E : E = input.entries
    OBVIOUS
  <2>5. PICK user \in Users : user = input.user
    BY <2>1
  <2>6. PICK seq \in Nat : seq = input.seq
    BY <2>1, FormatAssumption
  <2> DEFINE K == LookupKey(user, seq)
             Seq0(e) == ParseInternalKey(e).seq
             Visible == {e \in E : e.user = user /\ ParseInternalKey(e).seq <= seq}
             found == {e \in SeekPoint(K, E) : e.user = user}
  <2>7. user \in Seq(Nat) /\ ~Less(user, user)
    BY UserKeysAreBytes, LessIrreflexive, FormatsAssumption
  <2>8. K.user = user /\ K.num = Pack(seq, 1)
    BY DEF LookupKey, MakeInternalKey, kValueTypeForSeek, kTypeValue
  <2>9. ASSUME NEW e \in E
        PROVE  \E q \in Nat, t \in {0, 1} :
                 /\ e.num = Pack(q, t) /\ <<e.user, q>> \in (IF t = 0 THEN V \ S ELSE S)
                 /\ Seq0(e) = q /\ ParseInternalKey(e).ok = TRUE
    <3>1. PICK q \in Nat, t \in {0, 1} :
                 /\ e.num = Pack(q, t) /\ <<e.user, q>> \in (IF t = 0 THEN V \ S ELSE S)
      BY <2>3, <2>4, EntryOfRun
    <3>2. Pack(q, t) \div TypeBase = q /\ Pack(q, t) % TypeBase = t
      BY PackParses
    <3> DEFINE ok == e.num % TypeBase <= kTypeValue
    <3>3. ParseInternalKey(e) = [ok |-> ok, user |-> e.user, seq |-> e.num \div TypeBase, type |-> e.num % TypeBase]
      BY Zenon DEF ParseInternalKey
    <3>4. ok = TRUE
      <4>1. t <= kTypeValue
        BY DEF kTypeValue
      <4> QED BY <3>1, <3>2, <4>1, Zenon
    <3> HIDE DEF ok
    <3>5. Seq0(e) = q /\ ParseInternalKey(e).ok = TRUE
      <4>1. e.num \div TypeBase = q
        BY <3>1, <3>2, Zenon
      <4> QED BY <3>3, <3>4, <4>1
    <3> QED BY <3>1, <3>5, Zenon
  <2> HIDE DEF K, Seq0
  <2>10. ASSUME NEW e \in E, e.user = user
         PROVE  Seq0(e) \in Nat /\ (KeyLess(e, K) <=> Seq0(e) > seq)
    <3>1. PICK q \in Nat, t \in {0, 1} : e.num = Pack(q, t) /\ Seq0(e) = q
      BY <2>9
    <3>2. Pack(q, t) \in Nat /\ Pack(seq, 1) \in Nat
      BY PackParses
    <3>3. Pack(q, t) <= Pack(seq, 1) <=> q <= seq
      BY PackOrder
    <3>4. KeyLess(e, K) <=> e.num > K.num
      BY <2>7, <2>8, <2>10, Zenon DEF KeyLess
    <3> QED BY <3>1, <3>2, <3>3, <3>4, <2>8
  <2>11. ASSUME NEW x \in E, NEW e \in E, x.user = user, e.user = user
         PROVE  KeyLess(x, e) <=> Seq0(x) > Seq0(e)
    <3>1. PICK q \in Nat, t \in {0, 1} :
            e.num = Pack(q, t) /\ <<e.user, q>> \in (IF t = 0 THEN V \ S ELSE S) /\ Seq0(e) = q
      BY <2>9
    <3>2. PICK p \in Nat, u \in {0, 1} :
            x.num = Pack(p, u) /\ <<x.user, p>> \in (IF u = 0 THEN V \ S ELSE S) /\ Seq0(x) = p
      BY <2>9
    <3>3. Pack(q, t) \in Nat /\ Pack(p, u) \in Nat
      BY PackParses
    <3>4. (p < q => Pack(p, u) < Pack(q, t)) /\ (q < p => Pack(q, t) < Pack(p, u))
      BY PackOrder
    <3>5. p = q => u = t
      BY <3>1, <3>2, <2>11
    <3>6. KeyLess(x, e) <=> x.num > e.num
      BY <2>7, <2>11, Zenon DEF KeyLess
    <3>7. p = q => x.num = e.num
      BY <3>1, <3>2, <3>5
    <3> QED BY <3>1, <3>2, <3>3, <3>4, <3>6, <3>7
  <2>12. found = {e \in Visible : \A x \in Visible : Seq0(x) <= Seq0(e)}
    <3>1. ASSUME NEW e \in found PROVE e \in Visible /\ \A x \in Visible : Seq0(x) <= Seq0(e)
      <4>1. e \in E /\ e.user = user /\ ~KeyLess(e, K) /\ \A x \in E : KeyLess(x, e) => KeyLess(x, K)
        BY DEF SeekPoint
      <4>2. Seq0(e) \in Nat /\ Seq0(e) <= seq
        BY <4>1, <2>10
      <4>3. e \in Visible
        BY <4>1, <4>2 DEF Seq0
      <4>4. ASSUME NEW x \in Visible PROVE Seq0(x) <= Seq0(e)
        <5>1. x \in E /\ x.user = user /\ Seq0(x) <= seq
          BY DEF Seq0
        <5>2. Seq0(x) \in Nat /\ ~KeyLess(x, K)
          BY <5>1, <2>10
        <5>3. ~KeyLess(x, e)
          BY <4>1, <5>1, <5>2
        <5> QED BY <2>11, <4>1, <4>2, <5>1, <5>2, <5>3
      <4> QED BY <4>3, <4>4
    <3>2. ASSUME NEW e \in Visible, \A x \in Visible : Seq0(x) <= Seq0(e) PROVE e \in found
      <4>1. e \in E /\ e.user = user /\ Seq0(e) <= seq
        BY DEF Seq0
      <4>2. Seq0(e) \in Nat /\ ~KeyLess(e, K)
        BY <4>1, <2>10
      <4>3. ASSUME NEW x \in E, KeyLess(x, e) PROVE KeyLess(x, K)
        <5>1. CASE x.user = user
          <6>1. Seq0(x) \in Nat /\ Seq0(x) > Seq0(e)
            BY <4>1, <4>3, <5>1, <2>10, <2>11
          <6>2. x \notin Visible
            BY <3>2, <4>2, <6>1
          <6>3. Seq0(x) > seq
            BY <5>1, <6>1, <6>2 DEF Seq0
          <6> QED BY <5>1, <6>3, <2>10
        <5>2. CASE x.user # user
          BY <4>1, <4>3, <5>2, <2>8, Zenon DEF KeyLess
        <5> QED BY <5>1, <5>2
      <4> QED BY <4>1, <4>2, <4>3, Zenon DEF SeekPoint
    <3> QED BY <3>1, <3>2
  <2>13. \A e \in found : ParseInternalKey(e).ok
    BY <2>9, Zenon DEF SeekPoint
  <2> QED BY <2>4, <2>5, <2>6, <2>12, <2>13, Zenon DEF LookupSeesSnapshot, K, Seq0
<1>2. LookupSeesSnapshot /\ [UNCHANGED input]_input => LookupSeesSnapshot'
  BY Zenon DEF LookupSeesSnapshot
<1> QED BY <1>1, <1>2, PTL DEF Spec

=============================================================================
