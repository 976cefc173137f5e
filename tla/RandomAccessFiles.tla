------------------------- MODULE RandomAccessFiles -------------------------
(***************************************************************************)
(* Read-only files of util/env_posix.cpp: PosixEnv::NewRandomAccessFile,   *)
(* the two Limiters it draws from, and the life of the file object it      *)
(* returns (PosixMmapReadableFile or PosixRandomAccessFile).               *)
(*                                                                         *)
(* Each file slot is a thread that opens a file, reads it and deletes it;  *)
(* the slots run concurrently.  fetch_sub and fetch_add on                 *)
(* acquires_allowed_ are one step each, system calls are one step each.    *)
(***************************************************************************)
EXTENDS Integers, FiniteSets

CONSTANTS Files,         \* file slots
          MaxMmaps,      \* g_mmap_limit
          RLimits,       \* outcomes of getrlimit: numbers and these two
          Infinity, Failed,
          Fallback,      \* the limit when getrlimit fails (50 in the code)
          IntMax         \* std::numeric_limits<int>::max()

ASSUME LimitsAssumption ==
  /\ MaxMmaps \in Nat /\ Fallback \in Nat /\ IntMax \in Nat
  /\ Infinity # Failed
  /\ RLimits \subseteq Nat \union {Infinity, Failed}
ASSUME FilesAssumption == IsFiniteSet(Files)

VARIABLES
  rlimit,        \* what getrlimit returns
  limit,         \* g_open_read_only_file_limit
  env,           \* Env::Default has constructed its PosixEnv
  aborted,       \* an assertion has failed and ended the process
  mmap_allowed,  \* mmap_limiter_.acquires_allowed_
  fd_allowed,    \* fd_limiter_.acquires_allowed_
  filePc,        \* per slot: where its thread is
  fd,            \* per slot: it has a file descriptor open
  mapped         \* per slot: it has a region mapped

process == <<rlimit, limit, env, aborted>>
filesVars == <<process, mmap_allowed, fd_allowed, filePc, fd, mapped>>

FilesInit ==
  /\ rlimit \in RLimits /\ limit = -1 /\ env = FALSE /\ aborted = FALSE
  /\ mmap_allowed = 0 /\ fd_allowed = 0
  /\ filePc = [f \in Files |-> "none"]
  /\ fd = [f \in Files |-> FALSE]
  /\ mapped = [f \in Files |-> FALSE]

\* Conversion of a number to int, which wraps and may come out negative.
ToInt(n) == ((n + IntMax + 1) % (2 * (IntMax + 1))) - IntMax - 1

MaxOpenFiles ==
  IF limit >= 0 THEN limit
  ELSE IF rlimit = Failed THEN Fallback
  ELSE IF rlimit = Infinity THEN IntMax
  ELSE ToInt(rlimit \div 5)

\* assert(max_acquires >= 0) in the constructor of Limiter: a build with NDEBUG
\* goes on with a negative number of permits.
LimiterAsserts(n) == aborted' \in IF n >= 0 THEN {FALSE} ELSE BOOLEAN

\* The first call of Env::Default: SingletonEnv constructs the PosixEnv, and
\* threads that call at the same time wait until it has.
Default ==
  /\ ~env /\ ~aborted
  /\ limit' = MaxOpenFiles
  /\ LimiterAsserts(limit') /\ env' = ~aborted'
  /\ mmap_allowed' = MaxMmaps /\ fd_allowed' = limit'
  /\ UNCHANGED <<rlimit, filePc, fd, mapped>>

Goto(f, from, to) == filePc[f] = from /\ filePc' = [filePc EXCEPT ![f] = to]
Opens(f) == fd' = [fd EXCEPT ![f] = TRUE]
Closes(f) == fd' = [fd EXCEPT ![f] = FALSE]

-----------------------------------------------------------------------------
\* NewRandomAccessFile: open(); when it fails the call just returns an error.
Open(f) ==
  /\ env
  /\ Goto(f, "none", "opened")
  /\ Opens(f)
  /\ UNCHANGED <<mmap_allowed, fd_allowed, mapped>>

GrantsAtZero(allowed) == allowed >= 0

\* old_acquires_allowed > 0
Grants(allowed) == allowed > 0

\* mmap_limiter_.Acquire(), first atomic operation.
MmapAcquire(f) ==
  /\ mmap_allowed' = mmap_allowed - 1
  /\ Goto(f, "opened", IF Grants(mmap_allowed) THEN "map" ELSE "mmap_back")
  /\ UNCHANGED <<fd_allowed, fd, mapped>>

\* Acquire() puts back what it took and returns false.
MmapRefused(f) ==
  /\ Goto(f, "mmap_back", "fd_acquire")
  /\ mmap_allowed' = mmap_allowed + 1
  /\ UNCHANGED <<fd_allowed, fd, mapped>>

\* PosixRandomAccessFile(filename, fd, &fd_limiter_): fd_limiter->Acquire()
FdAcquire(f) ==
  /\ fd_allowed' = fd_allowed - 1
  /\ Goto(f, "fd_acquire", IF Grants(fd_allowed) THEN "fd_file" ELSE "fd_back")
  /\ UNCHANGED <<mmap_allowed, fd, mapped>>

FdRefused(f) ==
  /\ Goto(f, "fd_back", "bare_close")
  /\ fd_allowed' = fd_allowed + 1
  /\ UNCHANGED <<mmap_allowed, fd, mapped>>

\* No permanent descriptor: the file is opened on every read.
BareClose(f) ==
  /\ Goto(f, "bare_close", "bare_file")
  /\ Closes(f)
  /\ UNCHANGED <<mmap_allowed, fd_allowed, mapped>>

\* GetFileSize and mmap succeed.
Map(f) ==
  /\ Goto(f, "map", "map_close")
  /\ mapped' = [mapped EXCEPT ![f] = TRUE]
  /\ UNCHANGED <<mmap_allowed, fd_allowed, fd>>

\* GetFileSize or mmap fails.
MapFails(f) ==
  /\ Goto(f, "map", "map_failed")
  /\ UNCHANGED <<mmap_allowed, fd_allowed, fd, mapped>>

\* close(fd); the mapping does not need the descriptor.
MapClose(f) ==
  /\ \/ Goto(f, "map_close", "mmap_file")
     \/ Goto(f, "map_failed", "map_undo")
  /\ Closes(f)
  /\ UNCHANGED <<mmap_allowed, fd_allowed, mapped>>

FailureKeepsPermit(f) ==
  /\ Goto(f, "map_undo", "none")
  /\ UNCHANGED <<mmap_allowed, fd_allowed, fd, mapped>>

\* if (!status.ok()) mmap_limiter_.Release()
MapUndo(f) ==
  /\ Goto(f, "map_undo", "none")
  /\ mmap_allowed' = mmap_allowed + 1
  /\ UNCHANGED <<fd_allowed, fd, mapped>>

-----------------------------------------------------------------------------
\* ~PosixMmapReadableFile: munmap, then Release.
Unmap(f) ==
  /\ Goto(f, "mmap_file", "mmap_release")
  /\ mapped' = [mapped EXCEPT ![f] = FALSE]
  /\ UNCHANGED <<mmap_allowed, fd_allowed, fd>>

MmapRelease(f) ==
  /\ Goto(f, "mmap_release", "none")
  /\ mmap_allowed' = mmap_allowed + 1
  /\ UNCHANGED <<fd_allowed, fd, mapped>>

\* ~PosixRandomAccessFile with a permanent descriptor: close, then Release.
CloseFd(f) ==
  /\ Goto(f, "fd_file", "fd_release")
  /\ Closes(f)
  /\ UNCHANGED <<mmap_allowed, fd_allowed, mapped>>

FdRelease(f) ==
  /\ Goto(f, "fd_release", "none")
  /\ fd_allowed' = fd_allowed + 1
  /\ UNCHANGED <<mmap_allowed, fd, mapped>>

\* PosixRandomAccessFile::Read without a permanent descriptor.  An open() that
\* fails, and a read through a permanent descriptor or a mapping, change nothing.
ReadOpen(f) ==
  /\ Goto(f, "bare_file", "bare_reading")
  /\ Opens(f)
  /\ UNCHANGED <<mmap_allowed, fd_allowed, mapped>>

ReadClose(f) ==
  /\ Goto(f, "bare_reading", "bare_file")
  /\ Closes(f)
  /\ UNCHANGED <<mmap_allowed, fd_allowed, mapped>>

\* ~PosixRandomAccessFile without a permanent descriptor.
DeleteBare(f) ==
  /\ Goto(f, "bare_file", "none")
  /\ UNCHANGED <<mmap_allowed, fd_allowed, fd, mapped>>

Step(f) ==
  \/ Open(f)
  \/ MmapAcquire(f)
  \/ MmapRefused(f)
  \/ FdAcquire(f)
  \/ FdRefused(f)
  \/ BareClose(f)
  \/ Map(f)
  \/ MapFails(f)
  \/ MapClose(f)
  \/ MapUndo(f)
  \/ Unmap(f)
  \/ MmapRelease(f)
  \/ CloseFd(f)
  \/ FdRelease(f)
  \/ ReadOpen(f)
  \/ ReadClose(f)
  \/ DeleteBare(f)

\* A process that has ended takes no more steps.
Aborted == aborted /\ UNCHANGED filesVars

FilesNext == Default \/ Aborted \/ \E f \in Files : Step(f) /\ UNCHANGED process

FilesSpec == FilesInit /\ [][FilesNext]_filesVars

-----------------------------------------------------------------------------
At(S) == {f \in Files : filePc[f] \in S}

\* Slots that hold a permit, and slots that took one only to put it back.
MmapHolders == At({"map", "map_close", "map_failed", "map_undo", "mmap_file", "mmap_release"})
MmapReturning == At({"mmap_back"})
FdHolders == At({"fd_file", "fd_release"})
FdReturning == At({"fd_back"})

\* No permit, descriptor or mapping is lost or made up, on any path through
\* NewRandomAccessFile and the destructors, error paths included: a slot without
\* a file has none, a file without a permit holds a descriptor only during a
\* read, and an mmap file holds no descriptor.  A slot that hands a permit back is
\* counted until it has, so the assertions of Acquire and Release hold.
PermitsConserved ==
  /\ env => /\ mmap_allowed = MaxMmaps - Cardinality(MmapHolders) - Cardinality(MmapReturning)
            /\ fd_allowed = limit - Cardinality(FdHolders) - Cardinality(FdReturning)
  /\ \A f \in Files :
       /\ filePc[f] \in {"none", "bare_file", "mmap_file"} => ~fd[f]
       /\ filePc[f] \notin {"map_close", "mmap_file"} => ~mapped[f]

\* "Allow use of 20% of available file descriptors for read-only files"
\* (MaxOpenFiles): however many threads open files at once, and also when the
\* limit is below 5 or wraps to a smaller or a negative int, files that keep a
\* descriptor never take more than that, or than the fallback.  The constructor's
\* assertion fails only when a fifth of the process's limit does not fit an int.
DescriptorBudget ==
  /\ aborted => rlimit \notin {Failed, Infinity} /\ rlimit \div 5 > IntMax
  /\ rlimit = Failed => Cardinality(FdHolders) <= Fallback
  /\ rlimit \notin {Failed, Infinity} => 5 * Cardinality(FdHolders) <= rlimit

=============================================================================
