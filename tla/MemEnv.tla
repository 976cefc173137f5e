------------------------------- MODULE MemEnv -------------------------------
(***************************************************************************)
(* InMemoryEnv of helper/memenv/memenv.cpp: the file map, the reference    *)
(* counted FileStates and the file objects that clients open.              *)
(*                                                                         *)
(* The Env's methods run under mutex_ and are one action each.  The file   *)
(* objects take no lock of the Env: Unref (decrement, then delete) and     *)
(* Skip (two calls of Size) are two steps, and anything may run between    *)
(* them.  A file's contents are abstracted to its size.  FileStates are    *)
(* recycled memory, so that a stale pointer can meet a new file.           *)
(***************************************************************************)
EXTENDS Integers, FiniteSets, FiniteSetsExt

CONSTANTS Names,     \* file names
          States,    \* memory blocks a FileState can be allocated in
          Objects,   \* file objects; each belongs to one thread
          MaxSize,   \* bound: bytes in a file, and in one Skip or Read
          Word,      \* 2^64: the modulus of uint64_t arithmetic
          NoState

ASSUME MemEnvAssumption ==
  /\ IsFiniteSet(Names) /\ IsFiniteSet(Objects)
  /\ MaxSize \in Nat /\ Word \in Nat /\ 2 * MaxSize < Word
  /\ NoState \notin States

VARIABLES
  file_map,  \* file_map_
  live,      \* FileStates that are allocated
  refs,      \* refs_
  size,      \* size_
  kind,      \* per object: "none", or which class it is
  file,      \* per object: file_
  pos,       \* per object: pos_
  pc,        \* per object: "idle", in Skip, or in Unref about to delete
  skip,      \* per object: n of the Skip that is running
  open       \* the Env has not been destroyed

memVars == <<file_map, live, refs, size, kind, file, pos, pc, skip, open>>

MemInit ==
  /\ file_map = [n \in Names |-> NoState]
  /\ live = {}
  /\ refs = [f \in States |-> 0]
  /\ size = [f \in States |-> 0]
  /\ kind = [o \in Objects |-> "none"]
  /\ file = [o \in Objects |-> NoState]
  /\ pos = [o \in Objects |-> 0]
  /\ pc = [o \in Objects |-> "idle"]
  /\ skip = [o \in Objects |-> 0]
  /\ open = TRUE

-----------------------------------------------------------------------------
\* FileState::Ref, Size, Truncate and Append, which the file's mutexes make
\* atomic; the list of blocks that holds the bytes is abstracted to its size.
Ref(f) == refs' = [refs EXCEPT ![f] = @ + 1]
Size(f) == size[f]
Truncate(f) == size' = [size EXCEPT ![f] = 0]
AppendBytes(f, n) == size' = [size EXCEPT ![f] = @ + n]

\* How many bytes FileState::Read returns for n at an offset inside the file.
ReadBytes(f, offset, n) == Min({n, size[f] - offset})

\* The constructor of a file object of class k on FileState f.
MakeObject(o, k, f) ==
  /\ kind[o] = "none" /\ pc[o] = "idle"
  /\ kind' = [kind EXCEPT ![o] = k]
  /\ file' = [file EXCEPT ![o] = f]
  /\ pos' = [pos EXCEPT ![o] = 0]
  /\ UNCHANGED <<pc, skip, open>>

\* NewSequentialFile, NewRandomAccessFile; a missing file is an error and
\* changes nothing.
OpenForReading(o, n) ==
  /\ open
  /\ file_map[n] # NoState
  /\ \E k \in {"sequential", "random"} : MakeObject(o, k, file_map[n])
  /\ Ref(file_map[n])
  /\ UNCHANGED <<file_map, live, size>>

\* A new FileState, referenced by the map and by the object being made.
CreateFile(o, n, f) ==
  /\ file_map[n] = NoState
  /\ f \notin live
  /\ live' = live \union {f}
  /\ refs' = [refs EXCEPT ![f] = 2]
  /\ size' = [size EXCEPT ![f] = 0]
  /\ file_map' = [file_map EXCEPT ![n] = f]
  /\ MakeObject(o, "writable", f)

\* NewWritableFile truncates a file that exists, whoever has it open.
NewWritableFile(o, n) ==
  /\ open
  /\ \/ \E f \in States : CreateFile(o, n, f)
     \/ /\ file_map[n] # NoState
        /\ MakeObject(o, "writable", file_map[n])
        /\ Ref(file_map[n])
        /\ Truncate(file_map[n])
        /\ UNCHANGED <<file_map, live>>

NewAppendableFile(o, n) ==
  /\ open
  /\ \/ \E f \in States : CreateFile(o, n, f)
     \/ /\ file_map[n] # NoState
        /\ MakeObject(o, "writable", file_map[n])
        /\ Ref(file_map[n])
        /\ UNCHANGED <<file_map, live, size>>

\* Unref of the FileStates in F by the Env, under mutex_.
EnvUnref(F) ==
  /\ refs' = [f \in States |-> IF f \in F THEN refs[f] - 1 ELSE refs[f]]
  /\ live' = live \ {f \in F : refs[f] <= 1}

RemoveFrees(n) ==
  /\ open
  /\ file_map[n] # NoState
  /\ live' = live \ {file_map[n]}
  /\ refs' = [refs EXCEPT ![file_map[n]] = 0]
  /\ file_map' = [file_map EXCEPT ![n] = NoState]
  /\ UNCHANGED <<size, kind, file, pos, pc, skip, open>>

RemoveFile(n) ==
  /\ open
  /\ file_map[n] # NoState
  /\ EnvUnref({file_map[n]})
  /\ file_map' = [file_map EXCEPT ![n] = NoState]
  /\ UNCHANGED <<size, kind, file, pos, pc, skip, open>>

\* file_map_ after RemoveFileInternal(target) and the move of src's entry.  When
\* src is target, RemoveFileInternal has already erased it: file_map_[src] is a
\* new null entry, and erase(src) takes that away too.
Renamed(src, target) ==
  [n \in Names |-> IF n = src THEN NoState
                   ELSE IF n = target THEN file_map[src]
                   ELSE file_map[n]]

RenameFile(src, target) ==
  /\ open
  /\ file_map[src] # NoState
  /\ EnvUnref({file_map[target]} \ {NoState})
  /\ file_map' = Renamed(src, target)
  /\ UNCHANGED <<size, kind, file, pos, pc, skip, open>>

\* ~InMemoryEnv: clients may still have file objects.
DestroyEnv ==
  /\ open
  /\ EnvUnref({file_map[n] : n \in Names} \ {NoState})
  /\ file_map' = [n \in Names |-> NoState]
  /\ open' = FALSE
  /\ UNCHANGED <<size, kind, file, pos, pc, skip>>

-----------------------------------------------------------------------------
AppendTo(o, n) ==
  /\ kind[o] = "writable" /\ pc[o] = "idle"
  /\ Size(file[o]) + n <= MaxSize
  /\ AppendBytes(file[o], n)
  /\ UNCHANGED <<file_map, live, refs, kind, file, pos, pc, skip, open>>

\* Read of a sequential file; with pos_ past the end it returns an error and
\* changes nothing.
Read(o, n) ==
  /\ kind[o] = "sequential" /\ pc[o] = "idle"
  /\ pos[o] <= Size(file[o])
  /\ pos' = [pos EXCEPT ![o] = @ + ReadBytes(file[o], pos[o], n)]
  /\ UNCHANGED <<file_map, live, refs, size, kind, file, pc, skip, open>>

\* Skip, up to and including its first call of Size().
SkipBegin(o, n) ==
  /\ kind[o] = "sequential" /\ pc[o] = "idle"
  /\ pos[o] <= Size(file[o])
  /\ pc' = [pc EXCEPT ![o] = "skip"]
  /\ skip' = [skip EXCEPT ![o] = n]
  /\ UNCHANGED <<file_map, live, refs, size, kind, file, pos, open>>

\* The second call of Size() and the rest of Skip; the difference is unsigned.
SkipEnd(o) ==
  LET available == (Size(file[o]) - pos[o]) % Word
  IN /\ pc[o] = "skip"
     /\ pos' = [pos EXCEPT ![o] = @ + Min({skip[o], available})]
     /\ pc' = [pc EXCEPT ![o] = "idle"]
     /\ skip' = [skip EXCEPT ![o] = 0]
     /\ UNCHANGED <<file_map, live, refs, size, kind, file, open>>

CloseUnlocked(o) ==
  /\ kind[o] # "none" /\ pc[o] = "idle"
  /\ pc' = [pc EXCEPT ![o] = "delete"]
  /\ refs' = [refs EXCEPT ![file[o]] = @ - 1]
  /\ kind' = [kind EXCEPT ![o] = "none"]
  /\ UNCHANGED <<file_map, live, size, file, pos, skip, open>>

\* The destructor of a file object: Unref decrements under refs_mutex_ ...
CloseObject(o) ==
  /\ kind[o] # "none" /\ pc[o] = "idle"
  /\ refs' = [refs EXCEPT ![file[o]] = @ - 1]
  /\ kind' = [kind EXCEPT ![o] = "none"]
  /\ IF refs[file[o]] <= 1
     THEN pc' = [pc EXCEPT ![o] = "delete"] /\ UNCHANGED file
     ELSE file' = [file EXCEPT ![o] = NoState] /\ UNCHANGED pc
  /\ UNCHANGED <<file_map, live, size, pos, skip, open>>

\* ... and deletes the FileState after the unlock, if it saw the count at zero.
DeleteState(o) ==
  /\ pc[o] = "delete"
  /\ live' = live \ {file[o]}
  /\ pc' = [pc EXCEPT ![o] = "idle"]
  /\ file' = [file EXCEPT ![o] = NoState]
  /\ UNCHANGED <<file_map, refs, size, kind, pos, skip, open>>

Finished ==
  /\ ~open /\ \A o \in Objects : kind[o] = "none" /\ pc[o] = "idle"
  /\ UNCHANGED memVars

MemNext ==
  \/ \E o \in Objects, n \in Names :
       OpenForReading(o, n) \/ NewWritableFile(o, n) \/ NewAppendableFile(o, n)
  \/ \E n \in Names : RemoveFile(n)
  \/ \E src, target \in Names : RenameFile(src, target)
  \/ DestroyEnv
  \/ \E o \in Objects, n \in 1..MaxSize : AppendTo(o, n) \/ Read(o, n) \/ SkipBegin(o, n)
  \/ \E o \in Objects : SkipEnd(o) \/ CloseObject(o) \/ DeleteState(o)
  \/ Finished

MemSpec == MemInit /\ [][MemNext]_memVars

-----------------------------------------------------------------------------
Referrers(f) ==
  Cardinality({n \in Names : file_map[n] = f})
    + Cardinality({o \in Objects : kind[o] # "none" /\ file[o] = f})

\* A FileState's count is the number of names and open objects that point to it:
\* no interleaving of the Env's methods with the objects' destructors loses or
\* doubles a reference, and the assertion refs_ >= 0 in Unref holds.
RefsCountReferrers ==
  \A f \in States : refs[f] = Referrers(f)

\* A FileState is freed exactly when nobody can reach it: a removed or replaced
\* file stays readable for the objects that have it open, and goes with the last
\* of them; between Unref's decrement and its delete nobody can reach it either,
\* and only one thread is about to delete it.
FreedWhenUnreachable ==
  \A f \in States :
    LET deleting == {o \in Objects : pc[o] = "delete" /\ file[o] = f}
    IN /\ f \in live <=> Referrers(f) > 0 \/ deleting # {}
       /\ Cardinality(deleting) <= 1
       /\ deleting # {} => Referrers(f) = 0

=============================================================================
