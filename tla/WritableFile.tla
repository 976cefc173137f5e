---------------------------- MODULE WritableFile ----------------------------
(***************************************************************************)
(* PosixWritableFile of util/env_posix.cpp: one file a client appends to,  *)
(* its user-space buffer, the kernel's page cache and the disk.            *)
(*                                                                         *)
(* Bytes are numbered in the order the client appends them, so that a      *)
(* lost, repeated or reordered byte can be seen in the file.  A byte of a  *)
(* MANIFEST may refer to a file created earlier in the same directory.     *)
(* The kernel may write a page or a directory entry back at any time, and  *)
(* whatever is in durable and dirDurable is what a crash would leave.      *)
(*                                                                         *)
(* A client calls one method at a time, as env.h requires, and none after  *)
(* Close or the destructor.                                                *)
(***************************************************************************)
EXTENDS Integers, Sequences, FiniteSets, SequencesExt, FiniteSetsExt

CONSTANTS BufferSize,   \* kWritableFileBufferSize
          MaxBytes,     \* bound: bytes the client appends in all
          MaxFiles,     \* bound: files created in the directory
          NoFile        \* what a byte refers to that names no file

ASSUME WritableAssumption ==
  /\ BufferSize \in Nat \ {0}
  /\ MaxBytes \in Nat
  /\ MaxFiles \in Nat
  /\ NoFile \notin Nat

VARIABLES
  isManifest,  \* is_manifest_
  next,        \* bytes the client has passed to Append
  refers,      \* the file each of those bytes refers to
  buf,         \* buf_[0, pos_ - 1]
  todo,        \* what WriteUnbuffered has still to write
  rest,        \* what Append has still to place after its FlushBuffer
  pc, op,      \* where the method op that is running, or was the last, is
  st,          \* its local status
  failed,      \* some call has returned an error to the client
  file,        \* the bytes of the file as any process reads it
  durable,     \* bytes on disk
  clean,       \* bytes the kernel gave up writing when fsync failed
  created,     \* files created in the directory
  dirDurable   \* files whose directory entries are on disk

vars == <<isManifest, next, refers, buf, todo, rest, pc, op, st, failed, file,
          durable, clean, created, dirDurable>>

local == <<isManifest, next, refers>>
kernel == <<file, durable, clean, created, dirDurable>>

-----------------------------------------------------------------------------
\* NewWritableFile: the file exists and is empty, nothing is buffered.
Init ==
  /\ isManifest \in BOOLEAN
  /\ next = 0
  /\ refers = << >>
  /\ buf = << >> /\ todo = << >> /\ rest = << >>
  /\ pc = "idle" /\ op = "none" /\ st = "ok" /\ failed = FALSE
  /\ file = << >>
  /\ durable = {} /\ clean = {}
  /\ created = 0 /\ dirDurable = {}

\* A method returns s to the client.
Return(s) ==
  /\ pc' = "idle" /\ op' = "none" /\ st' = s
  /\ failed' = (failed \/ s = "error")

\* A method goes on at the given place.
GoTo(p, o) == pc' = p /\ op' = o /\ st' = "ok" /\ UNCHANGED failed

\* FlushBuffer starts: WriteUnbuffered(buf_, pos_).
StartFlush(o) == todo' = buf /\ GoTo("write", o)

\* Append of n bytes that refer to file f: fill the buffer, and flush it when
\* the data does not fit.
AppendData(n, f) ==
  LET data == [i \in 1..n |-> next + i]
      copy == Min({n, BufferSize - Len(buf)})
  IN /\ pc = "idle"
     /\ next' = next + n
     /\ refers' = refers \o [i \in 1..n |-> f]
     /\ buf' = buf \o SubSeq(data, 1, copy)
     /\ IF copy = n
        THEN Return("ok") /\ UNCHANGED <<todo, rest>>
        ELSE todo' = buf' /\ rest' = SubSeq(data, copy + 1, n) /\ GoTo("write", "append")
     /\ UNCHANGED <<isManifest, kernel>>

Flush ==
  /\ pc = "idle"
  /\ StartFlush("flush")
  /\ UNCHANGED <<local, buf, rest, kernel>>

SyncFlushesFirst ==
  /\ pc = "idle"
  /\ StartFlush("sync")
  /\ UNCHANGED <<local, buf, rest, kernel>>

\* Sync first runs SyncDirIfManifest.
Sync ==
  /\ pc = "idle"
  /\ IF isManifest THEN GoTo("syncdir", "sync") /\ UNCHANGED todo ELSE StartFlush("sync")
  /\ UNCHANGED <<local, buf, rest, kernel>>

\* SyncDirIfManifest opens the directory and syncs it; either may fail.
SyncDir ==
  /\ pc = "syncdir"
  /\ \/ /\ dirDurable' = 1..created
        /\ StartFlush("sync")
     \/ /\ Return("error")
        /\ UNCHANGED <<todo, dirDurable>>
  /\ UNCHANGED <<local, buf, rest, file, durable, clean, created>>

\* Close, and the destructor of a file that is still open.
Close(o) ==
  /\ pc = "idle"
  /\ StartFlush(o)
  /\ UNCHANGED <<local, buf, rest, kernel>>

-----------------------------------------------------------------------------
\* write() takes any part of the data; n = 0 stands for EINTR, which is retried.
WriteSome ==
  /\ pc = "write" /\ todo # << >>
  /\ \E n \in 0..Len(todo) :
       /\ file' = file \o SubSeq(todo, 1, n)
       /\ todo' = SubSeq(todo, n + 1, Len(todo))
  /\ UNCHANGED <<local, buf, rest, pc, op, st, failed, durable, clean, created, dirDurable>>

WriteFailsKeepsBuffer ==
  /\ pc = "write" /\ todo # << >>
  /\ todo' = << >> /\ rest' = << >>
  /\ IF op \in {"close", "delete"}
     THEN pc' = "close" /\ st' = "error" /\ UNCHANGED <<op, failed>>
     ELSE Return("error")
  /\ UNCHANGED <<local, buf, kernel>>

\* Any other error ends WriteUnbuffered.  FlushBuffer sets pos_ to 0 whatever
\* the outcome, so what was not written is dropped; Close goes on to close fd_.
WriteFails ==
  /\ pc = "write" /\ todo # << >>
  /\ todo' = << >> /\ rest' = << >> /\ buf' = << >>
  /\ IF op \in {"close", "delete"}
     THEN pc' = "close" /\ st' = "error" /\ UNCHANGED <<op, failed>>
     ELSE Return("error")
  /\ UNCHANGED <<local, kernel>>

\* WriteUnbuffered is done: what each method does next.  Append puts what is
\* left into the empty buffer, or writes it directly when it would fill it.
WriteDone ==
  /\ pc = "write" /\ todo = << >>
  /\ \/ /\ op = "append" /\ Len(rest) < BufferSize
        /\ buf' = rest /\ rest' = << >>
        /\ Return("ok") /\ UNCHANGED todo
     \/ /\ op = "append" /\ Len(rest) >= BufferSize
        /\ buf' = << >> /\ todo' = rest /\ rest' = << >>
        /\ UNCHANGED <<pc, op, st, failed>>
     \/ /\ op = "flush"
        /\ buf' = << >>
        /\ Return("ok") /\ UNCHANGED <<todo, rest>>
     \/ /\ op \in {"sync", "close", "delete"}
        /\ buf' = << >>
        /\ pc' = IF op = "sync" THEN "fsync" ELSE "close"
        /\ UNCHANGED <<op, st, failed, todo, rest>>
  /\ UNCHANGED <<local, kernel>>

FsyncIgnored ==
  /\ pc = "fsync"
  /\ Return("ok")
  /\ UNCHANGED <<local, buf, todo, rest, kernel>>

\* SyncFd.  After a failure the kernel may regard the pages as written.
SyncFd ==
  /\ pc = "fsync"
  /\ \/ /\ durable' = durable \union (ToSet(file) \ clean)
        /\ Return("ok") /\ UNCHANGED clean
     \/ /\ clean' \in {clean, clean \union (ToSet(file) \ durable)}
        /\ Return("error") /\ UNCHANGED durable
  /\ UNCHANGED <<local, buf, todo, rest, file, created, dirDurable>>

\* ::close, which may fail in its turn; the destructor ignores the status.
CloseFd ==
  /\ pc = "close"
  /\ st' \in {st, "error"}
  /\ failed' = (failed \/ (op = "close" /\ st' = "error"))
  /\ pc' = "closed"
  /\ UNCHANGED <<op, local, buf, todo, rest, kernel>>

-----------------------------------------------------------------------------
\* Another file is created in the directory.
CreateFile ==
  /\ created < MaxFiles
  /\ created' = created + 1
  /\ UNCHANGED <<local, buf, todo, rest, pc, op, st, failed, file, durable, clean, dirDurable>>

\* The kernel writes a dirty page or a directory entry to disk on its own.
WriteBack ==
  /\ \/ \E b \in ToSet(file) \ (durable \union clean) :
          durable' = durable \union {b} /\ UNCHANGED dirDurable
     \/ \E f \in (1..created) \ dirDurable :
          dirDurable' = dirDurable \union {f} /\ UNCHANGED durable
  /\ UNCHANGED <<local, buf, todo, rest, pc, op, st, failed, file, clean, created>>

\* What a client may call: the bytes it appends name a file that exists.
ClientCall ==
  \/ \E n \in 0..(MaxBytes - next), f \in (1..created) \union {NoFile} : AppendData(n, f)
  \/ Flush
  \/ Sync
  \/ \E o \in {"close", "delete"} : Close(o)

MethodStep == SyncDir \/ WriteSome \/ WriteFails \/ WriteDone \/ SyncFd \/ CloseFd

Next == ClientCall \/ MethodStep \/ CreateFile \/ WriteBack

Spec == Init /\ [][Next]_vars

-----------------------------------------------------------------------------
\* What the client appended and the file does not hold yet.
Pending == IF pc = "write" THEN todo \o rest ELSE buf

\* An error that no caller knows of: the one Close is about to return, and the one
\* that the destructor of an open file met in its Close and ignores.
UntoldError == st = "error" /\ (op = "delete" \/ (op = "close" /\ pc = "close"))

\* A byte is lost only with an error, and the client is told of every such error
\* but the destructor's: until a call returns one, the file and the buffers hold
\* every byte the client appended, in order, once, wherever Append, Flush, Sync
\* and Close are, except that what the destructor of a file that was not closed
\* fails to write is lost silently.  And whatever failed before, the file never
\* holds a byte twice or out of order: no retry of a flush writes the buffer again
\* after a partial write.
NothingLostOrRepeated ==
  LET s == file \o Pending
  IN /\ ~failed /\ ~UntoldError => s = [i \in 1..next |-> i]
     /\ \A i, j \in 1..Len(s) : i < j => s[i] < s[j]

\* Sync promises durability: when it returns OK and no call failed before it,
\* every byte appended before it is on disk.
SyncMakesDurable ==
  [][ pc = "fsync" /\ pc' = "idle" /\ st' = "ok" /\ ~failed => 1..next \subseteq durable' ]_vars

\* SyncDirIfManifest comes before FlushBuffer: what Sync writes to a MANIFEST
\* refers only to files whose directory entries are already on disk.
SyncWritesDurableNames ==
  isManifest /\ pc = "write" /\ op = "sync" =>
    \A b \in ToSet(todo) : refers[b] \in dirDurable \union {NoFile}

=============================================================================
