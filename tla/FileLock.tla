------------------------------ MODULE FileLock ------------------------------
(***************************************************************************)
(* PosixEnv::LockFile and PosixEnv::UnlockFile of util/env_posix.cpp for   *)
(* one lock file, used by several processes with several callers each.     *)
(*                                                                         *)
(* The kernel's part is external: an fcntl(F_SETLK) write lock belongs to a*)
(* process, F_SETLK succeeds when no other process has the lock, and the   *)
(* lock is gone when the process closes ANY descriptor of the file, or     *)
(* ends.                                                                   *)
(***************************************************************************)
EXTENDS Naturals, FiniteSets

CONSTANTS Processes,
          CallersOf(_),  \* callers (threads) of a process
          Nobody

ASSUME ProcessAssumption == Nobody \notin Processes

VARIABLES
  kernel,   \* process that has the fcntl lock, or Nobody
  locked,   \* per process: the file is in locked_files_ of PosixLockTable
  lockPc    \* per caller: where it is

lockVars == <<kernel, locked, lockPc>>

Callers == UNION {{p} \X CallersOf(p) : p \in Processes}
ProcessOf(c) == c[1]

LockInit ==
  /\ kernel = Nobody
  /\ locked = [p \in Processes |-> FALSE]
  /\ lockPc = [c \in Callers |-> "out"]

LockGoto(c, from, to) == lockPc[c] = from /\ lockPc' = [lockPc EXCEPT ![c] = to]

\* close() of a descriptor of the lock file by process p.
Close(p) == kernel' = IF kernel = p THEN Nobody ELSE kernel

\* fcntl(F_SETLK, F_UNLCK) by process p.
Unlck(p) == kernel' = IF kernel = p THEN Nobody ELSE kernel

-----------------------------------------------------------------------------
\* LockFile: open(); when it fails the call just returns an error.
LockOpen(c) ==
  /\ LockGoto(c, "out", "opened")
  /\ UNCHANGED <<kernel, locked>>

\* locks_.Insert(filename), one step under PosixLockTable::mu_
LockInsert(c) ==
  /\ ~locked[ProcessOf(c)]
  /\ LockGoto(c, "opened", "inserted")
  /\ locked' = [locked EXCEPT ![ProcessOf(c)] = TRUE]
  /\ UNCHANGED kernel

\* locks_.Insert fails: "already held by process"
LockHeld(c) ==
  /\ locked[ProcessOf(c)]
  /\ LockGoto(c, "opened", "busy")
  /\ UNCHANGED <<kernel, locked>>

\* ... and the descriptor opened a moment ago is closed.
LockHeldClose(c) ==
  /\ LockGoto(c, "busy", "out")
  /\ Close(ProcessOf(c))
  /\ UNCHANGED locked

\* LockOrUnlock(fd, true) succeeds.
LockSetlk(c) ==
  /\ kernel \in {Nobody, ProcessOf(c)}
  /\ LockGoto(c, "inserted", "held")
  /\ kernel' = ProcessOf(c)
  /\ UNCHANGED locked

\* LockOrUnlock(fd, true) fails, because another process has the lock or for a
\* reason of its own.
LockRefused(c) ==
  /\ LockGoto(c, "inserted", "refused")
  /\ Close(ProcessOf(c))
  /\ UNCHANGED locked

RefusedKeepsEntry(c) ==
  /\ LockGoto(c, "refused", "out")
  /\ UNCHANGED <<kernel, locked>>

LockRemove(c) ==
  /\ LockGoto(c, "refused", "out")
  /\ locked' = [locked EXCEPT ![ProcessOf(c)] = FALSE]
  /\ UNCHANGED kernel

UnlockSkipsSetlk(c) ==
  /\ LockGoto(c, "held", "unlocked")
  /\ UNCHANGED <<kernel, locked>>

\* UnlockFile: F_UNLCK, then locks_.Remove, then close.  When F_UNLCK fails the
\* call returns an error and changes nothing.
UnlockSetlk(c) ==
  /\ LockGoto(c, "held", "unlocked")
  /\ Unlck(ProcessOf(c))
  /\ UNCHANGED locked

UnlockRemove(c) ==
  /\ LockGoto(c, "unlocked", "removed")
  /\ locked' = [locked EXCEPT ![ProcessOf(c)] = FALSE]
  /\ UNCHANGED kernel

UnlockClose(c) ==
  /\ LockGoto(c, "removed", "out")
  /\ Close(ProcessOf(c))
  /\ UNCHANGED locked

\* A process ends, cleanly or not, and is started again.
Restart(p) ==
  /\ lockPc' = [c \in Callers |-> IF ProcessOf(c) = p THEN "out" ELSE lockPc[c]]
  /\ locked' = [locked EXCEPT ![p] = FALSE]
  /\ Close(p)

LockNext ==
  \/ \E c \in Callers : LockOpen(c)
  \/ \E c \in Callers : LockInsert(c)
  \/ \E c \in Callers : LockHeld(c)
  \/ \E c \in Callers : LockHeldClose(c)
  \/ \E c \in Callers : LockSetlk(c)
  \/ \E c \in Callers : LockRefused(c)
  \/ \E c \in Callers : LockRemove(c)
  \/ \E c \in Callers : UnlockSetlk(c)
  \/ \E c \in Callers : UnlockRemove(c)
  \/ \E c \in Callers : UnlockClose(c)
  \/ \E p \in Processes : Restart(p)

LockSpec == LockInit /\ [][LockNext]_lockVars

-----------------------------------------------------------------------------
\* Callers that put the process's entry into locked_files_ and have not removed it.
OwnsEntry(c) == lockPc[c] \in {"inserted", "refused", "held", "unlocked"}

\* "fcntl(F_SETLK) does not provide any protection against multiple uses from
\* the same process" (env_posix.cpp), PosixLockTable does: of the callers of one
\* process at most one is between locks_.Insert and locks_.Remove, whatever the
\* others do, and the entry is in the table exactly then, so no failure path
\* leaves the file locked for ever.
OneCallerPerProcess ==
  /\ \A c, d \in Callers :
        OwnsEntry(c) /\ OwnsEntry(d) /\ ProcessOf(c) = ProcessOf(d) => c = d
  /\ \A p \in Processes :
        locked[p] <=> \E c \in Callers : ProcessOf(c) = p /\ OwnsEntry(c)

\* A process that uses the lock no more does not keep the others out: it owns
\* the kernel lock only while one of its callers is between F_SETLK and F_UNLCK.
KernelLockNotStuck ==
  kernel # Nobody =>
    \E c \in Callers : ProcessOf(c) = kernel /\ lockPc[c] = "held"

\* env.h:142, "Used to prevent concurrent access to the same db by multiple
\* processes": callers of two processes never hold the lock together.
ProcessesExclude ==
  \A c, d \in Callers : lockPc[c] = "held" /\ lockPc[d] = "held" => ProcessOf(c) = ProcessOf(d)

=============================================================================
