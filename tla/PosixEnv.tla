------------------------------ MODULE PosixEnv ------------------------------
(***************************************************************************)
(* The members of class PosixEnv of util/env_posix.cpp that threads share: *)
(* the queue of background work, the table of locked files and the two     *)
(* limiters.  No method uses two of them, and none of them reads what      *)
(* another one writes, so an interleaving of steps on several members      *)
(* differs from its projections only in stuttering: each behaviour of this *)
(* module uses one.                                                        *)
(***************************************************************************)
EXTENDS BackgroundWork, FileLock, RandomAccessFiles

VARIABLE part   \* the member that this behaviour uses

posixVars == <<part, scheduleVars, lockVars, filesVars>>

PosixInit ==
  /\ part \in {"background_work", "locks", "limiters"}
  /\ ScheduleInit /\ LockInit /\ FilesInit

PosixNext ==
  /\ UNCHANGED part
  /\ \/ part = "background_work" /\ ScheduleNext /\ UNCHANGED <<lockVars, filesVars>>
     \/ part = "locks" /\ LockNext /\ UNCHANGED <<scheduleVars, filesVars>>
     \/ part = "limiters" /\ FilesNext /\ UNCHANGED <<scheduleVars, lockVars>>

PosixSpec == PosixInit /\ [][PosixNext]_posixVars /\ Fairness

=============================================================================
