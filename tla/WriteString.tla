---------------------------- MODULE WriteString -----------------------------
(***************************************************************************)
(* DoWriteStringToFile of util/env.cpp, run against PosixWritableFile:     *)
(* WriteStringToFile (shouldSync FALSE) and WriteStringToFileSync (TRUE).  *)
(* It composes module WritableFile: the file's only client is either any   *)
(* client (stage "free") or this function, which decides what method to    *)
(* call from the status of the previous one.                               *)
(***************************************************************************)
EXTENDS WritableFile

VARIABLES
  shouldSync,  \* should_sync
  size,        \* data.size()
  stage,       \* where the function is
  s,           \* its variable s
  name         \* what fname names: nothing, an older file, or the new one

svars == <<shouldSync, size, stage, s, name>>
allvars == <<vars, svars>>

WInit ==
  /\ Init
  /\ s = "ok"
  /\ \/ stage = "free" /\ shouldSync = FALSE /\ size = 0 /\ name = "new"
     \/ /\ stage = "open" /\ isManifest = FALSE
        /\ shouldSync \in BOOLEAN
        /\ size \in 0..MaxBytes
        /\ name \in {"absent", "old"}

At(from, to) == stage = from /\ stage' = to

\* env->NewWritableFile(fname, &file), which truncates an older file.
OpenFile ==
  /\ \/ At("open", "append") /\ name' = "new" /\ UNCHANGED s
     \/ At("open", "done") /\ s' = "error" /\ UNCHANGED name
  /\ UNCHANGED <<vars, shouldSync, size>>

CallAppend ==
  /\ At("append", "appended")
  /\ AppendData(size, NoFile)
  /\ UNCHANGED <<shouldSync, size, s, name>>

\* if (s.ok() && should_sync) s = file->Sync();
CallSync ==
  /\ At("appended", "synced")
  /\ st = "ok" /\ shouldSync
  /\ Sync
  /\ UNCHANGED <<shouldSync, size, s, name>>

CallCloseAlways ==
  /\ \/ At("appended", "closed") /\ (st = "error" \/ ~shouldSync)
     \/ At("synced", "closed")
  /\ Close("close")
  /\ s' = "ok"
  /\ UNCHANGED <<shouldSync, size, name>>

\* if (s.ok()) s = file->Close();
CallClose ==
  /\ \/ At("appended", "closed") /\ ~shouldSync
     \/ At("synced", "closed")
  /\ st = "ok"
  /\ Close("close")
  /\ UNCHANGED <<shouldSync, size, s, name>>

\* delete file, when an error left it open: the destructor closes it.
DeleteOpenFile ==
  /\ stage \in {"appended", "synced"} /\ stage' = "deleted"
  /\ st = "error"
  /\ s' = "error"
  /\ Close("delete")
  /\ UNCHANGED <<shouldSync, size, name>>

\* delete file after Close: nothing is left to do, s is what Close returned.
DeleteClosedFile ==
  /\ At("closed", "deleted")
  /\ pc = "closed"
  /\ s' = st
  /\ UNCHANGED <<vars, shouldSync, size, name>>

\* if (!s.ok()) env->RemoveFile(fname); return s;
Finish ==
  /\ At("deleted", "done")
  /\ pc = "closed"
  /\ name' \in IF s = "ok" THEN {name} ELSE {"absent", "not_removed"}
  /\ UNCHANGED <<vars, shouldSync, size, s>>

WStep ==
  \/ OpenFile \/ CallAppend \/ CallSync \/ CallClose
  \/ DeleteOpenFile \/ DeleteClosedFile \/ Finish

WNext ==
  \/ WStep
  \/ stage = "free" /\ ClientCall /\ UNCHANGED svars
  \/ stage = "free" /\ CreateFile /\ UNCHANGED svars
  \/ MethodStep /\ UNCHANGED svars
  \/ WriteBack /\ UNCHANGED svars

WSpec == WInit /\ [][WNext]_allvars

-----------------------------------------------------------------------------
\* All or nothing.  The function returns OK only with the whole string in the
\* file, once and in order, and on disk if a sync was asked for: no error of
\* Append, Sync or Close on the way is lost.  A caller that gets an error never
\* finds a part of the string under fname: the name is as it was before the call
\* or removed, unless RemoveFile failed too.
AllOrNothing ==
  stage = "done" =>
    IF s = "ok"
    THEN /\ name = "new"
         /\ file = [i \in 1..size |-> i]
         /\ shouldSync => 1..size \subseteq durable
    ELSE name # "new"

=============================================================================
