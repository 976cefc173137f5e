----------------------------- MODULE ReadString -----------------------------
(***************************************************************************)
(* PosixSequentialFile of util/env_posix.cpp, read by ReadFileToString of  *)
(* util/env.cpp (reader "string") or by any client (reader "client").  The *)
(* file is the one DoWriteStringToFile of module WriteString is writing or *)
(* has written in another thread.                                          *)
(***************************************************************************)
EXTENDS WriteString

CONSTANTS ReadSize,  \* kBufferSize, and the most a client asks for at once
          OffMax     \* the largest off_t; uint64_t goes up to 2 * OffMax + 1

ASSUME ReadAssumption == ReadSize \in Nat \ {0} /\ OffMax \in Nat

VARIABLES
  reader,   \* where the reader is
  pos,      \* the offset of fd_
  got,      \* offsets and bytes Read has delivered, in order, until strayed
  skipped,  \* offsets of bytes that Skip has passed over, until strayed
  strayed,  \* a Skip has left the data of the file, or gone backwards
  rstatus,  \* status of the reader's last call
  atOpen    \* the bytes the file had when the reader opened it

rvars == <<reader, pos, got, skipped, strayed, rstatus, atOpen>>

RInit ==
  /\ WInit
  /\ reader = "none" /\ pos = 0 /\ got = << >> /\ skipped = {} /\ strayed = FALSE
  /\ rstatus = "ok" /\ atOpen = 0

\* NewSequentialFile; the contents of a file that is older are not modelled.
Open(who) ==
  /\ stage # "free" /\ reader = "none" /\ name # "old"
  /\ \/ name # "absent" /\ reader' = who /\ UNCHANGED rstatus
     \/ reader' = "done" /\ rstatus' = "error"
  /\ atOpen' = Len(file)
  /\ UNCHANGED <<pos, got, skipped, strayed>>

\* What read(fd_, scratch, n) can return: 0 at the end of the file only.
ReadSizes(n) == IF pos >= Len(file) THEN {0} ELSE 1..Min({n, Len(file) - pos})

Delivered(r) == [i \in 1..r |-> <<pos + i, file[pos + i]>>]

\* Read gives a short count r to the client as it is; EINTR is retried.
Read(r) ==
  /\ pos' = pos + r
  /\ got' = IF strayed THEN got ELSE got \o Delivered(r)
  /\ rstatus' = "ok"
  /\ UNCHANGED <<skipped, strayed>>

ReadError == rstatus' = "error" /\ UNCHANGED <<pos, got, skipped, strayed>>

\* The uint64_t n as the off_t that lseek takes.
ToOff(n) == IF n <= OffMax THEN n ELSE n - 2 * (OffMax + 1)

\* lseek(fd_, n, SEEK_CUR), which does not look at the end of the file, and fails
\* when the new offset would be negative or no off_t.
Skip(n) ==
  LET to == pos + ToOff(n)
  IN \/ /\ to \in 0..OffMax
        /\ pos' = to
        /\ strayed' = (strayed \/ to \notin pos..Len(file))
        /\ skipped' = IF strayed' THEN skipped ELSE skipped \union ((pos + 1)..to)
        /\ rstatus' = "ok"
        /\ UNCHANGED got
     \/ /\ to \notin 0..OffMax
        /\ rstatus' = "error"
        /\ UNCHANGED <<pos, got, skipped, strayed>>

ClientStep ==
  /\ reader = "client"
  /\ \/ \E n \in 1..ReadSize : \E r \in ReadSizes(n) : Read(r)
     \/ ReadError
     \/ \E n \in 0..(2 * OffMax + 1) : Skip(n)
  /\ UNCHANGED <<reader, atOpen>>

StopAtShortFragment ==
  /\ reader = "string"
  /\ \/ \E r \in ReadSizes(ReadSize) :
          Read(r) /\ reader' = IF r < ReadSize THEN "done" ELSE "string"
     \/ ReadError /\ reader' = "done"
  /\ UNCHANGED atOpen

\* A round of ReadFileToString's loop, which ends at an error or at an empty
\* fragment.
ReadFragment ==
  /\ reader = "string"
  /\ \/ \E r \in ReadSizes(ReadSize) :
          Read(r) /\ reader' = IF r = 0 THEN "done" ELSE "string"
     \/ ReadError /\ reader' = "done"
  /\ UNCHANGED atOpen

ReaderStep ==
  \/ \E who \in {"string", "client"} : Open(who)
  \/ ClientStep \/ ReadFragment

RNext ==
  \/ WNext /\ UNCHANGED rvars
  \/ ReaderStep /\ UNCHANGED allvars

RSpec == RInit /\ [][RNext]_<<allvars, rvars>>

-----------------------------------------------------------------------------
\* Whatever counts read() returns and however far the writer is, a reader whose
\* Skips end inside the file gets every byte it did not skip, once and in order;
\* and the string ReadFileToString returns with OK has all the file held when it
\* was opened, so that it is the whole string when WriteStringToFile had returned
\* OK before.  SkipStopsAtEnd is about the other Skips.
ReaderMissesNothing ==
  /\ ~strayed => {g[1] : g \in ToSet(got)} \union skipped = 1..pos /\ pos <= Len(file)
  /\ \A i \in 1..Len(got) :
       /\ i > 1 => got[i - 1][1] < got[i][1]
       /\ got[i][1] \notin skipped /\ got[i][2] = got[i][1]
  /\ reader = "done" /\ rstatus = "ok" => Len(got) >= atOpen

\* env.h:215, "If end of file is reached, skipping will stop at the end of the
\* file, and Skip will return OK": no reader is ever behind the end of the file,
\* so that no byte the writer appends later is passed over.
SkipStopsAtEnd == pos <= Len(file)

=============================================================================
