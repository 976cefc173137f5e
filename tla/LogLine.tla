------------------------------ MODULE LogLine -------------------------------
(***************************************************************************)
(* PosixLogger::Logv of util/posix_logger.h: a header and a message of the *)
(* given lengths are printed into a buffer on the stack, and again into    *)
(* one from the heap when they do not fit.  (v)snprintf stores what leaves *)
(* room for the null terminator and returns how much there was to store.   *)
(***************************************************************************)
EXTENDS Integers, FiniteSetsExt

CONSTANTS StackBuffer,  \* kStackBufferSize
          MaxHeader     \* 28 + kMaxThreadIdSize

ASSUME LoggerAssumption ==
  StackBuffer \in Nat /\ MaxHeader \in Nat \ {0} /\ MaxHeader < StackBuffer

FitsWithoutTerminator(offset, size) == offset <= size

\* Room is left for the newline that may be added.
Fits(offset, size) == offset < size - 1

\* The line as it is written: the size of the buffer, the characters of header
\* and message in it, and the characters given to fwrite.  A line that does not
\* fit the second time is cut, behind the assert(false).
Logv(header, message, endsLine) ==
  LET length == header + message
      size == IF Fits(length, StackBuffer) THEN StackBuffer ELSE length + 2
      offset == IF Fits(length, size) THEN length ELSE size - 1
      newline == endsLine /\ offset = length
  IN [buffer |-> size, stored |-> Min({length, size - 1}), cut |-> offset # length,
      written |-> IF newline THEN offset ELSE offset + 1]

=============================================================================
