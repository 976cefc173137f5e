-------------------------- MODULE ReadString_proofs --------------------------
(***************************************************************************)
(* Proofs about the files of ReadString: PosixWritableFile, used by any    *)
(* client or by DoWriteStringToFile, and a PosixSequentialFile that reads  *)
(* at the same time.  They hold for every buffer size, any number and size *)
(* of appends and reads, and every failure.                                *)
(***************************************************************************)
EXTENDS ReadString, TLAPS

-----------------------------------------------------------------------------
\* Sequences of bytes.

\* Min of FiniteSetsExt on two numbers.
LEMMA MinOfTwo ==
  ASSUME NEW a \in Int, NEW b \in Int
  PROVE  Min({a, b}) = IF a <= b THEN a ELSE b
<1>1. \A x \in {a, b} : (\A y \in {a, b} : x <= y) => x = IF a <= b THEN a ELSE b
  OBVIOUS
<1>2. \E x \in {a, b} : \A y \in {a, b} : x <= y
  OBVIOUS
<1> QED BY <1>1, <1>2 DEF Min

\* The elements of a concatenation.
LEMMA ConcatIndex ==
  ASSUME NEW a \in Seq(Nat), NEW b \in Seq(Nat)
  PROVE  /\ a \o b \in Seq(Nat) /\ Len(a \o b) = Len(a) + Len(b)
         /\ \A i \in 1..(Len(a) + Len(b)) :
              (a \o b)[i] = IF i <= Len(a) THEN a[i] ELSE b[i - Len(a)]
OBVIOUS

\* The n bytes an Append adds behind the first m.
Fresh(m, n) == [i \in 1..n |-> m + i]

-----------------------------------------------------------------------------
\* q holds the bytes behind the first m, in order and without a gap.
From(m, q) == \A i \in 1..Len(q) : q[i] = m + i

\* q's bytes are among the first m and in order.
Rising(m, q) ==
  /\ \A i \in 1..Len(q) : q[i] \in 1..m
  /\ \A i, j \in 1..Len(q) : i < j => q[i] < q[j]

\* The bytes of p come before those of q.
Before(p, q) == \A i \in 1..Len(p), j \in 1..Len(q) : p[i] < q[j]

-----------------------------------------------------------------------------
\* The inductive invariant of the file: types, which buffer holds what at each
\* place of a method, and what the status of a running method tells.
FileTypes ==
  /\ next \in Nat /\ created \in Nat
  /\ buf \in Seq(Nat) /\ todo \in Seq(Nat) /\ rest \in Seq(Nat) /\ file \in Seq(Nat)
  /\ Len(buf) <= BufferSize
  /\ refers \in Seq(Nat \union {NoFile}) /\ Len(refers) = next
  /\ \A i \in 1..next : refers[i] \in (1..created) \union {NoFile}
  /\ pc \in {"idle", "syncdir", "write", "fsync", "close", "closed"}
  /\ op \in {"none", "append", "flush", "sync", "close", "delete"}
  /\ st \in {"ok", "error"}
  /\ failed \in BOOLEAN

InPlace ==
  /\ pc # "write" => todo = << >> /\ rest = << >>
  /\ op # "append" => rest = << >>
  /\ pc \in {"fsync", "close", "closed"} => buf = << >>
  /\ pc \in {"syncdir", "fsync"} => op = "sync"
  /\ pc \in {"close", "closed"} => op \in {"close", "delete"}

Statuses ==
  /\ pc \in {"write", "syncdir", "fsync"} => st = "ok"
  /\ pc = "idle" /\ st = "error" => failed
  /\ pc = "closed" /\ st = "error" => failed \/ op = "delete"
  /\ clean # {} => failed

\* What the file and the buffers hold is in order, whatever failed.
InOrder ==
  /\ Rising(next, file) /\ Rising(next, todo) /\ Rising(next, rest) /\ Rising(next, buf)
  /\ Before(file, todo) /\ Before(file, rest) /\ Before(todo, rest)
  /\ pc # "write" => Before(file, buf)

\* Without an error they hold all of it.
Complete ==
  ~failed /\ st = "ok" =>
    /\ From(0, file)
    /\ pc = "write" => /\ From(Len(file), todo) /\ From(Len(file) + Len(todo), rest)
                       /\ next = Len(file) + Len(todo) + Len(rest)
    /\ pc # "write" => From(Len(file), buf) /\ next = Len(file) + Len(buf)

FileInv ==
  FileTypes /\ InPlace /\ Statuses /\ InOrder /\ Complete /\ SyncWritesDurableNames

\* The invariant of DoWriteStringToFile: what the file has been through when the
\* function is at each stage, and what its status then means.
StageTypes ==
  /\ shouldSync \in BOOLEAN /\ size \in Nat
  /\ stage \in {"free", "open", "append", "appended", "synced", "closed", "deleted", "done"}
  /\ s \in {"ok", "error"}
  /\ stage # "free" => isManifest = FALSE

MethodOfStage ==
  /\ stage \in {"open", "append"} => pc = "idle" /\ st = "ok" /\ ~failed /\ next = 0
  /\ stage = "appended" => pc = "idle" \/ (pc = "write" /\ op = "append")
  /\ stage = "synced" => pc = "idle" \/ (pc \in {"write", "fsync"} /\ op = "sync")
  /\ stage = "closed" => pc = "closed" \/ (pc \in {"write", "close"} /\ op = "close")
  /\ stage # "free" => pc # "syncdir"

StatusOfStage ==
  /\ stage = "open" => name \in {"absent", "old"}
  /\ stage \in {"append", "appended", "synced", "closed", "deleted"} => name = "new"
  /\ stage \in {"open", "append", "appended", "synced", "closed"} => s = "ok"
  /\ stage \in {"appended", "synced", "closed"} => next = size /\ (st = "ok" => ~failed)
  /\ stage = "synced" /\ pc = "idle" /\ st = "ok" => 1..size \subseteq durable
  /\ stage = "closed" /\ shouldSync => 1..size \subseteq durable
  /\ stage \in {"deleted", "done"} /\ s = "ok" =>
       /\ pc = "closed" /\ st = "ok" /\ ~failed /\ next = size /\ name = "new"
       /\ shouldSync => 1..size \subseteq durable
  /\ stage = "done" /\ s = "error" => name # "new"

\* After an error nothing is left to write, so the file is a prefix of the data.
PrefixOnly ==
  stage # "free" =>
    /\ From(0, file)
    /\ failed \/ st = "error" => buf = << >> /\ todo = << >> /\ rest = << >>

StageInv == StageTypes /\ MethodOfStage /\ StatusOfStage /\ PrefixOnly

\* The invariant of the reader.
ReaderTypes ==
  /\ pos \in Nat /\ atOpen \in Nat /\ got \in Seq(Nat \X Nat) /\ strayed \in BOOLEAN
  /\ reader \in {"none", "string", "client", "done"} /\ rstatus \in {"ok", "error"}

\* What was delivered is right, wherever the reader has gone since.
Ordered ==
  \A i \in 1..Len(got) : /\ got[i][1] \notin skipped /\ got[i][2] = got[i][1]
                         /\ i > 1 => got[i - 1][1] < got[i][1]

\* Everything up to the reader's offset was delivered or skipped.
Deliveries ==
  /\ skipped \subseteq 1..pos
  /\ \A i \in 1..Len(got) : /\ got[i][1] \in (1..pos) \ skipped /\ got[i][2] = got[i][1]
                            /\ i > 1 => got[i - 1][1] < got[i][1]
  /\ \A k \in 1..pos : k \in skipped \/ \E i \in 1..Len(got) : got[i][1] = k

Covered == ~strayed => Deliveries /\ pos <= Len(file)

Progress ==
  /\ reader = "none" => pos = 0 /\ got = << >> /\ skipped = {}
  /\ reader # "none" => stage # "free" /\ atOpen <= Len(file)
  /\ reader # "client" => ~strayed
  /\ reader = "string" => pos = Len(got)
  /\ reader = "done" /\ rstatus = "ok" => Len(got) >= atOpen

ReaderInv == ReaderTypes /\ Ordered /\ Covered /\ Progress

-----------------------------------------------------------------------------
\* Append: its data is split between the buffer and what follows the flush.
LEMMA AppendStep ==
  ASSUME FileInv, NEW n \in Nat, NEW f \in (1..created) \union {NoFile}, AppendData(n, f)
  PROVE  FileInv'
<1>t. FileTypes /\ InPlace /\ Statuses /\ InOrder /\ Complete
  BY DEF FileInv
<1>i. /\ pc = "idle" /\ todo = << >> /\ rest = << >>
      /\ next \in Nat /\ buf \in Seq(Nat) /\ file \in Seq(Nat) /\ Len(buf) <= BufferSize
  BY <1>t DEF AppendData, FileTypes, InPlace
<1>u. UNCHANGED <<isManifest, file, durable, clean, created, dirDurable>> /\ next' = next + n
  BY DEF AppendData, kernel
<1>1. PICK copy \in 0..n :
        /\ Len(buf) + copy <= BufferSize
        /\ buf' = buf \o SubSeq(Fresh(next, n), 1, copy)
        /\ IF copy = n
           THEN Return("ok") /\ UNCHANGED <<todo, rest>>
           ELSE todo' = buf' /\ rest' = SubSeq(Fresh(next, n), copy + 1, n) /\ GoTo("write", "append")
  <2>1. BufferSize - Len(buf) \in Nat
    BY <1>i, WritableAssumption
  <2>2. Min({n, BufferSize - Len(buf)}) = IF n <= BufferSize - Len(buf) THEN n ELSE BufferSize - Len(buf)
    BY <2>1, MinOfTwo
  <2>3. /\ Min({n, BufferSize - Len(buf)}) \in 0..n
        /\ Len(buf) + Min({n, BufferSize - Len(buf)}) <= BufferSize
    BY <1>i, <2>1, <2>2, WritableAssumption
  <2> QED BY <2>3 DEF AppendData, Fresh
<1>3. /\ buf' \in Seq(Nat) /\ Len(buf') = Len(buf) + copy
      /\ \A i \in 1..Len(buf) : buf'[i] = buf[i]
      /\ \A i \in 1..copy : buf'[Len(buf) + i] = next + i
      /\ SubSeq(Fresh(next, n), copy + 1, n) \in Seq(Nat)
      /\ Len(SubSeq(Fresh(next, n), copy + 1, n)) = n - copy
      /\ \A i \in 1..(n - copy) : SubSeq(Fresh(next, n), copy + 1, n)[i] = next + copy + i
  <2>1. buf' = buf \o SubSeq([i \in 1..n |-> next + i], 1, copy)
    BY <1>1 DEF Fresh
  <2>2. buf' \in Seq(Nat)
    BY <1>i, <2>1
  <2>3. Len(buf') = Len(buf) + copy
    BY <1>i, <2>1
  <2>4. \A i \in 1..Len(buf) : buf'[i] = buf[i]
    BY <1>i, <2>1
  <2>5. \A i \in 1..copy : buf'[Len(buf) + i] = next + i
    BY <1>i, <2>1
  <2>6. /\ SubSeq(Fresh(next, n), copy + 1, n) \in Seq(Nat)
        /\ Len(SubSeq(Fresh(next, n), copy + 1, n)) = n - copy
    BY <1>i DEF Fresh
  <2>7. \A i \in 1..(n - copy) : SubSeq(Fresh(next, n), copy + 1, n)[i] = next + copy + i
    BY <1>i DEF Fresh
  <2> QED BY <2>2, <2>3, <2>4, <2>5, <2>6, <2>7, Zenon
<1>a. copy = n => /\ todo' = << >> /\ rest' = << >>
                  /\ pc' = "idle" /\ op' = "none" /\ st' = "ok" /\ failed' = failed
  BY <1>i, <1>1, <1>t DEF Return, FileTypes
<1>b. copy # n => /\ todo' = buf' /\ rest' = SubSeq(Fresh(next, n), copy + 1, n)
                  /\ pc' = "write" /\ op' = "append" /\ st' = "ok" /\ failed' = failed
  BY <1>1 DEF GoTo
<1>c. copy # n => /\ rest' \in Seq(Nat) /\ Len(rest') = n - copy
                  /\ \A i \in 1..(n - copy) : rest'[i] = next + copy + i
  BY <1>b, <1>3, Zenon
<1>4. refers' \in Seq(Nat \union {NoFile}) /\ Len(refers') = next'
      /\ \A i \in 1..next' : refers'[i] \in (1..created') \union {NoFile}
  <2>1. refers' = refers \o [i \in 1..n |-> f]
    BY DEF AppendData
  <2>2. [i \in 1..n |-> f] \in Seq(Nat \union {NoFile}) /\ Len([i \in 1..n |-> f]) = n
    BY <1>t DEF FileTypes
  <2>3. ASSUME NEW a \in Seq(Nat \union {NoFile}), NEW b \in Seq(Nat \union {NoFile})
        PROVE  /\ a \o b \in Seq(Nat \union {NoFile}) /\ Len(a \o b) = Len(a) + Len(b)
               /\ \A i \in 1..(Len(a) + Len(b)) :
                    (a \o b)[i] = IF i <= Len(a) THEN a[i] ELSE b[i - Len(a)]
    OBVIOUS
  <2>4. \A i \in 1..n : [j \in 1..n |-> f][i] = f
    OBVIOUS
  <2>5. refers \in Seq(Nat \union {NoFile}) /\ Len(refers) = next
        /\ \A i \in 1..next : refers[i] \in (1..created) \union {NoFile}
    BY <1>t DEF FileTypes
  <2>6. /\ refers' \in Seq(Nat \union {NoFile}) /\ Len(refers') = next + n
        /\ \A i \in 1..(next + n) :
             refers'[i] = IF i <= next THEN refers[i] ELSE [j \in 1..n |-> f][i - next]
    BY <2>1, <2>2, <2>3, <2>5
  <2>7. \A i \in 1..(next + n) : refers'[i] \in (1..created) \union {NoFile}
    BY <1>i, <2>4, <2>5, <2>6
  <2> QED BY <1>u, <2>6, <2>7
<1>5. FileTypes'
  <2>1. /\ pc' \in {"idle", "syncdir", "write", "fsync", "close", "closed"}
        /\ op' \in {"none", "append", "flush", "sync", "close", "delete"}
        /\ st' \in {"ok", "error"} /\ failed' \in BOOLEAN
    BY <1>t, <1>a, <1>b DEF FileTypes
  <2>2. todo' \in Seq(Nat) /\ rest' \in Seq(Nat)
    <3>1. CASE copy = n
      BY <3>1, <1>a
    <3>2. CASE copy # n
      BY <3>2, <1>b, <1>c, <1>3
    <3> QED BY <3>1, <3>2
  <2>3. next' \in Nat /\ created' \in Nat /\ file' \in Seq(Nat) /\ buf' \in Seq(Nat)
        /\ Len(buf') <= BufferSize
    BY <1>t, <1>i, <1>u, <1>1, <1>3 DEF FileTypes
  <2> QED BY <1>4, <2>1, <2>2, <2>3 DEF FileTypes
<1>6. InPlace'
  BY <1>a, <1>b DEF InPlace
<1>7. Statuses'
  BY <1>t, <1>u, <1>a, <1>b DEF Statuses, FileTypes
<1>8. SyncWritesDurableNames'
  BY <1>a, <1>b DEF SyncWritesDurableNames
<1>9. Rising(next', file') /\ Rising(next', buf') /\ Before(file', buf')
  <2>1. Rising(next, file) /\ Rising(next, buf) /\ Before(file, buf)
    BY <1>t, <1>i DEF InOrder
  <2>2. Rising(next', file')
    BY <2>1, <1>i, <1>u DEF Rising
  <2>3. ASSUME NEW i \in 1..Len(buf')
        PROVE  /\ i <= Len(buf) => buf'[i] = buf[i] /\ buf[i] \in 1..next
               /\ i > Len(buf) => buf'[i] = next + (i - Len(buf)) /\ i - Len(buf) \in 1..n
    <3>1. i <= Len(buf) => buf'[i] = buf[i] /\ buf[i] \in 1..next
      BY <1>3, <1>i, <2>1 DEF Rising
    <3>2. i > Len(buf) => i - Len(buf) \in 1..copy /\ Len(buf) + (i - Len(buf)) = i
      BY <1>3, <1>i
    <3>3. i > Len(buf) => buf'[i] = next + (i - Len(buf))
      BY <1>3, <3>2
    <3> QED BY <3>1, <3>2, <3>3
  <2>4. Rising(next', buf')
    <3>1. \A i \in 1..Len(buf') : buf'[i] \in 1..next'
      BY <2>3, <1>i, <1>u
    <3>2. ASSUME NEW i \in 1..Len(buf'), NEW j \in 1..Len(buf'), i < j PROVE buf'[i] < buf'[j]
      <4>0. Len(buf) \in Nat /\ Len(buf') \in Nat /\ next \in Nat /\ i < j
        BY <3>2, <1>i, <1>3
      <4>1. CASE j <= Len(buf)
        <5>1. i \in 1..Len(buf) /\ j \in 1..Len(buf)
          BY <4>0, <4>1
        <5>2. buf[i] < buf[j]
          BY <4>0, <5>1, <2>1 DEF Rising
        <5>3. buf'[i] = buf[i] /\ buf'[j] = buf[j]
          BY <1>3, <5>1
        <5> QED BY <5>2, <5>3
      <4>2. CASE j > Len(buf)
        <5>1. buf'[j] = next + (j - Len(buf)) /\ j - Len(buf) \in 1..n
          BY <4>0, <4>2, <2>3
        <5>2. CASE i <= Len(buf)
          <6>1. buf'[i] \in 1..next
            BY <4>0, <5>2, <2>3
          <6> QED BY <4>0, <5>1, <6>1
        <5>3. CASE i > Len(buf)
          <6>1. buf'[i] = next + (i - Len(buf))
            BY <4>0, <5>3, <2>3
          <6> QED BY <4>0, <5>1, <6>1
        <5> QED BY <4>0, <5>2, <5>3
      <4> QED BY <4>0, <4>1, <4>2
    <3> QED BY <3>1, <3>2 DEF Rising
  <2>5. Before(file', buf')
    <3>1. ASSUME NEW i \in 1..Len(file), NEW j \in 1..Len(buf') PROVE file[i] < buf'[j]
      <4>1. file[i] \in 1..next
        BY <2>1 DEF Rising
      <4>2. CASE j <= Len(buf)
        <5>1. j \in 1..Len(buf)
          BY <4>2, <1>i
        <5>2. file[i] < buf[j]
          BY <5>1, <2>1 DEF Before
        <5> QED BY <4>2, <5>2, <2>3
      <4>3. CASE j > Len(buf)
        BY <4>1, <4>3, <2>3, <1>i
      <4> QED BY <4>2, <4>3, <1>i, <1>3
    <3> QED BY <3>1, <1>u DEF Before
  <2> QED BY <2>2, <2>4, <2>5
<1>10. InOrder'
  <2>1. CASE copy = n
    <3>1. todo' = << >> /\ rest' = << >>
      BY <2>1, <1>a
    <3>2. \A i : i \notin 1..Len(<< >>)
      OBVIOUS
    <3>3. Rising(next', todo') /\ Rising(next', rest')
      BY <3>1, <3>2, Zenon DEF Rising
    <3>4. Before(file', todo') /\ Before(file', rest') /\ Before(todo', rest')
      BY <3>1, <3>2, Zenon DEF Before
    <3> QED BY <3>3, <3>4, <1>9 DEF InOrder
  <2>2. CASE copy # n
    <3>1. \A i \in 1..Len(rest') : rest'[i] \in 1..next' /\ rest'[i] > next + copy
      <4>1. \A i \in 1..(n - copy) : next + copy + i \in 1..(next + n) /\ next + copy + i > next + copy
        BY <1>i
      <4>2. next' = next + n /\ n - copy = Len(rest') /\ \A i \in 1..(n - copy) : rest'[i] = next + copy + i
        BY <2>2, <1>c, <1>u
      <4> QED BY <4>1, <4>2
    <3>2. Rising(next', rest')
      <4>1. \A i, j \in 1..Len(rest') : i < j => rest'[i] < rest'[j]
        BY <2>2, <1>c, <1>i
      <4> QED BY <3>1, <4>1 DEF Rising
    <3>3. Before(file', rest')
      BY <3>1, <1>t, <1>u, <1>i DEF InOrder, Rising, Before
    <3>4. \A i \in 1..Len(buf') : buf'[i] \in Nat /\ buf'[i] <= next + copy
      <4>1. ASSUME NEW i \in 1..Len(buf') PROVE buf'[i] \in Nat /\ buf'[i] <= next + copy
        <5>1. CASE i <= Len(buf)
          <6>1. buf'[i] = buf[i] /\ buf[i] \in 1..next
            BY <5>1, <1>i, <1>3, <1>t DEF InOrder, Rising
          <6> QED BY <6>1, <1>i
        <5>2. CASE i > Len(buf)
          <6>1. i - Len(buf) \in 1..copy /\ Len(buf) + (i - Len(buf)) = i
            BY <5>2, <1>i, <1>3
          <6>2. buf'[i] = next + (i - Len(buf))
            BY <6>1, <1>3
          <6> QED BY <6>1, <6>2, <1>i
        <5> QED BY <5>1, <5>2, <1>i, <1>3
      <4> QED BY <4>1
    <3>5. Before(buf', rest')
      BY <3>1, <3>4, <1>i DEF Before
    <3> QED BY <2>2, <1>9, <1>b, <3>2, <3>3, <3>5 DEF InOrder
  <2> QED BY <2>1, <2>2
<1>11. Complete'
  <2> SUFFICES ASSUME ~failed', st' = "ok" PROVE Complete'
    BY DEF Complete
  <2>1. From(0, file) /\ From(Len(file), buf) /\ next = Len(file) + Len(buf)
    <3>1. ~failed /\ st = "ok"
      BY <1>t, <1>a, <1>b, <1>i DEF Statuses, FileTypes
    <3> QED BY <3>1, <1>t, <1>i DEF Complete
  <2>2. From(0, file')
    BY <2>1, <1>u DEF From
  <2>3. From(Len(file'), buf')
    <3>1. ASSUME NEW i \in 1..Len(buf') PROVE buf'[i] = Len(file) + i
      <4>1. CASE i <= Len(buf)
        BY <4>1, <2>1, <1>i, <1>3 DEF From
      <4>2. CASE i > Len(buf)
        <5>1. i - Len(buf) \in 1..copy /\ Len(buf) + (i - Len(buf)) = i
          BY <4>2, <1>i, <1>3
        <5>2. buf'[i] = next + (i - Len(buf))
          BY <5>1, <1>3
        <5> QED BY <5>1, <5>2, <2>1, <1>i
      <4> QED BY <4>1, <4>2, <1>i, <1>3
    <3> QED BY <3>1, <1>u DEF From
  <2>4. CASE copy = n
    <3>1. next' = Len(file') + Len(buf')
      BY <2>4, <2>1, <1>i, <1>u, <1>3
    <3> QED BY <2>2, <2>3, <2>4, <3>1, <1>a DEF Complete
  <2>5. CASE copy # n
    <3>1. next' = Len(file') + Len(buf') + Len(rest')
      <4>1. Len(file') = Len(file) /\ Len(buf') = Len(buf) + copy /\ Len(rest') = n - copy
        BY <2>5, <1>u, <1>3, <1>c
      <4>2. Len(file) \in Nat /\ Len(buf) \in Nat
        BY <1>i
      <4> QED BY <4>1, <4>2, <2>1, <1>u
    <3>2. From(Len(file') + Len(buf'), rest')
      <4>1. Len(file') + Len(buf') = next + copy
        BY <2>1, <1>i, <1>u, <1>3
      <4> QED BY <2>5, <4>1, <1>c DEF From
    <3> QED BY <2>2, <2>3, <2>5, <3>1, <3>2, <1>b DEF Complete
  <2> QED BY <2>4, <2>5
<1> QED BY <1>5, <1>6, <1>7, <1>8, <1>10, <1>11 DEF FileInv

\* Every method that flushes: the buffer becomes what is to be written.
LEMMA FlushStep ==
  ASSUME FileInv, NEW o \in {"flush", "sync", "close", "delete"},
         pc \in {"idle", "syncdir"}, StartFlush(o),
         UNCHANGED <<isManifest, next, refers, buf, rest, file, durable, clean, created>>,
         isManifest /\ o = "sync" => dirDurable' = 1..created
  PROVE  FileInv'
<1>t. FileTypes /\ InPlace /\ Statuses /\ InOrder /\ Complete
  BY DEF FileInv
<1>1. todo' = buf /\ rest' = << >> /\ pc' = "write" /\ op' = o /\ st' = "ok" /\ failed' = failed
  BY <1>t DEF StartFlush, GoTo, InPlace
<1>2. FileTypes'
  BY <1>t, <1>1 DEF FileTypes
<1>3. InPlace' /\ Statuses'
  BY <1>t, <1>1 DEF InPlace, Statuses
<1>4. InOrder'
  BY <1>t, <1>1 DEF InOrder, InPlace, Before, Rising
<1>5. Complete'
  <2> SUFFICES ASSUME ~failed' PROVE Complete'
    BY DEF Complete
  <2>1. ~failed /\ st = "ok"
    BY <1>t, <1>1 DEF Statuses, FileTypes
  <2>2. From(0, file) /\ From(Len(file), buf) /\ next = Len(file) + Len(buf)
    BY <1>t, <2>1 DEF Complete
  <2>3. From(Len(file') + Len(todo'), rest')
    BY <1>1 DEF From
  <2>4. next' = Len(file') + Len(todo') + Len(rest')
    BY <1>t, <1>1, <2>2 DEF FileTypes
  <2> QED BY <1>1, <2>2, <2>3, <2>4 DEF Complete
<1>6. SyncWritesDurableNames'
  <2> SUFFICES ASSUME isManifest, o = "sync", NEW b \in ToSet(buf)
               PROVE  refers[b] \in (1..created) \union {NoFile}
    BY <1>1 DEF SyncWritesDurableNames
  <2>1. b \in 1..next
    BY <1>t DEF ToSet, InOrder, Rising, FileTypes
  <2> QED BY <1>t, <2>1 DEF FileTypes
<1> QED BY <1>2, <1>3, <1>4, <1>5, <1>6 DEF FileInv

\* write takes the first n bytes of what is to be written.
LEMMA WriteSomeStep ==
  ASSUME FileInv, WriteSome
  PROVE  FileInv'
<1>t. FileTypes /\ InPlace /\ Statuses /\ InOrder /\ Complete /\ SyncWritesDurableNames
  BY DEF FileInv
<1>i. next \in Nat /\ file \in Seq(Nat) /\ todo \in Seq(Nat) /\ rest \in Seq(Nat) /\ pc = "write"
  BY <1>t DEF WriteSome, FileTypes
<1>u. UNCHANGED <<isManifest, next, refers, buf, rest, pc, op, st, failed, clean, created, dirDurable>>
  BY DEF WriteSome, local
<1>0. PICK n \in 0..Len(todo) : file' = file \o SubSeq(todo, 1, n) /\ todo' = SubSeq(todo, n + 1, Len(todo))
  BY DEF WriteSome
<1>1. file' \in Seq(Nat) /\ Len(file') = Len(file) + n
  BY <1>i, <1>0
<1>2. \A i \in 1..Len(file) : file'[i] = file[i]
  BY <1>i, <1>0
<1>3. \A i \in 1..n : file'[Len(file) + i] = todo[i]
  BY <1>i, <1>0
<1>4. todo' \in Seq(Nat) /\ Len(todo') = Len(todo) - n
  BY <1>i, <1>0
<1>5. \A i \in 1..(Len(todo) - n) : todo'[i] = todo[n + i]
  BY <1>i, <1>0
<1>l. Len(file) \in Nat /\ Len(todo) \in Nat /\ Len(rest) \in Nat
  BY <1>i
<1>6. ASSUME NEW i \in 1..Len(file')
      PROVE  \/ i \in 1..Len(file) /\ file'[i] = file[i]
             \/ i > Len(file) /\ i - Len(file) \in 1..n /\ file'[i] = todo[i - Len(file)]
  <2>1. CASE i <= Len(file)
    BY <2>1, <1>2, <1>l, <1>1
  <2>2. CASE i > Len(file)
    <3>1. i - Len(file) \in 1..n /\ Len(file) + (i - Len(file)) = i
      BY <2>2, <1>l, <1>1
    <3> QED BY <2>2, <3>1, <1>3
  <2> QED BY <2>1, <2>2, <1>l, <1>1
<1>7. ASSUME NEW i \in 1..Len(todo')
      PROVE  todo'[i] = todo[n + i] /\ n + i \in (n + 1)..Len(todo)
  <2>1. i \in 1..(Len(todo) - n) /\ n + i \in (n + 1)..Len(todo)
    BY <1>4, <1>l
  <2> QED BY <1>5, <2>1
<1>8. FileTypes'
  <2>1. UNCHANGED <<next, created, refers, buf, rest, pc, op, st, failed>>
    BY <1>u
  <2> QED BY <1>t, <1>1, <1>4, <2>1 DEF FileTypes
<1>9. InPlace' /\ Statuses'
  BY <1>t, <1>u, <1>i DEF InPlace, Statuses
<1>o. /\ Rising(next, file) /\ Rising(next, todo) /\ Rising(next, rest) /\ Rising(next, buf)
      /\ Before(file, todo) /\ Before(file, rest) /\ Before(todo, rest)
  BY <1>t DEF InOrder
<1>v. \A i \in 1..Len(todo) : todo[i] \in Nat
  BY <1>i
<1>10. InOrder'
  <2>1. Rising(next, file')
    <3>1. ASSUME NEW i \in 1..Len(file') PROVE file'[i] \in 1..next
      <4>1. i > Len(file) /\ i - Len(file) \in 1..n => i - Len(file) \in 1..Len(todo)
        BY <1>l
      <4> QED BY <4>1, <1>6, <1>o DEF Rising
    <3>2. ASSUME NEW i \in 1..Len(file'), NEW j \in 1..Len(file'), i < j PROVE file'[i] < file'[j]
      <4>1. CASE j \in 1..Len(file) /\ file'[j] = file[j]
        <5>1. i \in 1..Len(file) /\ file'[i] = file[i]
          BY <3>2, <4>1, <1>6, <1>l, <1>1
        <5> QED BY <3>2, <4>1, <5>1, <1>o DEF Rising
      <4>2. CASE j > Len(file) /\ j - Len(file) \in 1..n /\ file'[j] = todo[j - Len(file)]
        <5>1. CASE i \in 1..Len(file) /\ file'[i] = file[i]
          <6>1. j - Len(file) \in 1..Len(todo)
            BY <4>2, <1>l
          <6>2. file[i] < todo[j - Len(file)]
            BY <5>1, <6>1, <1>o DEF Before
          <6> QED BY <4>2, <5>1, <6>2
        <5>2. CASE i > Len(file) /\ i - Len(file) \in 1..n /\ file'[i] = todo[i - Len(file)]
          <6>1. i - Len(file) < j - Len(file) /\ i - Len(file) \in 1..Len(todo) /\ j - Len(file) \in 1..Len(todo)
            <7>1. i \in Nat /\ j \in Nat /\ i < j
              BY <3>2, <1>l, <1>1
            <7> QED BY <4>2, <5>2, <7>1, <1>l
          <6>2. todo[i - Len(file)] < todo[j - Len(file)]
            BY <6>1, <1>o DEF Rising
          <6> QED BY <4>2, <5>2, <6>2
        <5> QED BY <5>1, <5>2, <1>6
      <4> QED BY <4>1, <4>2, <1>6
    <3> QED BY <3>1, <3>2 DEF Rising
  <2>2. Rising(next, todo')
    <3>1. \A i \in 1..Len(todo') : todo'[i] \in 1..next
      BY <1>7, <1>o, <1>l DEF Rising
    <3>2. ASSUME NEW i \in 1..Len(todo'), NEW j \in 1..Len(todo'), i < j PROVE todo'[i] < todo'[j]
      <4>1. n + i \in 1..Len(todo) /\ n + j \in 1..Len(todo) /\ n + i < n + j
        BY <3>2, <1>7, <1>l, <1>4
      <4>2. todo[n + i] < todo[n + j]
        BY <4>1, <1>o DEF Rising
      <4> QED BY <4>2, <1>7
    <3> QED BY <3>1, <3>2 DEF Rising
  <2>3. Before(file', todo')
    <3>1. ASSUME NEW i \in 1..Len(file'), NEW j \in 1..Len(todo') PROVE file'[i] < todo'[j]
      <4>1. n + j \in 1..Len(todo) /\ n + j > n /\ todo'[j] = todo[n + j]
        BY <1>7, <1>l, <1>4
      <4>2. CASE i \in 1..Len(file) /\ file'[i] = file[i]
        BY <4>1, <4>2, <1>o DEF Before
      <4>3. CASE i > Len(file) /\ i - Len(file) \in 1..n /\ file'[i] = todo[i - Len(file)]
        <5>1. i - Len(file) \in 1..Len(todo) /\ i - Len(file) < n + j
          BY <4>1, <4>3, <1>l
        <5>2. todo[i - Len(file)] < todo[n + j]
          BY <4>1, <5>1, <1>o DEF Rising
        <5> QED BY <4>1, <4>3, <5>2
      <4> QED BY <4>2, <4>3, <1>6
    <3> QED BY <3>1 DEF Before
  <2>4. Before(file', rest)
    <3>1. ASSUME NEW i \in 1..Len(file'), NEW j \in 1..Len(rest) PROVE file'[i] < rest[j]
      <4>1. CASE i \in 1..Len(file) /\ file'[i] = file[i]
        BY <4>1, <1>o DEF Before
      <4>2. CASE i > Len(file) /\ i - Len(file) \in 1..n /\ file'[i] = todo[i - Len(file)]
        <5>1. i - Len(file) \in 1..Len(todo)
          BY <4>2, <1>l
        <5> QED BY <4>2, <5>1, <1>o DEF Before
      <4> QED BY <4>1, <4>2, <1>6
    <3> QED BY <3>1 DEF Before
  <2>5. Before(todo', rest)
    <3>1. \A i \in 1..Len(todo') : todo'[i] = todo[n + i] /\ n + i \in 1..Len(todo)
      BY <1>7, <1>l
    <3> QED BY <3>1, <1>o DEF Before
  <2> QED BY <1>u, <1>i, <1>o, <2>1, <2>2, <2>3, <2>4, <2>5 DEF InOrder
<1>11. Complete'
  <2> SUFFICES ASSUME ~failed', st' = "ok" PROVE Complete'
    BY DEF Complete
  <2>1. /\ From(0, file) /\ From(Len(file), todo) /\ From(Len(file) + Len(todo), rest)
        /\ next = Len(file) + Len(todo) + Len(rest)
    BY <1>t, <1>u, <1>i DEF Complete
  <2>2. From(0, file')
    <3>1. ASSUME NEW i \in 1..Len(file') PROVE file'[i] = i
      <4>1. CASE i \in 1..Len(file) /\ file'[i] = file[i]
        BY <4>1, <2>1, <1>l DEF From
      <4>2. CASE i > Len(file) /\ i - Len(file) \in 1..n /\ file'[i] = todo[i - Len(file)]
        <5>1. i - Len(file) \in 1..Len(todo)
          BY <4>2, <1>l
        <5>2. todo[i - Len(file)] = Len(file) + (i - Len(file))
          BY <5>1, <2>1 DEF From
        <5> QED BY <4>2, <5>2, <1>l, <1>1
      <4> QED BY <4>1, <4>2, <1>6
    <3> QED BY <3>1, <1>1 DEF From
  <2>3. From(Len(file'), todo')
    <3>1. ASSUME NEW i \in 1..Len(todo') PROVE todo'[i] = Len(file') + i
      <4>1. n + i \in 1..Len(todo) /\ todo'[i] = todo[n + i]
        BY <1>7, <1>l
      <4>2. todo[n + i] = Len(file) + (n + i)
        BY <4>1, <2>1 DEF From
      <4> QED BY <4>1, <4>2, <1>1, <1>l
    <3> QED BY <3>1 DEF From
  <2>4. Len(file') + Len(todo') = Len(file) + Len(todo)
    BY <1>1, <1>4, <1>l
  <2>5. From(Len(file') + Len(todo'), rest')
    BY <2>1, <2>4, <1>u DEF From
  <2>6. next' = Len(file') + Len(todo') + Len(rest')
    BY <2>1, <2>4, <1>u
  <2> QED BY <2>2, <2>3, <2>5, <2>6, <1>u, <1>i DEF Complete
<1>12. SyncWritesDurableNames'
  <2>1. \A b \in ToSet(todo') : b \in ToSet(todo)
    <3>1. ASSUME NEW i \in 1..Len(todo') PROVE todo'[i] \in {todo[k] : k \in 1..Len(todo)}
      <4>1. n + i \in 1..Len(todo)
        BY <1>7, <1>l
      <4> QED BY <4>1, <1>7
    <3>2. ToSet(todo') = {todo'[i] : i \in 1..Len(todo')} /\ ToSet(todo) = {todo[i] : i \in 1..Len(todo)}
      <4>1. DOMAIN todo' = 1..Len(todo') /\ DOMAIN todo = 1..Len(todo)
        BY <1>4, <1>i
      <4> QED BY <4>1, Zenon DEF ToSet
    <3> QED BY <3>1, <3>2, Zenon
  <2> QED BY <1>t, <1>u, <2>1 DEF SyncWritesDurableNames
<1> QED BY <1>8, <1>9, <1>10, <1>11, <1>12 DEF FileInv

\* An error of write drops the buffer and what is left.
LEMMA WriteFailsStep ==
  ASSUME FileInv, WriteFails
  PROVE  FileInv'
<1>t. FileTypes /\ InPlace /\ Statuses /\ InOrder
  BY DEF FileInv
<1>1. /\ todo' = << >> /\ rest' = << >> /\ buf' = << >>
      /\ UNCHANGED <<isManifest, next, refers, file, clean, created, dirDurable>>
      /\ st' = "error" /\ pc' \in {"idle", "close"} /\ op' \in {"none", "close", "delete"}
      /\ pc' = "close" => op' \in {"close", "delete"}
      /\ (pc' = "idle" => failed') /\ failed' \in BOOLEAN /\ (failed => failed')
  BY <1>t DEF WriteFails, local, kernel, Return, FileTypes
<1>2. FileTypes'
  BY <1>t, <1>1, WritableAssumption DEF FileTypes
<1>3. InPlace' /\ Statuses'
  BY <1>t, <1>1 DEF InPlace, Statuses
<1>4. InOrder'
  BY <1>t, <1>1 DEF InOrder, Before, Rising
<1>5. Complete' /\ SyncWritesDurableNames'
  BY <1>1 DEF Complete, SyncWritesDurableNames
<1> QED BY <1>2, <1>3, <1>4, <1>5 DEF FileInv

\* The flush is done: what Append had left goes to the empty buffer or is
\* written directly, the other methods go on with nothing left.
LEMMA WriteDoneStep ==
  ASSUME FileInv, WriteDone
  PROVE  FileInv'
<1>t. FileTypes /\ InPlace /\ Statuses /\ InOrder /\ Complete /\ SyncWritesDurableNames
  BY DEF FileInv
<1>i. /\ pc = "write" /\ todo = << >> /\ st = "ok"
      /\ UNCHANGED <<isManifest, next, refers, file, clean, created, dirDurable>>
  BY <1>t DEF WriteDone, local, kernel, Statuses
<1>c. ~failed => /\ From(0, file) /\ From(Len(file), rest)
                 /\ next = Len(file) + Len(rest)
  <2>1. Len(todo) = 0 /\ Len(file) \in Nat /\ Len(rest) \in Nat
    BY <1>i, <1>t DEF FileTypes
  <2> QED BY <2>1, <1>i, <1>t DEF Complete, From
<1>1. CASE /\ op = "append" /\ Len(rest) < BufferSize
           /\ buf' = rest /\ rest' = << >> /\ Return("ok") /\ UNCHANGED todo
  <2>1. /\ pc' = "idle" /\ op' = "none" /\ st' = "ok" /\ failed' = failed
        /\ todo' = << >> /\ rest' = << >> /\ buf' = rest
    BY <1>1, <1>i, <1>t DEF Return, FileTypes
  <2>2. FileTypes'
    BY <1>t, <1>i, <1>1, <2>1, WritableAssumption DEF FileTypes
  <2>3. InPlace' /\ Statuses' /\ SyncWritesDurableNames'
    BY <1>t, <1>i, <2>1 DEF InPlace, Statuses, SyncWritesDurableNames
  <2>4. InOrder'
    BY <1>t, <1>i, <2>1 DEF InOrder, Before, Rising
  <2>5. Complete'
    BY <1>c, <1>i, <2>1 DEF Complete
  <2> QED BY <2>2, <2>3, <2>4, <2>5 DEF FileInv
<1>2. CASE /\ op = "append" /\ Len(rest) >= BufferSize
           /\ buf' = << >> /\ todo' = rest /\ rest' = << >> /\ UNCHANGED <<pc, op, st, failed>>
  <2>2. FileTypes'
    BY <1>t, <1>i, <1>2, WritableAssumption DEF FileTypes
  <2>3. InPlace' /\ Statuses' /\ SyncWritesDurableNames'
    BY <1>t, <1>i, <1>2 DEF InPlace, Statuses, SyncWritesDurableNames
  <2>4. InOrder'
    BY <1>t, <1>i, <1>2 DEF InOrder, Before, Rising
  <2>5. Complete'
    <3>1. From(Len(file') + Len(todo'), rest')
      BY <1>2 DEF From
    <3>2. ~failed => next' = Len(file') + Len(todo') + Len(rest')
      BY <1>c, <1>2, <1>i, <1>t DEF FileTypes
    <3> QED BY <1>c, <1>i, <1>2, <3>1, <3>2 DEF Complete
  <2> QED BY <2>2, <2>3, <2>4, <2>5 DEF FileInv
<1>3. CASE /\ op # "append" /\ buf' = << >> /\ UNCHANGED <<todo, rest>>
           /\ \/ op = "flush" /\ Return("ok")
              \/ /\ op \in {"sync", "close", "delete"}
                 /\ pc' = IF op = "sync" THEN "fsync" ELSE "close"
                 /\ UNCHANGED <<op, st, failed>>
  <2>0. rest = << >>
    BY <1>3, <1>t DEF InPlace
  <2>1. /\ pc' \in {"idle", "fsync", "close"} /\ op' \in {"none", "sync", "close", "delete"}
        /\ (pc' = "fsync" => op' = "sync") /\ st' = "ok" /\ failed' = failed
        /\ (pc' = "close" => op' \in {"close", "delete"})
        /\ todo' = << >> /\ rest' = << >> /\ buf' = << >>
    BY <1>3, <1>i, <1>t, <2>0 DEF Return, FileTypes
  <2>2. FileTypes'
    BY <1>t, <1>i, <2>1, WritableAssumption DEF FileTypes
  <2>3. InPlace' /\ Statuses' /\ SyncWritesDurableNames'
    BY <1>t, <1>i, <2>1 DEF InPlace, Statuses, SyncWritesDurableNames
  <2>4. InOrder'
    BY <1>t, <1>i, <2>1 DEF InOrder, Before, Rising
  <2>5. Complete'
    BY <1>c, <1>i, <2>0, <2>1 DEF Complete
  <2> QED BY <2>2, <2>3, <2>4, <2>5 DEF FileInv
<1> QED BY <1>1, <1>2, <1>3 DEF WriteDone

\* A step that moves no byte and neither begins nor ends a flush.
LEMMA QuietStep ==
  ASSUME FileInv,
         UNCHANGED <<isManifest, next, refers, buf, todo, rest, file, created>>,
         pc # "write", pc' # "write",
         FileTypes', InPlace', Statuses',
         ~failed' /\ st' = "ok" => ~failed /\ st = "ok"
  PROVE  FileInv'
<1>t. InOrder /\ Complete
  BY DEF FileInv
<1>1. InOrder'
  BY <1>t DEF InOrder, Before, Rising
<1>2. Complete'
  BY <1>t DEF Complete, From
<1>3. SyncWritesDurableNames'
  BY DEF SyncWritesDurableNames
<1> QED BY <1>1, <1>2, <1>3 DEF FileInv

\* Sync starts with the directory or with the flush.
LEMMA SyncStep ==
  ASSUME FileInv, Sync
  PROVE  FileInv'
<1>t. FileTypes /\ InPlace /\ Statuses
  BY DEF FileInv
<1>u. pc = "idle" /\ UNCHANGED <<isManifest, next, refers, buf, rest, file, durable, clean, created, dirDurable>>
  BY DEF Sync, local, kernel
<1>1. CASE isManifest
  <2>1. pc' = "syncdir" /\ op' = "sync" /\ st' = "ok" /\ failed' = failed /\ todo' = todo
    BY <1>1 DEF Sync, GoTo
  <2>2. FileTypes'
    BY <1>t, <1>u, <2>1 DEF FileTypes
  <2>3. InPlace' /\ Statuses'
    BY <1>t, <1>u, <2>1 DEF InPlace, Statuses
  <2>4. ~failed' /\ st' = "ok" => ~failed /\ st = "ok"
    BY <1>t, <1>u, <2>1 DEF Statuses, FileTypes
  <2> QED BY <1>u, <2>1, <2>2, <2>3, <2>4, QuietStep
<1>2. CASE ~isManifest
  <2>1. StartFlush("sync")
    BY <1>2 DEF Sync
  <2> QED BY <1>u, <1>2, <2>1, FlushStep
<1> QED BY <1>1, <1>2

\* The directory is synced before the flush, or Sync ends with an error.
LEMMA SyncDirStep ==
  ASSUME FileInv, SyncDir
  PROVE  FileInv'
<1>t. FileTypes /\ InPlace /\ Statuses
  BY DEF FileInv
<1>u. pc = "syncdir" /\ UNCHANGED <<isManifest, next, refers, buf, rest, file, durable, clean, created>>
  BY DEF SyncDir, local
<1>1. CASE dirDurable' = 1..created /\ StartFlush("sync")
  BY <1>u, <1>1, FlushStep
<1>2. CASE Return("error") /\ UNCHANGED <<todo, dirDurable>>
  <2>1. pc' = "idle" /\ op' = "none" /\ st' = "error" /\ failed' /\ failed' \in BOOLEAN /\ todo' = todo
    BY <1>2 DEF Return
  <2>2. FileTypes'
    BY <1>t, <1>u, <2>1 DEF FileTypes
  <2>3. InPlace' /\ Statuses'
    BY <1>t, <1>u, <2>1 DEF InPlace, Statuses
  <2> QED BY <1>u, <2>1, <2>2, <2>3, QuietStep
<1> QED BY <1>1, <1>2 DEF SyncDir

\* fsync moves no byte; its error is reported.
LEMMA SyncFdStep ==
  ASSUME FileInv, SyncFd
  PROVE  FileInv'
<1>t. FileTypes /\ InPlace /\ Statuses
  BY DEF FileInv
<1>u. pc = "fsync" /\ UNCHANGED <<isManifest, next, refers, buf, todo, rest, file, created, dirDurable>>
  BY DEF SyncFd, local
<1>1. /\ pc' = "idle" /\ op' = "none" /\ st' \in {"ok", "error"} /\ failed' \in BOOLEAN
      /\ (st' = "error" => failed') /\ (st' = "ok" => failed' = failed /\ clean' = clean)
  BY <1>t DEF SyncFd, Return, FileTypes
<1>2. FileTypes'
  BY <1>t, <1>u, <1>1 DEF FileTypes
<1>3. InPlace' /\ Statuses'
  BY <1>t, <1>u, <1>1 DEF InPlace, Statuses
<1>4. ~failed' /\ st' = "ok" => ~failed /\ st = "ok"
  BY <1>t, <1>u, <1>1 DEF Statuses
<1> QED BY <1>u, <1>1, <1>2, <1>3, <1>4, QuietStep

\* close moves no byte.
LEMMA CloseFdStep ==
  ASSUME FileInv, CloseFd
  PROVE  FileInv'
<1>t. FileTypes /\ InPlace /\ Statuses
  BY DEF FileInv
<1>u. pc = "close" /\ UNCHANGED <<isManifest, next, refers, buf, todo, rest, file, clean, created, dirDurable>>
  BY DEF CloseFd, local, kernel
<1>1. /\ pc' = "closed" /\ op' = op /\ st' \in {"ok", "error"} /\ failed' \in BOOLEAN
      /\ (failed => failed') /\ (st' = "ok" => st = "ok")
      /\ op = "close" /\ st' = "error" => failed'
  BY <1>t DEF CloseFd, FileTypes
<1>2. FileTypes'
  BY <1>t, <1>u, <1>1 DEF FileTypes
<1>3. InPlace' /\ Statuses'
  BY <1>t, <1>u, <1>1 DEF InPlace, Statuses
<1> QED BY <1>u, <1>1, <1>2, <1>3, QuietStep

\* Steps of the kernel and of other files, and steps that leave the file alone.
LEMMA OutsideStep ==
  ASSUME FileInv, CreateFile \/ WriteBack \/ UNCHANGED vars
  PROVE  FileInv'
<1>t. FileTypes /\ InPlace /\ Statuses /\ InOrder /\ Complete /\ SyncWritesDurableNames
  BY DEF FileInv
<1>1. /\ UNCHANGED <<isManifest, next, refers, buf, todo, rest, pc, op, st, failed, file, clean>>
      /\ created' \in Nat /\ created <= created' /\ dirDurable \subseteq dirDurable'
  <2>1. created \in Nat
    BY <1>t DEF FileTypes
  <2>2. UNCHANGED <<isManifest, next, refers, buf, todo, rest, pc, op, st, failed, file, clean>>
    BY DEF CreateFile, WriteBack, local, vars
  <2>3. created' \in Nat /\ created <= created' /\ dirDurable \subseteq dirDurable'
    BY <2>1 DEF CreateFile, WriteBack, vars
  <2> QED BY <2>2, <2>3
<1>2. FileTypes'
  BY <1>t, <1>1 DEF FileTypes
<1>3. InPlace' /\ Statuses'
  BY <1>t, <1>1 DEF InPlace, Statuses
<1>4. InOrder'
  BY <1>t, <1>1 DEF InOrder, Before, Rising
<1>5. Complete'
  BY <1>t, <1>1 DEF Complete, From
<1>6. SyncWritesDurableNames'
  BY <1>t, <1>1 DEF SyncWritesDurableNames
<1> QED BY <1>2, <1>3, <1>4, <1>5, <1>6 DEF FileInv

-----------------------------------------------------------------------------
\* Any call of a method, any step of a running one, and the steps around them.
FileAction ==
  \/ \E n \in Nat, f \in (1..created) \union {NoFile} : AppendData(n, f)
  \/ Flush \/ Sync
  \/ \E o \in {"close", "delete"} : Close(o)
  \/ MethodStep
  \/ CreateFile \/ WriteBack \/ UNCHANGED vars

\* The invariant of the file is inductive.
LEMMA FileStep ==
  ASSUME FileInv, FileAction
  PROVE  FileInv'
<1>1. CASE \E n \in Nat, f \in (1..created) \union {NoFile} : AppendData(n, f)
  BY <1>1, AppendStep
<1>2. CASE Flush
  <2>1. /\ pc \in {"idle", "syncdir"} /\ StartFlush("flush")
        /\ UNCHANGED <<isManifest, next, refers, buf, rest, file, durable, clean, created>>
    BY <1>2 DEF Flush, local, kernel
  <2> QED BY <2>1, FlushStep
<1>3. CASE Sync
  BY <1>3, SyncStep
<1>4. ASSUME NEW o \in {"close", "delete"}, Close(o) PROVE FileInv'
  <2>1. /\ pc \in {"idle", "syncdir"} /\ StartFlush(o)
        /\ UNCHANGED <<isManifest, next, refers, buf, rest, file, durable, clean, created>>
    BY <1>4 DEF Close, local, kernel
  <2>2. o \in {"flush", "sync", "close", "delete"} /\ o # "sync"
    OBVIOUS
  <2> QED BY <2>1, <2>2, FlushStep
<1>5. CASE MethodStep
  BY <1>5, SyncDirStep, WriteSomeStep, WriteFailsStep, WriteDoneStep, SyncFdStep, CloseFdStep
     DEF MethodStep
<1>6. CASE CreateFile \/ WriteBack \/ UNCHANGED vars
  BY <1>6, OutsideStep
<1> QED BY <1>1, <1>2, <1>3, <1>4, <1>5, <1>6 DEF FileAction

\* A Sync that returns OK without an earlier error finds the whole data in the
\* file and no page the kernel has given up.
LEMMA SyncFdDurable ==
  ASSUME FileInv, SyncFd, st' = "ok", ~failed
  PROVE  1..next \subseteq durable'
<1>t. FileTypes /\ InPlace /\ Statuses /\ Complete
  BY DEF FileInv
<1>1. pc = "fsync" /\ st = "ok" /\ buf = << >> /\ clean = {}
  BY <1>t DEF SyncFd, InPlace, Statuses
<1>2. From(0, file) /\ next = Len(file) /\ file \in Seq(Nat)
  BY <1>t, <1>1 DEF Complete, FileTypes
<1>3. durable' = durable \union (ToSet(file) \ clean)
  BY DEF SyncFd, Return
<1>4. ASSUME NEW b \in 1..next PROVE b \in ToSet(file)
  <2>1. b \in DOMAIN file /\ file[b] = b
    BY <1>2 DEF From
  <2> QED BY <2>1 DEF ToSet
<1> QED BY <1>1, <1>3, <1>4

\* A step of the method the function has called.
LEMMA MethodStepStage ==
  ASSUME FileInv, FileInv', StageInv, MethodStep, UNCHANGED svars
  PROVE  StageInv'
<1>t. FileTypes /\ InPlace /\ Statuses /\ StageTypes /\ MethodOfStage /\ StatusOfStage /\ PrefixOnly
  BY DEF FileInv, StageInv
<1>n. FileTypes' /\ InPlace' /\ Statuses' /\ Complete'
  BY DEF FileInv
<1>u. UNCHANGED <<shouldSync, size, stage, s, name, isManifest, next>>
  BY DEF svars, MethodStep, SyncDir, WriteSome, WriteFails, WriteDone, SyncFd, CloseFd, local
<1>p. pc \in {"syncdir", "write", "fsync", "close"} /\ durable \subseteq durable'
  BY DEF MethodStep, SyncDir, WriteSome, WriteFails, WriteDone, SyncFd, CloseFd, kernel
<1>1. StageTypes'
  BY <1>t, <1>u DEF StageTypes
<1>2. MethodOfStage'
  <2>1. stage \notin {"open", "append"}
    BY <1>t, <1>p DEF MethodOfStage
  <2>2. stage # "free" => pc' # "syncdir"
    BY <1>t, <1>p DEF MethodOfStage, MethodStep, SyncDir, WriteSome, WriteFails, WriteDone, SyncFd, CloseFd, Return
  <2>3. stage = "appended" => pc' = "idle" \/ (pc' = "write" /\ op' = "append")
    BY <1>t, <1>p DEF MethodOfStage, MethodStep, SyncDir, WriteSome, WriteFails, WriteDone, SyncFd, CloseFd, Return
  <2>4. stage = "synced" => pc' = "idle" \/ (pc' \in {"write", "fsync"} /\ op' = "sync")
    BY <1>t, <1>p DEF MethodOfStage, MethodStep, SyncDir, WriteSome, WriteFails, WriteDone, SyncFd, CloseFd, Return
  <2>5. stage = "closed" => pc' = "closed" \/ (pc' \in {"write", "close"} /\ op' = "close")
    BY <1>t, <1>p DEF MethodOfStage, MethodStep, SyncDir, WriteSome, WriteFails, WriteDone, SyncFd, CloseFd, Return
  <2> QED BY <1>u, <2>1, <2>2, <2>3, <2>4, <2>5 DEF MethodOfStage
<1>3. stage \in {"appended", "synced", "closed"} /\ st' = "ok" => ~failed'
  <2>1. stage \in {"appended", "synced", "closed"} /\ st = "ok" => ~failed
    BY <1>t DEF StatusOfStage
  <2>2. stage \in {"appended", "synced", "closed"} /\ st = "error" => pc = "close"
    BY <1>t, <1>p DEF MethodOfStage, Statuses, FileTypes
  <2>3. MethodStep /\ st' = "ok" /\ st = "ok" => failed' = failed
    BY <1>t DEF MethodStep, SyncDir, WriteSome, WriteFails, WriteDone, SyncFd, CloseFd, Return,
                StartFlush, GoTo, FileTypes
  <2>4. pc = "close" /\ st' = "ok" => st = "ok"
    BY <1>t DEF MethodStep, SyncDir, WriteSome, WriteFails, WriteDone, SyncFd, CloseFd, FileTypes
  <2> QED BY <2>1, <2>2, <2>3, <2>4, <1>t DEF FileTypes
<1>4. stage = "synced" /\ pc' = "idle" /\ st' = "ok" => 1..size \subseteq durable'
  <2> SUFFICES ASSUME stage = "synced", pc' = "idle", st' = "ok" PROVE 1..size \subseteq durable'
    OBVIOUS
  <2>1. pc \in {"write", "fsync"} /\ op = "sync" /\ st = "ok" /\ ~failed /\ next = size
    BY <1>t, <1>p DEF MethodOfStage, StatusOfStage, Statuses
  <2>2. SyncFd
    BY <2>1 DEF MethodStep, SyncDir, WriteSome, WriteFails, WriteDone, CloseFd, Return
  <2> QED BY <2>1, <2>2, SyncFdDurable
<1>5. stage \in {"deleted", "done"} => s # "ok"
  BY <1>t, <1>p DEF StatusOfStage
<1>6. StatusOfStage'
  BY <1>t, <1>u, <1>p, <1>3, <1>4, <1>5 DEF StatusOfStage
<1>7. PrefixOnly'
  <2> SUFFICES ASSUME stage # "free" PROVE PrefixOnly'
    BY <1>u DEF PrefixOnly
  <2>0. /\ From(0, file) /\ pc # "syncdir"
        /\ failed \/ st = "error" => buf = << >> /\ todo = << >> /\ rest = << >>
    BY <1>t DEF PrefixOnly, MethodOfStage
  <2>1. CASE ~failed' /\ st' = "ok"
    BY <2>1, <1>n DEF PrefixOnly, Complete
  <2>2. CASE failed' \/ st' = "error"
    <3>1. CASE WriteSome
      <4>1. FALSE
        BY <2>0, <2>2, <3>1, <1>t DEF WriteSome, FileTypes
      <4> QED BY <4>1
    <3>2. CASE WriteFails
      <4>1. file' = file /\ buf' = << >> /\ todo' = << >> /\ rest' = << >>
        BY <3>2 DEF WriteFails, kernel
      <4> QED BY <2>0, <4>1 DEF PrefixOnly
    <3>3. CASE WriteDone
      <4>1. file' = file /\ failed /\ rest = << >>
        BY <2>0, <2>2, <3>3, <1>t DEF WriteDone, kernel, Return, FileTypes, Statuses
      <4>2. buf' = << >> /\ todo' = << >> /\ rest' = << >>
        BY <2>0, <4>1, <3>3 DEF WriteDone
      <4> QED BY <2>0, <4>1, <4>2 DEF PrefixOnly
    <3>4. CASE SyncFd \/ CloseFd
      <4>1. UNCHANGED <<file, buf, todo, rest>> /\ pc \in {"fsync", "close"}
        BY <3>4 DEF SyncFd, CloseFd, kernel
      <4>2. buf = << >> /\ todo = << >> /\ rest = << >>
        BY <4>1, <1>t DEF InPlace
      <4> QED BY <2>0, <4>1, <4>2 DEF PrefixOnly
    <3>5. ~SyncDir
      BY <2>0 DEF SyncDir
    <3> QED BY <3>1, <3>2, <3>3, <3>4, <3>5 DEF MethodStep
  <2> QED BY <2>1, <2>2, <1>n DEF FileTypes
<1> QED BY <1>1, <1>2, <1>6, <1>7 DEF StageInv

\* The steps of DoWriteStringToFile itself.
LEMMA FunctionStepStage ==
  ASSUME FileInv, FileInv', StageInv, WStep
  PROVE  StageInv'
<1>t. FileTypes /\ InPlace /\ Statuses /\ StageTypes /\ MethodOfStage /\ StatusOfStage /\ PrefixOnly
  BY DEF FileInv, StageInv
<1>n. FileTypes' /\ InPlace' /\ Statuses' /\ Complete'
  BY DEF FileInv
<1>1. CASE OpenFile
  <2>u. /\ stage = "open" /\ stage' \in {"append", "done"} /\ UNCHANGED <<shouldSync, size>>
        /\ UNCHANGED <<isManifest, next, buf, todo, rest, pc, op, st, failed, file, durable>>
        /\ stage' = "append" => name' = "new" /\ s' = s
        /\ stage' = "done" => name' = name /\ s' = "error"
    BY <1>1 DEF OpenFile, At, vars
  <2>1. StageTypes' /\ MethodOfStage' /\ StatusOfStage'
    BY <1>t, <2>u DEF StageTypes, MethodOfStage, StatusOfStage
  <2>2. PrefixOnly'
    BY <1>t, <2>u DEF PrefixOnly, From
  <2> QED BY <2>1, <2>2 DEF StageInv
<1>2. CASE CallAppend
  <2>u. /\ stage = "append" /\ stage' = "appended" /\ UNCHANGED <<shouldSync, size, s, name, isManifest>>
        /\ next' = next + size /\ pc = "idle"
    BY <1>2 DEF CallAppend, At, AppendData
  <2>s. ~failed /\ st = "ok" /\ next = 0 /\ name = "new" /\ s = "ok"
    BY <1>t, <2>u DEF MethodOfStage, StatusOfStage
  <2>a. /\ st' = "ok" /\ failed' = FALSE
        /\ pc' = "idle" \/ (pc' = "write" /\ op' = "append")
    <3>1. Return("ok") \/ GoTo("write", "append")
      BY <1>2, Zenon DEF CallAppend, AppendData
    <3> QED BY <3>1, <2>s, <1>t DEF Return, GoTo, FileTypes
  <2>b. next' = size
    BY <1>t, <2>u, <2>s DEF StageTypes
  <2>1. StageTypes' /\ MethodOfStage' /\ StatusOfStage'
    BY <1>t, <2>u, <2>s, <2>a, <2>b DEF StageTypes, MethodOfStage, StatusOfStage
  <2>2. PrefixOnly'
    BY <1>n, <2>a DEF PrefixOnly, Complete
  <2> QED BY <2>1, <2>2 DEF StageInv
<1>3. ASSUME NEW o \in {"sync", "close", "delete"}, StartFlush(o), pc = "idle",
             UNCHANGED <<shouldSync, size, name, isManifest, next, buf, rest, file, durable>>,
             stage \in {"appended", "synced"},
             \/ o = "sync" /\ stage' = "synced" /\ st = "ok" /\ s' = s
             \/ /\ o = "close" /\ stage' = "closed" /\ st = "ok" /\ s' = s
                /\ stage = "synced" \/ ~shouldSync
             \/ o = "delete" /\ stage' = "deleted" /\ s' = "error"
      PROVE  StageInv'
  <2>a. todo' = buf /\ pc' = "write" /\ op' = o /\ st' = "ok" /\ failed' = failed
    BY <1>3 DEF StartFlush, GoTo
  <2>s. next = size /\ s = "ok" /\ name = "new" /\ (st = "ok" => ~failed)
    BY <1>3, <1>t DEF StatusOfStage
  <2>1. StageTypes' /\ MethodOfStage'
    BY <1>t, <1>3, <2>a DEF StageTypes, MethodOfStage
  <2>2. StatusOfStage'
    BY <1>t, <1>3, <2>a, <2>s DEF StatusOfStage
  <2>3. PrefixOnly'
    BY <1>t, <1>3, <2>a DEF PrefixOnly, From
  <2> QED BY <2>1, <2>2, <2>3 DEF StageInv
<1>4. CASE CallSync
  <2>1. /\ StartFlush("sync") /\ pc = "idle" /\ stage = "appended" /\ stage' = "synced" /\ st = "ok"
        /\ UNCHANGED <<shouldSync, size, name, isManifest, next, buf, rest, file, durable, s>>
    BY <1>4, <1>t DEF CallSync, At, Sync, local, kernel, StageTypes
  <2> QED BY <2>1, <1>3
<1>5. CASE CallClose
  <2>1. /\ StartFlush("close") /\ pc = "idle" /\ stage \in {"appended", "synced"} /\ stage' = "closed"
        /\ st = "ok" /\ (stage = "synced" \/ ~shouldSync)
        /\ UNCHANGED <<shouldSync, size, name, isManifest, next, buf, rest, file, durable, s>>
    BY <1>5, <1>t DEF CallClose, At, Close, local, kernel
  <2> QED BY <2>1, <1>3
<1>6. CASE DeleteOpenFile
  <2>1. /\ StartFlush("delete") /\ pc = "idle" /\ stage \in {"appended", "synced"} /\ stage' = "deleted"
        /\ s' = "error"
        /\ UNCHANGED <<shouldSync, size, name, isManifest, next, buf, rest, file, durable>>
    BY <1>6, <1>t DEF DeleteOpenFile, Close, local, kernel
  <2> QED BY <2>1, <1>3
<1>7. CASE DeleteClosedFile \/ Finish
  <2>u. /\ UNCHANGED <<isManifest, next, buf, todo, rest, pc, op, st, failed, file, durable, shouldSync, size>>
        /\ pc = "closed" /\ stage \in {"closed", "deleted"}
        /\ stage = "closed" => stage' = "deleted" /\ s' = st /\ name' = name
        /\ stage = "deleted" => /\ stage' = "done" /\ s' = s
                                /\ name' \in IF s = "ok" THEN {name} ELSE {"absent", "not_removed"}
    <3>1. CASE DeleteClosedFile
      BY <3>1 DEF DeleteClosedFile, At, vars
    <3>2. CASE Finish
      BY <3>2 DEF Finish, At, vars
    <3> QED BY <1>7, <3>1, <3>2
  <2>1. StageTypes' /\ MethodOfStage'
    BY <1>t, <2>u DEF StageTypes, MethodOfStage, FileTypes
  <2>2. StatusOfStage'
    BY <1>t, <2>u DEF StatusOfStage, FileTypes, StageTypes
  <2>3. PrefixOnly'
    BY <1>t, <2>u DEF PrefixOnly, From
  <2> QED BY <2>1, <2>2, <2>3 DEF StageInv
<1> QED BY <1>1, <1>2, <1>4, <1>5, <1>6, <1>7 DEF WStep

\* All other steps: a client without the function, the kernel, and the reader.
LEMMA OtherStepStage ==
  ASSUME FileInv, StageInv, UNCHANGED svars,
         \/ stage = "free" /\ (ClientCall \/ CreateFile)
         \/ WriteBack
         \/ UNCHANGED vars
  PROVE  StageInv'
<1>t. StageTypes /\ MethodOfStage /\ StatusOfStage /\ PrefixOnly
  BY DEF StageInv
<1>u. UNCHANGED <<shouldSync, size, stage, s, name>>
  BY DEF svars
<1>1. CASE stage = "free"
  BY <1>1, <1>t, <1>u DEF StageInv, StageTypes, MethodOfStage, StatusOfStage, PrefixOnly
<1>2. CASE WriteBack \/ UNCHANGED vars
  <2>1. /\ UNCHANGED <<isManifest, next, buf, todo, rest, pc, op, st, failed, file>>
        /\ durable \subseteq durable'
    BY <1>2 DEF WriteBack, local, vars
  <2>2. StageTypes' /\ MethodOfStage'
    BY <1>t, <1>u, <2>1 DEF StageTypes, MethodOfStage
  <2>3. StatusOfStage'
    BY <1>t, <1>u, <2>1 DEF StatusOfStage
  <2>4. PrefixOnly'
    BY <1>t, <1>u, <2>1 DEF PrefixOnly, From
  <2> QED BY <2>2, <2>3, <2>4 DEF StageInv
<1> QED BY <1>1, <1>2

-----------------------------------------------------------------------------
\* What read() returns lies in the file, and is 0 only at its end.
LEMMA ReadInFile ==
  ASSUME pos \in Nat, file \in Seq(Nat), NEW n \in Nat \ {0}, NEW r \in ReadSizes(n)
  PROVE  /\ r \in Nat /\ (r = 0 => pos >= Len(file))
         /\ \A i \in 1..r : pos + i \in 1..Len(file)
         /\ pos <= Len(file) => pos + r <= Len(file)
<1>t. Len(file) \in Nat
  OBVIOUS
<1>1. CASE pos >= Len(file)
  BY <1>1, <1>t DEF ReadSizes
<1>2. CASE ~(pos >= Len(file))
  <2>1. Len(file) - pos \in Nat /\ pos < Len(file)
    BY <1>2, <1>t
  <2>2. Min({n, Len(file) - pos}) = IF n <= Len(file) - pos THEN n ELSE Len(file) - pos
    BY <2>1, MinOfTwo
  <2>3. r \in 1..Min({n, Len(file) - pos})
    BY <1>2 DEF ReadSizes
  <2>4. r \in Nat /\ r > 0 /\ r <= Len(file) - pos
    BY <2>1, <2>2, <2>3
  <2> QED BY <2>1, <2>4, <1>t
<1> QED BY <1>1, <1>2

\* A Read delivers the next bytes of the file, and none only at its end.
LEMMA ReadDelivers ==
  ASSUME ReaderTypes, Deliveries, ~strayed, file \in Seq(Nat), From(0, file),
         NEW n \in Nat \ {0}, NEW r \in ReadSizes(n), Read(r)
  PROVE  /\ got' \in Seq(Nat \X Nat) /\ Deliveries'
         /\ pos' = pos + (Len(got') - Len(got))
         /\ r = 0 => Len(got') = Len(got)
<1>t. pos \in Nat /\ got \in Seq(Nat \X Nat) /\ skipped \subseteq 1..pos /\ Len(got) \in Nat /\ Len(file) \in Nat
  BY DEF ReaderTypes, Deliveries
<1>1. pos' = pos + r /\ got' = got \o Delivered(r) /\ skipped' = skipped
  BY DEF Read
<1>2. /\ r \in Nat /\ (r = 0 => pos >= Len(file))
      /\ \A i \in 1..r : pos + i \in 1..Len(file)
  BY <1>t, ReadInFile
<1>3. ASSUME NEW i \in 1..r PROVE file[pos + i] = pos + i
  <2>1. pos + i \in 1..Len(file)
    BY <1>2
  <2> QED BY <2>1, <1>t DEF From
<1>4. Delivered(r) \in Seq(Nat \X Nat) /\ Len(Delivered(r)) = r
      /\ \A i \in 1..r : Delivered(r)[i] = <<pos + i, pos + i>>
  <2>1. Delivered(r) = [i \in 1..r |-> <<pos + i, pos + i>>]
    BY <1>3 DEF Delivered
  <2> QED BY <2>1, <1>2, <1>t
<1>5. ASSUME NEW a \in Seq(Nat \X Nat), NEW b \in Seq(Nat \X Nat)
      PROVE  /\ a \o b \in Seq(Nat \X Nat) /\ Len(a \o b) = Len(a) + Len(b)
             /\ \A i \in 1..(Len(a) + Len(b)) :
                  (a \o b)[i] = IF i <= Len(a) THEN a[i] ELSE b[i - Len(a)]
  OBVIOUS
<1>6. /\ got' \in Seq(Nat \X Nat) /\ Len(got') = Len(got) + r
      /\ \A i \in 1..(Len(got) + r) : got'[i] = IF i <= Len(got) THEN got[i] ELSE Delivered(r)[i - Len(got)]
  BY <1>t, <1>1, <1>4, <1>5
<1>e. ASSUME NEW i \in 1..Len(got) PROVE i \in 1..Len(got') /\ got'[i] = got[i]
  <2>1. i \in 1..(Len(got) + r) /\ i <= Len(got)
    BY <1>t, <1>2
  <2> QED BY <2>1, <1>6
<1>7. ASSUME NEW i \in 1..Len(got')
      PROVE  \/ i \in 1..Len(got) /\ got'[i] = got[i]
             \/ /\ i > Len(got) /\ i - Len(got) \in 1..r
                /\ got'[i] = <<pos + (i - Len(got)), pos + (i - Len(got))>>
  <2>1. i \in 1..(Len(got) + r)
    BY <1>6
  <2>2. CASE i <= Len(got)
    BY <2>1, <2>2, <1>e, <1>t
  <2>3. CASE i > Len(got)
    <3>1. i - Len(got) \in 1..r
      BY <2>1, <2>3, <1>t, <1>2
    <3>2. got'[i] = Delivered(r)[i - Len(got)]
      BY <2>1, <2>3, <1>6, <1>t
    <3> QED BY <2>3, <3>1, <3>2, <1>4
  <2> QED BY <2>1, <2>2, <2>3, <1>t
<1>8. skipped' \subseteq 1..pos' /\ pos' \in Nat
  BY <1>t, <1>1, <1>2
<1>d. \A i \in 1..Len(got) : /\ got[i][1] \in (1..pos) \ skipped /\ got[i][2] = got[i][1]
                             /\ i > 1 => got[i - 1][1] < got[i][1]
  BY DEF Deliveries
<1>9. ASSUME NEW i \in 1..Len(got')
      PROVE  /\ got'[i][1] \in (1..pos') \ skipped' /\ got'[i][2] = got'[i][1]
             /\ i > 1 => got'[i - 1][1] < got'[i][1]
  <2>1. CASE i \in 1..Len(got) /\ got'[i] = got[i]
    <3>1. got'[i][1] \in (1..pos') \ skipped' /\ got'[i][2] = got'[i][1]
      <4>1. got[i][1] \in 1..pos /\ got[i][1] \notin skipped /\ got[i][2] = got[i][1]
        BY <2>1, <1>d
      <4>2. got[i][1] \in 1..pos'
        BY <4>1, <1>1, <1>2, <1>t
      <4> QED BY <1>1, <2>1, <4>1, <4>2
    <3>2. i > 1 => i - 1 \in 1..Len(got) /\ got'[i - 1] = got[i - 1]
      <4>1. i > 1 => i - 1 \in 1..Len(got)
        BY <2>1, <1>t
      <4> QED BY <4>1, <1>e
    <3> QED BY <2>1, <3>1, <3>2, <1>d
  <2>2. CASE /\ i > Len(got) /\ i - Len(got) \in 1..r
             /\ got'[i] = <<pos + (i - Len(got)), pos + (i - Len(got))>>
    <3>1. got'[i][1] = pos + (i - Len(got)) /\ got'[i][2] = pos + (i - Len(got))
      BY <2>2
    <3>2. got'[i][1] \in (1..pos') \ skipped'
      BY <2>2, <3>1, <1>t, <1>1, <1>2
    <3>3. ASSUME i > 1 PROVE got'[i - 1][1] < got'[i][1]
      <4>0. i - 1 \in 1..Len(got')
        BY <3>3, <1>6, <1>t, <1>2
      <4>1. CASE i - 1 \in 1..Len(got) /\ got'[i - 1] = got[i - 1]
        <5>1. got[i - 1][1] \in 1..pos
          BY <4>1, <1>d
        <5> QED BY <2>2, <3>1, <4>1, <5>1, <1>t
      <4>2. CASE /\ i - 1 > Len(got) /\ (i - 1) - Len(got) \in 1..r
                 /\ got'[i - 1] = <<pos + ((i - 1) - Len(got)), pos + ((i - 1) - Len(got))>>
        <5>1. got'[i - 1][1] = pos + ((i - 1) - Len(got))
          BY <4>2
        <5> QED BY <3>1, <5>1, <1>t, <4>0
      <4> QED BY <4>0, <4>1, <4>2, <1>7
    <3> QED BY <3>1, <3>2, <3>3
  <2> QED BY <2>1, <2>2, <1>7
<1>10. ASSUME NEW k \in 1..pos' PROVE k \in skipped' \/ \E i \in 1..Len(got') : got'[i][1] = k
  <2>1. CASE k <= pos
    <3>1. k \in skipped \/ \E i \in 1..Len(got) : got[i][1] = k
      BY <2>1, <1>t DEF Deliveries
    <3>2. \A i \in 1..Len(got) : i \in 1..Len(got') /\ got'[i] = got[i]
      BY <1>e
    <3> QED BY <1>1, <3>1, <3>2
  <2>2. CASE k > pos
    <3>1. k - pos \in 1..r /\ Len(got) + (k - pos) \in 1..Len(got')
      BY <2>2, <1>t, <1>1, <1>2, <1>6
    <3>2. got'[Len(got) + (k - pos)] = Delivered(r)[k - pos]
      <4>1. Len(got) + (k - pos) > Len(got) /\ (Len(got) + (k - pos)) - Len(got) = k - pos
        BY <3>1, <1>t
      <4> QED BY <3>1, <4>1, <1>6
    <3>3. Delivered(r)[k - pos] = <<pos + (k - pos), pos + (k - pos)>> /\ pos + (k - pos) = k
      BY <3>1, <1>4, <1>t
    <3> QED BY <3>1, <3>2, <3>3
  <2> QED BY <2>1, <2>2, <1>t, <1>8
<1>11. Deliveries'
  BY <1>8, <1>9, <1>10 DEF Deliveries
<1>12. r = 0 => Len(got') = Len(got)
  BY <1>6, <1>2, <1>t
<1>13. pos' = pos + (Len(got') - Len(got))
  BY <1>1, <1>6, <1>2, <1>t
<1> QED BY <1>6, <1>11, <1>12, <1>13

\* Read, by a client or in ReadFileToString's loop.
LEMMA ReadKeeps ==
  ASSUME FileInv, StageInv, ReaderInv, UNCHANGED allvars,
         NEW n \in Nat \ {0}, NEW r \in ReadSizes(n), Read(r),
         reader \in {"client", "string"}, UNCHANGED atOpen,
         \/ reader = "client" /\ reader' = reader
         \/ reader = "string" /\ reader' = IF r = 0 THEN "done" ELSE "string"
  PROVE  ReaderInv'
<1>t. ReaderTypes /\ Ordered /\ Covered /\ Progress /\ PrefixOnly /\ file \in Seq(Nat) /\ Len(file) \in Nat
  BY DEF FileInv, FileTypes, StageInv, ReaderInv
<1>g. Len(got) \in Nat /\ pos \in Nat /\ atOpen \in Nat /\ got \in Seq(Nat \X Nat)
  BY <1>t DEF ReaderTypes
<1>u. file' = file /\ stage' = stage
  BY DEF allvars, vars, svars
<1>f. From(0, file) /\ stage # "free" /\ atOpen <= Len(file)
  BY <1>t DEF Progress, PrefixOnly
<1>r. /\ r \in Nat /\ (r = 0 => pos >= Len(file))
      /\ pos <= Len(file) => pos + r <= Len(file)
  BY <1>t, <1>g, ReadInFile
<1>d. /\ pos' = pos + r /\ rstatus' = "ok" /\ skipped' = skipped /\ strayed' = strayed
      /\ strayed => got' = got
  BY DEF Read
<1>1. CASE strayed
  <2>1. reader = "client" /\ reader' = "client"
    BY <1>1, <1>t DEF Progress
  <2>2. ReaderTypes'
    BY <1>1, <1>t, <1>g, <1>r, <1>d, <2>1 DEF ReaderTypes
  <2>3. Ordered' /\ Covered'
    BY <1>1, <1>t, <1>d DEF Ordered, Covered
  <2>4. Progress'
    BY <1>u, <1>f, <2>1 DEF Progress
  <2> QED BY <2>2, <2>3, <2>4 DEF ReaderInv
<1>2. CASE ~strayed
  <2>0. Deliveries /\ pos <= Len(file)
    BY <1>2, <1>t DEF Covered
  <2>1. /\ got' \in Seq(Nat \X Nat) /\ Deliveries'
        /\ pos' = pos + (Len(got') - Len(got)) /\ (r = 0 => Len(got') = Len(got))
    BY <1>2, <1>t, <1>f, <2>0, ReadDelivers
  <2>2. ReaderTypes'
    <3>1. pos' \in Nat /\ atOpen' \in Nat /\ strayed' \in BOOLEAN
      BY <1>t, <1>g, <1>r, <1>d DEF ReaderTypes
    <3>2. reader' \in {"none", "string", "client", "done"} /\ rstatus' \in {"ok", "error"}
      BY <1>d
    <3> QED BY <2>1, <3>1, <3>2 DEF ReaderTypes
  <2>3. Ordered'
    <3>1. Deliveries' => Ordered'
      BY DEF Deliveries, Ordered
    <3> QED BY <2>1, <3>1
  <2>4. Covered'
    <3>1. pos' <= Len(file')
      BY <1>d, <1>r, <1>u, <2>0
    <3> QED BY <2>1, <3>1 DEF Covered
  <2>5. reader = "string" => pos' = Len(got')
    <3>1. Len(got') \in Nat
      BY <2>1
    <3>2. reader = "string" => pos = Len(got)
      BY <1>t DEF Progress
    <3>3. ASSUME NEW a \in Nat, NEW b \in Nat PROVE a + (b - a) = b
      OBVIOUS
    <3> QED BY <2>1, <3>1, <3>2, <3>3, <1>g
  <2>6. reader' = "done" => Len(got') >= atOpen
    <3>1. reader' = "done" => reader = "string" /\ r = 0
      OBVIOUS
    <3>2. reader = "string" => pos = Len(got)
      BY <1>t DEF Progress
    <3>3. reader' = "done" => Len(got') = Len(got) /\ pos = Len(got) /\ pos >= Len(file)
      BY <2>1, <1>r, <3>1, <3>2
    <3> QED BY <1>f, <3>3, <1>t, <1>g
  <2>7. reader' # "none" /\ (reader' = "string" => reader = "string")
    OBVIOUS
  <2>8. Progress'
    BY <1>2, <1>d, <1>u, <1>f, <2>5, <2>6, <2>7 DEF Progress
  <2> QED BY <2>2, <2>3, <2>4, <2>8 DEF ReaderInv
<1> QED BY <1>1, <1>2

\* A Skip that fails changes nothing, one that strays leaves the account as it
\* was, and any other adds what it passes over.
LEMMA SkipKeeps ==
  ASSUME FileInv, ReaderInv, UNCHANGED allvars, NEW n \in Nat, Skip(n),
         reader = "client", UNCHANGED <<reader, atOpen>>
  PROVE  ReaderInv'
<1>t. ReaderTypes /\ Ordered /\ Covered /\ Progress /\ Len(file) \in Nat
  BY DEF FileInv, FileTypes, ReaderInv
<1>g. pos \in Nat /\ atOpen \in Nat /\ got \in Seq(Nat \X Nat) /\ strayed \in BOOLEAN
  BY <1>t DEF ReaderTypes
<1>u. file' = file /\ stage' = stage
  BY DEF allvars, vars, svars
<1>p. Progress'
  BY <1>t, <1>u DEF Progress
<1>1. CASE /\ rstatus' = "error"
           /\ UNCHANGED <<pos, got, skipped, strayed>>
  <2>1. ReaderTypes' /\ Ordered' /\ Covered'
    BY <1>1, <1>t, <1>u DEF ReaderTypes, Ordered, Covered, Deliveries
  <2> QED BY <2>1, <1>p DEF ReaderInv
<1>2. ASSUME NEW to \in 0..OffMax, pos' = to, rstatus' = "ok", got' = got,
             strayed' = (strayed \/ to \notin pos..Len(file)),
             skipped' = IF strayed' THEN skipped ELSE skipped \union ((pos + 1)..to)
      PROVE  ReaderInv'
  <2>0. to \in Nat
    BY <1>2, ReadAssumption
  <2>1. ReaderTypes'
    BY <1>2, <1>t, <2>0 DEF ReaderTypes
  <2>2. CASE strayed'
    <3>1. Ordered' /\ Covered'
      BY <1>2, <2>2, <1>t DEF Ordered, Covered
    <3> QED BY <2>1, <3>1, <1>p DEF ReaderInv
  <2>3. CASE ~strayed'
    <3>1. ~strayed /\ pos <= to /\ to <= Len(file) /\ skipped' = skipped \union ((pos + 1)..to)
      <4>1. ~strayed /\ to \in pos..Len(file)
        BY <1>2, <2>3, Zenon
      <4>2. skipped' = skipped \union ((pos + 1)..to)
        BY <1>2, <2>3, Zenon
      <4> QED BY <4>1, <4>2, <2>0, <1>g, <1>t
    <3>2. Deliveries
      BY <3>1, <1>t DEF Covered
    <3>3. skipped' \subseteq 1..to
      BY <3>1, <3>2, <2>0, <1>g DEF Deliveries
    <3>4. ASSUME NEW i \in 1..Len(got)
          PROVE  /\ got[i][1] \in (1..to) \ skipped' /\ got[i][2] = got[i][1]
                 /\ i > 1 => got[i - 1][1] < got[i][1]
      <4>1. /\ got[i][1] \in 1..pos /\ got[i][1] \notin skipped /\ got[i][2] = got[i][1]
            /\ i > 1 => got[i - 1][1] < got[i][1]
        BY <3>2 DEF Deliveries
      <4>2. got[i][1] \in 1..to /\ got[i][1] \notin (pos + 1)..to
        BY <4>1, <3>1, <2>0, <1>g
      <4> QED BY <4>1, <4>2, <3>1
    <3>5. ASSUME NEW k \in 1..to PROVE k \in skipped' \/ \E i \in 1..Len(got) : got[i][1] = k
      <4>1. CASE k <= pos
        <5>1. k \in 1..pos
          BY <4>1, <1>g, <2>0
        <5> QED BY <5>1, <3>1, <3>2 DEF Deliveries
      <4>2. CASE k > pos
        BY <4>2, <3>1, <2>0, <1>g
      <4> QED BY <4>1, <4>2, <1>g, <2>0
    <3>6. Deliveries'
      BY <1>2, <3>3, <3>4, <3>5 DEF Deliveries
    <3>7. Ordered'
      <4>1. Deliveries' => Ordered'
        BY DEF Deliveries, Ordered
      <4> QED BY <3>6, <4>1
    <3>8. Covered'
      BY <1>2, <1>u, <3>1, <3>6 DEF Covered
    <3> QED BY <2>1, <3>7, <3>8, <1>p DEF ReaderInv
  <2> QED BY <2>2, <2>3
<1> QED BY <1>1, <1>2 DEF Skip

\* The steps of the reader.
LEMMA ReaderStepReader ==
  ASSUME FileInv, StageInv, ReaderInv, ReaderStep, UNCHANGED allvars
  PROVE  ReaderInv'
<1>t. ReaderTypes /\ Ordered /\ Covered /\ Progress /\ Len(file) \in Nat
  BY DEF FileInv, FileTypes, ReaderInv
<1>u. file' = file /\ stage' = stage
  BY DEF allvars, vars, svars
<1>1. ASSUME NEW who \in {"string", "client"}, Open(who) PROVE ReaderInv'
  <2>1. /\ stage # "free" /\ reader = "none" /\ UNCHANGED <<pos, got, skipped, strayed>>
        /\ atOpen' = Len(file)
        /\ \/ reader' = who /\ rstatus' = rstatus
           \/ reader' = "done" /\ rstatus' = "error"
    BY <1>1 DEF Open
  <2>2. pos = 0 /\ got = << >> /\ Len(got) = 0 /\ ~strayed
    BY <2>1, <1>t DEF Progress
  <2>3. ReaderTypes'
    BY <2>1, <1>t DEF ReaderTypes
  <2>4. Ordered' /\ Covered'
    BY <2>1, <1>t, <1>u DEF Ordered, Covered, Deliveries
  <2>5. Progress'
    BY <2>1, <2>2, <1>t, <1>u DEF Progress
  <2> QED BY <2>3, <2>4, <2>5 DEF ReaderInv
<1>2. ASSUME ReadError, UNCHANGED atOpen,
             \/ reader = "client" /\ reader' = reader
             \/ reader = "string" /\ reader' = "done"
      PROVE  ReaderInv'
  <2>1. rstatus' = "error" /\ pos' = pos /\ got' = got /\ skipped' = skipped /\ strayed' = strayed
    BY <1>2 DEF ReadError
  <2>2. ReaderTypes'
    BY <1>2, <1>t, <2>1 DEF ReaderTypes
  <2>3. Ordered' /\ Covered'
    BY <1>t, <1>u, <2>1 DEF Ordered, Covered, Deliveries
  <2>4. Progress'
    BY <1>2, <1>t, <1>u, <2>1 DEF Progress
  <2> QED BY <2>2, <2>3, <2>4 DEF ReaderInv
<1>3. CASE ClientStep
  <2>1. reader = "client" /\ UNCHANGED <<reader, atOpen>>
    BY <1>3 DEF ClientStep
  <2>2. ASSUME NEW n \in 1..ReadSize, NEW r \in ReadSizes(n), Read(r) PROVE ReaderInv'
    <3>1. n \in Nat \ {0}
      BY ReadAssumption
    <3> QED BY <2>1, <2>2, <3>1, ReadKeeps
  <2>3. ASSUME ReadError PROVE ReaderInv'
    BY <2>1, <2>3, <1>2
  <2>4. ASSUME NEW n \in 0..(2 * OffMax + 1), Skip(n) PROVE ReaderInv'
    <3>1. n \in Nat
      BY ReadAssumption
    <3> QED BY <2>1, <2>4, <3>1, SkipKeeps
  <2> QED BY <1>3, <2>2, <2>3, <2>4 DEF ClientStep
<1>4. CASE ReadFragment
  <2>1. reader = "string" /\ UNCHANGED atOpen
    BY <1>4 DEF ReadFragment
  <2>2. ASSUME NEW r \in ReadSizes(ReadSize), Read(r), reader' = IF r = 0 THEN "done" ELSE "string"
        PROVE  ReaderInv'
    BY <2>1, <2>2, ReadKeeps, ReadAssumption
  <2>3. ASSUME ReadError, reader' = "done" PROVE ReaderInv'
    BY <2>1, <2>3, <1>2
  <2> QED BY <1>4, <2>2, <2>3 DEF ReadFragment
<1> QED BY <1>1, <1>3, <1>4 DEF ReaderStep

\* While the reader waits the file only grows.
LEMMA WriterStepReader ==
  ASSUME FileInv, FileInv', ReaderInv, FileAction, UNCHANGED rvars, stage # "free" => stage' # "free"
  PROVE  ReaderInv'
<1>u. UNCHANGED <<reader, pos, got, skipped, strayed, rstatus, atOpen>>
  BY DEF rvars
<1>t. ReaderTypes /\ Ordered /\ Covered /\ Progress /\ file \in Seq(Nat) /\ todo \in Seq(Nat)
  BY DEF ReaderInv, FileInv, FileTypes
<1>1. Len(file) <= Len(file')
  <2>1. CASE WriteSome
    <3>1. PICK n \in 0..Len(todo) : file' = file \o SubSeq(todo, 1, n)
      BY <2>1 DEF WriteSome
    <3>2. Len(file') = Len(file) + n
      BY <3>1, <1>t
    <3> QED BY <3>2, <1>t
  <2>2. CASE ~WriteSome
    <3>1. file' = file
      BY <2>2 DEF FileAction, MethodStep, AppendData, Flush, Sync, Close, SyncDir, WriteFails,
                  WriteDone, SyncFd, CloseFd, CreateFile, WriteBack, vars, kernel
    <3> QED BY <3>1, <1>t
  <2> QED BY <2>1, <2>2
<1>2. ReaderTypes' /\ Ordered'
  BY <1>t, <1>u DEF ReaderTypes, Ordered
<1>4. Covered'
  <2>1. Len(file) \in Nat /\ Len(file') \in Int /\ pos \in Nat
    BY <1>t DEF ReaderTypes, FileInv, FileTypes
  <2>2. Deliveries => Deliveries'
    BY <1>u DEF Deliveries
  <2>3. pos <= Len(file) => pos <= Len(file')
    BY <1>1, <2>1
  <2> QED BY <1>t, <1>u, <2>2, <2>3 DEF Covered
<1>3. Progress'
  <2>1. Len(file) \in Nat /\ Len(file') \in Int /\ atOpen \in Nat
    BY <1>t DEF ReaderTypes, FileInv, FileTypes
  <2> QED BY <1>t, <1>u, <1>1, <2>1 DEF Progress
<1> QED BY <1>2, <1>3, <1>4 DEF ReaderInv

-----------------------------------------------------------------------------
IInv == FileInv /\ StageInv /\ ReaderInv

\* The invariant holds initially.
LEMMA RInitIInv == RInit => IInv
<1> SUFFICES ASSUME RInit PROVE IInv
  OBVIOUS
<1>i. /\ next = 0 /\ refers = << >> /\ buf = << >> /\ todo = << >> /\ rest = << >>
      /\ pc = "idle" /\ op = "none" /\ st = "ok" /\ failed = FALSE /\ file = << >>
      /\ clean = {} /\ created = 0
  BY DEF RInit, WInit, Init
<1>1. FileTypes
  <2>1. << >> \in Seq(Nat) /\ << >> \in Seq(Nat \union {NoFile}) /\ Len(<< >>) = 0 /\ 0 <= BufferSize
    BY WritableAssumption
  <2>2. \A k \in 1..0 : refers[k] \in (1..created) \union {NoFile}
    OBVIOUS
  <2> QED BY <1>i, <2>1, <2>2, Zenon DEF FileTypes
<1>2. InPlace /\ Statuses
  BY <1>i DEF InPlace, Statuses
<1>3. InOrder
  BY <1>i DEF InOrder, Rising, Before
<1>4. Complete
  BY <1>i DEF Complete, From
<1>5. SyncWritesDurableNames
  BY <1>i DEF SyncWritesDurableNames
<1>6. StageTypes /\ MethodOfStage /\ StatusOfStage
  <2>1. /\ s = "ok"
        /\ \/ stage = "free" /\ shouldSync = FALSE /\ size = 0 /\ name = "new"
           \/ /\ stage = "open" /\ isManifest = FALSE /\ shouldSync \in BOOLEAN
              /\ size \in 0..MaxBytes /\ name \in {"absent", "old"}
    BY DEF RInit, WInit
  <2>2. size \in Nat
    BY <2>1, WritableAssumption
  <2>3. StageTypes
    BY <2>1, <2>2 DEF StageTypes
  <2>4. MethodOfStage
    BY <2>1, <1>i DEF MethodOfStage
  <2>5. StatusOfStage
    BY <2>1 DEF StatusOfStage
  <2> QED BY <2>3, <2>4, <2>5
<1>7. PrefixOnly
  BY <1>i DEF PrefixOnly, From
<1>8. ReaderTypes /\ Ordered /\ Covered /\ Progress
  <2>1. /\ reader = "none" /\ pos = 0 /\ got = << >> /\ skipped = {} /\ strayed = FALSE
        /\ rstatus = "ok" /\ atOpen = 0
    BY DEF RInit
  <2>2. << >> \in Seq(Nat \X Nat) /\ Len(<< >>) = 0 /\ 1..0 = {} /\ Len(file) = 0
    BY <1>i
  <2>3. ReaderTypes
    BY <2>1, <2>2 DEF ReaderTypes
  <2>4. Ordered /\ Deliveries
    BY <2>1, <2>2, Zenon DEF Ordered, Deliveries
  <2>5. pos <= Len(file)
    BY <2>1, <2>2
  <2>6. Progress
    BY <2>1 DEF Progress
  <2> QED BY <2>3, <2>4, <2>5, <2>6 DEF Covered
<1> QED BY <1>1, <1>2, <1>3, <1>4, <1>5, <1>6, <1>7, <1>8 DEF IInv, FileInv, StageInv, ReaderInv

\* Every step of the composed system is a step of the file as FileAction has it.
LEMMA StepOfFile ==
  ASSUME IInv, [RNext]_<<allvars, rvars>>
  PROVE  FileAction
<1>t. next \in Nat /\ size \in Nat
  BY DEF IInv, FileInv, FileTypes, StageInv, StageTypes
<1>1. CASE ClientCall
  <2>1. 0..(MaxBytes - next) \subseteq Nat
    BY <1>t
  <2> QED BY <1>1, <2>1 DEF ClientCall, FileAction
<1>2. CASE MethodStep \/ CreateFile \/ WriteBack \/ UNCHANGED vars
  BY <1>2 DEF FileAction
<1>3. CASE WStep
  <2>1. CASE CallAppend
    BY <2>1, <1>t DEF CallAppend, FileAction
  <2>2. CASE CallSync \/ CallClose \/ DeleteOpenFile
    BY <2>2 DEF CallSync, CallClose, DeleteOpenFile, FileAction
  <2>3. CASE OpenFile \/ DeleteClosedFile \/ Finish
    BY <2>3 DEF OpenFile, DeleteClosedFile, Finish, FileAction
  <2> QED BY <1>3, <2>1, <2>2, <2>3 DEF WStep
<1>4. UNCHANGED allvars => UNCHANGED vars
  BY DEF allvars
<1> QED BY <1>1, <1>2, <1>3, <1>4 DEF RNext, WNext

\* Every step preserves it.
LEMMA RNextIInv == IInv /\ [RNext]_<<allvars, rvars>> => IInv'
<1> SUFFICES ASSUME IInv, [RNext]_<<allvars, rvars>> PROVE IInv'
  OBVIOUS
<1>t. FileInv /\ StageInv /\ ReaderInv
  BY DEF IInv
<1>1. FileAction
  BY StepOfFile
<1>2. FileInv'
  BY <1>t, <1>1, FileStep
<1>3. StageInv'
  <2>1. CASE WStep
    BY <1>t, <1>2, <2>1, FunctionStepStage
  <2>2. CASE MethodStep /\ UNCHANGED svars
    BY <1>t, <1>2, <2>2, MethodStepStage
  <2>3. CASE /\ UNCHANGED svars
             /\ (stage = "free" /\ (ClientCall \/ CreateFile)) \/ WriteBack \/ UNCHANGED vars
    BY <1>t, <2>3, OtherStepStage
  <2>4. UNCHANGED allvars => UNCHANGED svars /\ UNCHANGED vars
    BY DEF allvars
  <2> QED BY <2>1, <2>2, <2>3, <2>4 DEF RNext, WNext
<1>4. ReaderInv'
  <2>1. CASE ReaderStep /\ UNCHANGED allvars
    BY <1>t, <2>1, ReaderStepReader
  <2>2. CASE UNCHANGED rvars /\ (WNext \/ UNCHANGED allvars)
    <3>1. stage # "free" => stage' # "free"
      BY <2>2 DEF WNext, WStep, OpenFile, CallAppend, CallSync, CallClose, DeleteOpenFile,
                  DeleteClosedFile, Finish, At, svars, allvars
    <3> QED BY <1>t, <1>1, <1>2, <2>2, <3>1, WriterStepReader
  <2>3. UNCHANGED <<allvars, rvars>> => UNCHANGED allvars /\ UNCHANGED rvars
    OBVIOUS
  <2> QED BY <2>1, <2>2, <2>3 DEF RNext
<1> QED BY <1>2, <1>3, <1>4 DEF IInv

\* The invariant holds in every reachable state.
LEMMA Inductive == RSpec => []IInv
BY RInitIInv, RNextIInv, PTL DEF RSpec

-----------------------------------------------------------------------------
\* One sequence behind another.
LEMMA JoinedBytes ==
  ASSUME NEW a \in Seq(Nat), NEW b \in Seq(Nat), NEW m \in Nat, NEW k \in Nat
  PROVE  /\ a \o b \in Seq(Nat) /\ Len(a \o b) = Len(a) + Len(b)
         /\ From(k, a) /\ From(k + Len(a), b) => From(k, a \o b)
         /\ Rising(m, a) /\ Rising(m, b) /\ Before(a, b) => Rising(m, a \o b)
         /\ \A f \in Seq(Nat) : Before(f, a) /\ Before(f, b) => Before(f, a \o b)
<1>1. a \o b \in Seq(Nat) /\ Len(a \o b) = Len(a) + Len(b) /\ Len(a) \in Nat /\ Len(b) \in Nat
  OBVIOUS
<1>2. ASSUME NEW i \in 1..(Len(a) + Len(b))
      PROVE  \/ i \in 1..Len(a) /\ (a \o b)[i] = a[i]
             \/ i > Len(a) /\ i - Len(a) \in 1..Len(b) /\ (a \o b)[i] = b[i - Len(a)]
  BY ConcatIndex
<1>3. ASSUME From(k, a), From(k + Len(a), b) PROVE From(k, a \o b)
  <2>1. ASSUME NEW i \in 1..(Len(a) + Len(b)) PROVE (a \o b)[i] = k + i
    <3>1. CASE i \in 1..Len(a) /\ (a \o b)[i] = a[i]
      BY <1>3, <3>1 DEF From
    <3>2. CASE i > Len(a) /\ i - Len(a) \in 1..Len(b) /\ (a \o b)[i] = b[i - Len(a)]
      <4>1. b[i - Len(a)] = (k + Len(a)) + (i - Len(a))
        BY <1>3, <3>2 DEF From
      <4> QED BY <3>2, <4>1, <1>1
    <3> QED BY <3>1, <3>2, <1>2
  <2> QED BY <2>1, <1>1, Zenon DEF From
<1>4. ASSUME Rising(m, a), Rising(m, b), Before(a, b) PROVE Rising(m, a \o b)
  <2>1. ASSUME NEW i \in 1..(Len(a) + Len(b)) PROVE (a \o b)[i] \in 1..m
    BY <1>2, <1>4 DEF Rising
  <2>2. ASSUME NEW i \in 1..(Len(a) + Len(b)), NEW j \in 1..(Len(a) + Len(b)), i < j
        PROVE  (a \o b)[i] < (a \o b)[j]
    <3>1. CASE j \in 1..Len(a) /\ (a \o b)[j] = a[j]
      <4>1. i \in 1..Len(a) /\ (a \o b)[i] = a[i]
        BY <2>2, <3>1, <1>2, <1>1
      <4> QED BY <2>2, <3>1, <4>1, <1>4 DEF Rising
    <3>2. CASE j > Len(a) /\ j - Len(a) \in 1..Len(b) /\ (a \o b)[j] = b[j - Len(a)]
      <4>1. CASE i \in 1..Len(a) /\ (a \o b)[i] = a[i]
        BY <3>2, <4>1, <1>4 DEF Before
      <4>2. CASE i > Len(a) /\ i - Len(a) \in 1..Len(b) /\ (a \o b)[i] = b[i - Len(a)]
        <5>1. i - Len(a) < j - Len(a)
          BY <2>2, <1>1
        <5>2. b[i - Len(a)] < b[j - Len(a)]
          BY <3>2, <4>2, <5>1, <1>4 DEF Rising
        <5> QED BY <3>2, <4>2, <5>2
      <4> QED BY <4>1, <4>2, <1>2
    <3> QED BY <3>1, <3>2, <1>2
  <2> QED BY <2>1, <2>2, <1>1, Zenon DEF Rising
<1>5. ASSUME NEW f \in Seq(Nat), Before(f, a), Before(f, b) PROVE Before(f, a \o b)
  <2>1. ASSUME NEW i \in 1..Len(f), NEW j \in 1..(Len(a) + Len(b)) PROVE f[i] < (a \o b)[j]
    BY <1>2, <1>5 DEF Before
  <2> QED BY <2>1, <1>1, Zenon DEF Before
<1> QED BY <1>1, <1>3, <1>4, <1>5

\* What the inductive invariant says piece by piece, about the whole.
LEMMA WholeStream ==
  ASSUME FileInv
  PROVE  NothingLostOrRepeated
<1>t. /\ FileTypes /\ InOrder /\ Complete
      /\ buf \in Seq(Nat) /\ todo \in Seq(Nat) /\ rest \in Seq(Nat) /\ file \in Seq(Nat) /\ next \in Nat
  BY DEF FileInv, FileTypes
<1>1. /\ Pending \in Seq(Nat) /\ Rising(next, Pending) /\ Before(file, Pending)
      /\ ~failed /\ st = "ok" => From(Len(file), Pending) /\ next = Len(file) + Len(Pending)
  <2>1. CASE pc = "write"
    <3>1. /\ todo \o rest \in Seq(Nat) /\ Len(todo \o rest) = Len(todo) + Len(rest)
          /\ From(Len(file), todo) /\ From(Len(file) + Len(todo), rest) => From(Len(file), todo \o rest)
          /\ Rising(next, todo) /\ Rising(next, rest) /\ Before(todo, rest) => Rising(next, todo \o rest)
          /\ Before(file, todo) /\ Before(file, rest) => Before(file, todo \o rest)
      <4>1. Len(file) \in Nat
        BY <1>t
      <4> QED BY <1>t, <4>1, JoinedBytes
    <3>2. Pending = todo \o rest
      BY <2>1 DEF Pending
    <3>3. Rising(next, todo) /\ Rising(next, rest) /\ Before(todo, rest) /\ Before(file, todo) /\ Before(file, rest)
      BY <1>t DEF InOrder
    <3>4. ~failed /\ st = "ok" => From(Len(file), todo) /\ From(Len(file) + Len(todo), rest)
      BY <1>t, <2>1 DEF Complete
    <3>5. ~failed /\ st = "ok" => next = Len(file) + (Len(todo) + Len(rest))
      BY <1>t, <2>1 DEF Complete
    <3> QED BY <3>1, <3>2, <3>3, <3>4, <3>5, Zenon
  <2>2. CASE pc # "write"
    <3>1. Pending = buf
      BY <2>2 DEF Pending
    <3> QED BY <1>t, <2>2, <3>1 DEF InOrder, Complete
  <2> QED BY <2>1, <2>2
<1>2. ASSUME NEW q \in Seq(Nat), q = Pending
      PROVE  /\ file \o q \in Seq(Nat) /\ Len(file \o q) = Len(file) + Len(q)
             /\ Rising(next, file \o q)
             /\ ~failed /\ st = "ok" => From(0, file \o q)
  <2>1. /\ file \o q \in Seq(Nat) /\ Len(file \o q) = Len(file) + Len(q)
        /\ From(0, file) /\ From(0 + Len(file), q) => From(0, file \o q)
        /\ Rising(next, file) /\ Rising(next, q) /\ Before(file, q) => Rising(next, file \o q)
    BY <1>t, JoinedBytes
  <2>2. 0 + Len(file) = Len(file)
    BY <1>t
  <2>3. Rising(next, file) /\ (~failed /\ st = "ok" => From(0, file))
    BY <1>t DEF InOrder, Complete
  <2> QED BY <1>1, <1>2, <2>1, <2>2, <2>3, Zenon
<1>3. ASSUME NEW q \in Seq(Nat), From(0, q), NEW n \in Nat, n = Len(q) PROVE q = [i \in 1..n |-> i]
  <2>1. \A i \in 1..n : q[i] = i
    BY <1>3 DEF From
  <2>2. DOMAIN q = 1..n /\ q = [i \in DOMAIN q |-> q[i]]
    BY <1>3
  <2> QED BY <2>1, <2>2
<1>4. ~failed /\ st = "ok" => file \o Pending = [i \in 1..next |-> i]
  <2>1. ~failed /\ st = "ok" => next = Len(file \o Pending)
    BY <1>1, <1>2, Zenon
  <2> QED BY <1>t, <1>1, <1>2, <1>3, <2>1, Zenon
<1>5. \A i, j \in 1..Len(file \o Pending) : i < j => (file \o Pending)[i] < (file \o Pending)[j]
  BY <1>1, <1>2, Zenon DEF Rising
<1>6. ~failed /\ ~UntoldError => st = "ok"
  BY DEF FileInv, FileTypes, InPlace, Statuses, UntoldError
<1> QED BY <1>4, <1>5, <1>6, Zenon DEF NothingLostOrRepeated

\* What DoWriteStringToFile has promised when it is done.
LEMMA StageResult ==
  ASSUME FileInv, StageInv
  PROVE  AllOrNothing
<1> SUFFICES ASSUME stage = "done" PROVE AllOrNothing
  BY DEF AllOrNothing
<1>t. FileTypes /\ InPlace /\ Complete /\ StageTypes /\ StatusOfStage
  BY DEF FileInv, StageInv
<1>1. CASE s = "ok"
  <2>1. /\ pc = "closed" /\ st = "ok" /\ ~failed /\ next = size /\ name = "new"
        /\ shouldSync => 1..size \subseteq durable
    BY <1>1, <1>t DEF StatusOfStage
  <2>2. buf = << >> /\ From(0, file) /\ size = Len(file) + Len(buf) /\ file \in Seq(Nat)
    BY <2>1, <1>t DEF InPlace, Complete, FileTypes
  <2>3. Len(file) = size /\ \A i \in 1..Len(file) : file[i] = i
    BY <2>2 DEF From
  <2>4. DOMAIN file = 1..Len(file) /\ file = [i \in DOMAIN file |-> file[i]]
    BY <2>2
  <2>5. file = [i \in 1..size |-> i]
    BY <2>3, <2>4
  <2> QED BY <1>1, <2>1, <2>5 DEF AllOrNothing
<1>2. CASE s # "ok"
  <2>1. name # "new"
    BY <1>2, <1>t DEF StatusOfStage, StageTypes
  <2> QED BY <1>2, <2>1 DEF AllOrNothing
<1> QED BY <1>1, <1>2

\* What the reader has delivered.
LEMMA ReaderResult ==
  ASSUME ReaderInv
  PROVE  ReaderMissesNothing
<1>t. ReaderTypes /\ Ordered /\ Covered /\ Progress /\ got \in Seq(Nat \X Nat)
  BY DEF ReaderInv, ReaderTypes
<1>1. ToSet(got) = {got[i] : i \in 1..Len(got)}
  <2>1. DOMAIN got = 1..Len(got)
    BY <1>t
  <2> QED BY <2>1 DEF ToSet
<1>2. ASSUME Deliveries PROVE {g[1] : g \in ToSet(got)} \union skipped \subseteq 1..pos
  <2>1. ASSUME NEW g \in ToSet(got) PROVE g[1] \in 1..pos
    <3>1. PICK i \in 1..Len(got) : g = got[i]
      BY <1>1
    <3> QED BY <3>1, <1>2 DEF Deliveries
  <2>2. skipped \subseteq 1..pos
    BY <1>2 DEF Deliveries
  <2> QED BY <2>1, <2>2
<1>3. ASSUME Deliveries, NEW k \in 1..pos PROVE k \in {g[1] : g \in ToSet(got)} \union skipped
  <2>1. CASE k \in skipped
    BY <2>1
  <2>2. CASE k \notin skipped
    <3>1. PICK i \in 1..Len(got) : got[i][1] = k
      BY <2>2, <1>3 DEF Deliveries
    <3>2. got[i] \in ToSet(got)
      BY <1>1
    <3> QED BY <3>1, <3>2
  <2> QED BY <2>1, <2>2
<1>4. ~strayed => {g[1] : g \in ToSet(got)} \union skipped = 1..pos /\ pos <= Len(file)
  <2>1. Deliveries => {g[1] : g \in ToSet(got)} \union skipped = 1..pos
    BY <1>2, <1>3
  <2> QED BY <2>1, <1>t DEF Covered
<1>5. \A i \in 1..Len(got) :
        /\ i > 1 => got[i - 1][1] < got[i][1]
        /\ got[i][1] \notin skipped /\ got[i][2] = got[i][1]
  BY <1>t DEF Ordered
<1>6. reader = "done" /\ rstatus = "ok" => Len(got) >= atOpen
  BY <1>t DEF Progress
<1> QED BY <1>4, <1>5, <1>6 DEF ReaderMissesNothing

-----------------------------------------------------------------------------
\* PosixWritableFile loses a byte only with an error, which it reports unless the
\* destructor meets it, and never writes one twice or out of order, for every
\* buffer size, every sequence of calls, every short write and every failure.
THEOREM BytesNeverLostOrRepeated == RSpec => []NothingLostOrRepeated
<1>1. IInv => NothingLostOrRepeated
  BY WholeStream DEF IInv
<1> QED BY <1>1, Inductive, PTL

\* Sync of a MANIFEST writes no name whose directory entry is not on disk.
THEOREM SyncedNamesDurable == RSpec => []SyncWritesDurableNames
<1>1. IInv => SyncWritesDurableNames
  BY DEF IInv, FileInv
<1> QED BY <1>1, Inductive, PTL

\* A Sync that returns OK after no error has put every byte appended on disk.
THEOREM SyncIsDurable == RSpec => SyncMakesDurable
<1>1. ASSUME IInv, [RNext]_<<allvars, rvars>>,
             pc = "fsync", pc' = "idle", st' = "ok", ~failed
      PROVE  1..next \subseteq durable'
  <2>1. FileAction
    BY <1>1, StepOfFile
  <2>2. FileInv
    BY <1>1 DEF IInv
  <2>3. SyncFd
    BY <1>1, <2>1 DEF FileAction, AppendData, Flush, Sync, Close, MethodStep, SyncDir, WriteSome,
                      WriteFails, WriteDone, CloseFd, CreateFile, WriteBack, vars
  <2> QED BY <1>1, <2>2, <2>3, SyncFdDurable
<1>2. IInv /\ [RNext]_<<allvars, rvars>> =>
        [pc = "fsync" /\ pc' = "idle" /\ st' = "ok" /\ ~failed => 1..next \subseteq durable']_vars
  BY <1>1
<1> QED BY <1>2, Inductive, PTL DEF RSpec, SyncMakesDurable

\* WriteStringToFile leaves the whole string or, with an error, no part of it.
THEOREM WriteStringWholeOrGone == RSpec => []AllOrNothing
<1>1. IInv => AllOrNothing
  BY StageResult DEF IInv
<1> QED BY <1>1, Inductive, PTL

\* A reader whose Skips end inside the file gets every byte it did not skip, and
\* ReadFileToString all that the file held when it was opened, whatever the writer
\* does meanwhile; and what any reader got before it strayed is in order and right.
THEOREM ReaderGetsAll == RSpec => []ReaderMissesNothing
<1>1. IInv => ReaderMissesNothing
  BY ReaderResult DEF IInv
<1> QED BY <1>1, Inductive, PTL

=============================================================================
