--------------------------- MODULE BackgroundWork ---------------------------
(***************************************************************************)
(* PosixEnv::Schedule and PosixEnv::BackgroundThreadMain of                *)
(* util/env_posix.cpp, over the Mutex and CondVar of port/port.h.          *)
(*                                                                         *)
(* Any thread may call Schedule, the background thread too: a work item is *)
(* a function, and it may schedule further items while it runs.  CondVar   *)
(* waits may end spuriously.                                               *)
(***************************************************************************)
EXTENDS Naturals, Sequences

CONSTANTS Clients,   \* threads that call Schedule
          Bg,        \* the background thread
          Items,     \* work items; each is scheduled at most once
          None

ASSUME ThreadsAssumption == Bg \notin Clients /\ None \notin Clients \union {Bg}
ASSUME ItemsAssumption == None \notin Items

Threads == Clients \union {Bg}

VARIABLES
  mutex,      \* owner of background_work_mutex_, or None
  started,    \* started_background_thread_
  queue,      \* background_work_queue_
  call,       \* per thread: where it is in Schedule ("out": not in it)
  arg,        \* per thread: the item it is scheduling
  bg,         \* where the background thread is in BackgroundThreadMain
  running,    \* the item the background thread took, or None
  scheduled,  \* history: items in the order they were queued
  executed    \* history: items in the order their functions returned

scheduleVars == <<mutex, started, queue, call, arg, bg, running, scheduled, executed>>

-----------------------------------------------------------------------------
ScheduleInit ==
  /\ mutex = None
  /\ started = FALSE
  /\ queue = << >>
  /\ call = [t \in Threads |-> "out"]
  /\ arg = [t \in Threads |-> None]
  /\ bg = "absent"
  /\ running = None
  /\ scheduled = << >>
  /\ executed = << >>

\* Mutex::Lock and Mutex::Unlock
Lock(t) == mutex = None /\ mutex' = t
Unlock(t) == mutex = t /\ mutex' = None

SignalLost == UNCHANGED bg

\* CondVar::Signal: the background thread is the only one that ever waits.
Signal == bg' = IF bg = "waiting" THEN "relock" ELSE bg

-----------------------------------------------------------------------------
\* Schedule(i) is called.  The background thread calls it from a work item.
Schedule(t, i) ==
  /\ call[t] = "out"
  /\ t = Bg => bg = "run"
  /\ \A u \in Threads : arg[u] # i
  /\ \A j \in 1..Len(scheduled) : scheduled[j] # i
  /\ call' = [call EXCEPT ![t] = "lock"]
  /\ arg' = [arg EXCEPT ![t] = i]
  /\ UNCHANGED <<mutex, started, queue, bg, running, scheduled, executed>>

ScheduleLock(t) ==
  /\ call[t] = "lock"
  /\ Lock(t)
  /\ call' = [call EXCEPT ![t] = "start"]
  /\ UNCHANGED <<started, queue, arg, bg, running, scheduled, executed>>

\* Start the background thread, if nobody has done so already.
ScheduleStart(t) ==
  /\ call[t] = "start"
  /\ started' = TRUE
  /\ bg' = IF started THEN bg ELSE "lock"
  /\ call' = [call EXCEPT ![t] = "signal"]
  /\ UNCHANGED <<mutex, queue, arg, running, scheduled, executed>>

SignalIfNonEmpty == IF queue # << >> THEN Signal ELSE UNCHANGED bg

\* "If the queue is empty, the background thread may be waiting for work."
SignalIfEmpty == IF queue = << >> THEN Signal ELSE UNCHANGED bg

ScheduleSignal(t) ==
  /\ call[t] = "signal"
  /\ SignalIfEmpty
  /\ call' = [call EXCEPT ![t] = "push"]
  /\ UNCHANGED <<mutex, started, queue, arg, running, scheduled, executed>>

Emplace(i) == queue' = Append(queue, i)

ScheduleEmplace(t) ==
  /\ call[t] = "push"
  /\ Emplace(arg[t])
  /\ scheduled' = Append(scheduled, arg[t])
  /\ Unlock(t)
  /\ call' = [call EXCEPT ![t] = "out"]
  /\ arg' = [arg EXCEPT ![t] = None]
  /\ UNCHANGED <<started, bg, running, executed>>

-----------------------------------------------------------------------------
\* BackgroundThreadMain: take the mutex, for the first time or out of Wait.
BgLock ==
  /\ bg = "lock" \/ bg = "relock"
  /\ Lock(Bg)
  /\ bg' = "check"
  /\ UNCHANGED <<started, queue, call, arg, running, scheduled, executed>>

\* The queue is empty: CondVar::Wait gives the mutex back and waits.
BgWait ==
  /\ bg = "check"
  /\ queue = << >>
  /\ Unlock(Bg)
  /\ bg' = "waiting"
  /\ UNCHANGED <<started, queue, call, arg, running, scheduled, executed>>

\* A wait may end without a signal.
SpuriousWakeup ==
  /\ bg = "waiting"
  /\ bg' = "relock"
  /\ UNCHANGED <<mutex, started, queue, call, arg, running, scheduled, executed>>

TakeWithoutPop ==
  /\ running' = queue[1]
  /\ UNCHANGED queue

\* front() and pop()
Take ==
  /\ running' = queue[1]
  /\ queue' = SubSeq(queue, 2, Len(queue))

BgTake ==
  /\ bg = "check"
  /\ queue # << >>
  /\ Take
  /\ Unlock(Bg)
  /\ bg' = "run"
  /\ UNCHANGED <<started, call, arg, scheduled, executed>>

\* The function returns; it runs without the mutex.
BgDone ==
  /\ bg = "run"
  /\ call[Bg] = "out"
  /\ executed' = Append(executed, running)
  /\ running' = None
  /\ bg' = "lock"
  /\ UNCHANGED <<mutex, started, queue, call, arg, scheduled>>

Idle ==
  /\ Len(executed) = Len(scheduled)
  /\ bg \in {"absent", "waiting"}
  /\ \A t \in Threads : call[t] = "out"
  /\ UNCHANGED scheduleVars

ScheduleNext ==
  \/ \E t \in Threads, i \in Items : Schedule(t, i)
  \/ \E t \in Threads : ScheduleLock(t)
  \/ \E t \in Threads : ScheduleStart(t)
  \/ \E t \in Threads : ScheduleSignal(t)
  \/ \E t \in Threads : ScheduleEmplace(t)
  \/ BgLock
  \/ BgWait
  \/ SpuriousWakeup
  \/ BgTake
  \/ BgDone
  \/ Idle

\* Threads inside Schedule and the background thread keep running, the mutex is
\* granted to a thread that keeps asking, and work functions return.  Waking up
\* spuriously is never assumed.
Fairness ==
  /\ \A t \in Threads : SF_scheduleVars(ScheduleLock(t))
                        /\ WF_scheduleVars(ScheduleStart(t) \/ ScheduleSignal(t) \/ ScheduleEmplace(t))
  /\ SF_scheduleVars(BgLock)
  /\ WF_scheduleVars(BgWait \/ BgTake \/ BgDone)

ScheduleSpec == ScheduleInit /\ [][ScheduleNext]_scheduleVars /\ Fairness

-----------------------------------------------------------------------------
\* Every variable has its type.
ScheduleTypeOK ==
  /\ mutex \in Threads \union {None}
  /\ started \in BOOLEAN
  /\ queue \in Seq(Items)
  /\ call \in [Threads -> {"out", "lock", "start", "signal", "push"}]
  /\ arg \in [Threads -> Items \union {None}]
  /\ bg \in {"absent", "lock", "check", "waiting", "relock", "run"}
  /\ running \in Items \union {None}
  /\ scheduled \in Seq(Items)
  /\ executed \in Seq(Items)

InFlight == IF running = None THEN << >> ELSE <<running>>

\* env.h:163, "Arrange to run (*function)(arg) once in a background thread":
\* what was executed, what runs and what is queued is, in this order, exactly
\* what was scheduled.  Nothing is lost, run twice or run out of order.
FirstInFirstOut == executed \o InFlight \o queue = scheduled

\* No wakeup is lost: the background thread never sleeps while work is queued,
\* although Schedule signals before it pushes and only when the queue is empty.
NeverSleepsOnWork == bg = "waiting" => queue = << >>

\* A thread between Lock and Unlock is the owner, so the flag, the queue and
\* the signal of one Schedule are never interleaved with another's.
CriticalSections ==
  /\ \A t \in Threads : call[t] \in {"start", "signal", "push"} => mutex = t
  /\ bg = "check" => mutex = Bg

\* What the proof needs besides: the background thread has an item exactly while
\* it runs one, and calls Schedule only then; it exists once the flag is set; a
\* thread inside Schedule has an item; and between the signal and the push of a
\* Schedule the background thread is awake.
ThreadsConsistent ==
  /\ bg = "run" <=> running # None
  /\ call[Bg] # "out" => bg = "run"
  /\ bg = "absent" <=> ~started
  /\ \A t \in Threads : call[t] # "out" <=> arg[t] # None
  /\ \A t \in Threads : call[t] \in {"signal", "push"} => started
  /\ \A t \in Threads : call[t] = "push" => bg # "waiting"

\* Every scheduled item is eventually executed.
EverythingRuns ==
  \A i \in Items :
    (\E j \in 1..Len(scheduled) : scheduled[j] = i) ~> (\E j \in 1..Len(executed) : executed[j] = i)

=============================================================================
