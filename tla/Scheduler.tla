------------------------------ MODULE Scheduler ------------------------------
(***************************************************************************)
(* CScheduler of src/src/scheduler.cpp: threads in serviceQueue, callers   *)
(* of schedule, scheduleEvery and stop, and the interruption that ends the *)
(* threads at shutdown.                                                    *)
(*                                                                         *)
(* newTaskMutex is held from a thread's wake-up to its next wait, to the   *)
(* call of f, or to its return: each such section is one action.  schedule *)
(* and stop notify after they have unlocked, so that is a step of its own. *)
(* A timed wait may report a timeout whenever its deadline has passed,     *)
(* also when it was notified.                                              *)
(*                                                                         *)
(* A task is its identity; Period[f] is 0 for a task that schedule runs    *)
(* once and the period of one that scheduleEvery repeats.  The multimap is *)
(* a set of entries: of entries with the same time any may be the first.   *)
(* A task that throws is not modelled: TraceThread lets the exception end  *)
(* the process.                                                            *)
(***************************************************************************)
EXTENDS Integers, FiniteSets

CONSTANTS
    Threads,    \* the threads that will run serviceQueue
    Tasks,
    Period,     \* Period[f]: deltaSeconds of scheduleEvery, or 0
    MaxTime     \* bound on the clock, and on the times schedule is given

ASSUME SchedulerAssumption ==
    /\ IsFiniteSet(Threads) /\ Threads # {}
    /\ Tasks # {}
    /\ Period \in [Tasks -> Nat]
    /\ MaxTime \in Nat

VARIABLES
    now,                     \* the system clock
    taskQueue,               \* entries [at, f]
    nThreadsServicingQueue,
    stopRequested, stopWhenEmpty,
    pc,                      \* where each thread is
    until,                   \* the deadline of a thread's wait_until, else 0
    current,                 \* the entry a thread runs, else NoEntry
    notified,                \* waiting threads that a notify has released
    toNotify,                \* schedule() calls that have yet to notify_one
    toNotifyAll,             \* a stop() call has yet to notify_all
    interrupted,             \* threadGroup.interrupt_all() was called
    scheduled                \* tasks handed to the scheduler so far

threadVars == <<nThreadsServicingQueue, pc, until, current>>
callerVars == <<stopRequested, stopWhenEmpty, toNotify, toNotifyAll,
                interrupted, scheduled>>
vars == <<now, taskQueue, notified, threadVars, callerVars>>

Times == 0 .. MaxTime
Entries == [at : Nat, f : Tasks]
NoEntry == [at |-> 0, f |-> CHOOSE f \in Tasks : TRUE]
Waiting == {t \in Threads : pc[t] \in {"wait", "wait_until"}}

StopAtOnce == stopRequested \/ stopWhenEmpty

shouldStop == stopRequested \/ (stopWhenEmpty /\ taskQueue = {})

\* taskQueue.begin().
First == {e \in taskQueue : \A d \in taskQueue : e.at <= d.at}

\* notify_one when W are the threads that wait and are not yet released, and
\* N those that are.
NotifyNobody(W, N) == notified' = N

notify_one(W, N) ==
    IF W = {} THEN notified' = N
    ELSE \E t \in W : notified' = N \cup {t}

NotifyNone == UNCHANGED notified

notify_all == notified' = notified \cup Waiting

-----------------------------------------------------------------------------

Init ==
    /\ now = 0
    /\ taskQueue = {}
    /\ nThreadsServicingQueue = 0
    /\ stopRequested = FALSE /\ stopWhenEmpty = FALSE
    /\ pc = [t \in Threads |-> "new"]
    /\ until = [t \in Threads |-> 0]
    /\ current = [t \in Threads |-> NoEntry]
    /\ notified = {}
    /\ toNotify = 0 /\ toNotifyAll = FALSE
    /\ interrupted = FALSE
    /\ scheduled = {}

Tick ==
    /\ now < MaxTime
    /\ now' = now + 1
    /\ UNCHANGED <<taskQueue, notified, threadVars, callerVars>>

\* schedule, scheduleFromNow and the first call of scheduleEvery.  A task is
\* handed over once, and nobody schedules after stop or an interruption.
schedule(f, at) ==
    /\ f \notin scheduled
    /\ ~stopRequested /\ ~stopWhenEmpty /\ ~interrupted
    /\ taskQueue' = taskQueue \cup {[at |-> at, f |-> f]}
    /\ scheduled' = scheduled \cup {f}
    /\ toNotify' = toNotify + 1
    /\ UNCHANGED <<now, notified, threadVars, stopRequested, stopWhenEmpty,
                   toNotifyAll, interrupted>>

ScheduleNotifies ==
    /\ toNotify > 0
    /\ toNotify' = toNotify - 1
    /\ notify_one(Waiting \ notified, notified)
    /\ UNCHANGED <<now, taskQueue, threadVars, stopRequested, stopWhenEmpty,
                   toNotifyAll, interrupted, scheduled>>

\* stop(drain), called once.
stop(drain) ==
    /\ ~stopRequested /\ ~stopWhenEmpty
    /\ stopWhenEmpty' = drain
    /\ stopRequested' = ~drain
    /\ toNotifyAll' = TRUE
    /\ UNCHANGED <<now, taskQueue, notified, threadVars, toNotify, interrupted,
                   scheduled>>

StopNotifies ==
    /\ toNotifyAll
    /\ toNotifyAll' = FALSE
    /\ notify_all
    /\ UNCHANGED <<now, taskQueue, threadVars, stopRequested, stopWhenEmpty,
                   toNotify, interrupted, scheduled>>

\* threadGroup.interrupt_all() at shutdown.
Interrupt ==
    /\ ~interrupted
    /\ interrupted' = TRUE
    /\ UNCHANGED <<now, taskQueue, notified, threadVars, stopRequested,
                   stopWhenEmpty, toNotify, toNotifyAll, scheduled>>

-----------------------------------------------------------------------------

\* The head of serviceQueue's outer loop, with n threads counted: return and
\* wake another thread, wait for a task, or wait for the time of the first
\* one.  A wait that ends without a timeout comes back here.
LoopHead(t, n) ==
    \/ /\ shouldStop
       /\ nThreadsServicingQueue' = n - 1
       /\ pc' = [pc EXCEPT ![t] = "gone"]
       /\ until' = [until EXCEPT ![t] = 0]
       /\ notify_one(Waiting \ (notified \cup {t}), notified \ {t})
    \/ /\ ~shouldStop /\ taskQueue = {}
       /\ nThreadsServicingQueue' = n
       /\ pc' = [pc EXCEPT ![t] = "wait"]
       /\ until' = [until EXCEPT ![t] = 0]
       /\ notified' = notified \ {t}
    \/ /\ ~shouldStop
       /\ \E e \in First : until' = [until EXCEPT ![t] = e.at]
       /\ nThreadsServicingQueue' = n
       /\ pc' = [pc EXCEPT ![t] = "wait_until"]
       /\ notified' = notified \ {t}

\* A thread enters serviceQueue.
Start(t) ==
    /\ pc[t] = "new"
    /\ LoopHead(t, nThreadsServicingQueue + 1)
    /\ UNCHANGED <<now, taskQueue, current, callerVars>>

\* wait returns, or wait_until returns without a timeout; possibly spuriously.
Wake(t) ==
    /\ t \in Waiting
    /\ LoopHead(t, nThreadsServicingQueue)
    /\ UNCHANGED <<now, taskQueue, current, callerVars>>

\* Take the first task and unlock.
TakeFirst(t) ==
    /\ \E e \in First :
          /\ taskQueue' = taskQueue \ {e}
          /\ current' = [current EXCEPT ![t] = e]
    /\ pc' = [pc EXCEPT ![t] = "run"]
    /\ until' = [until EXCEPT ![t] = 0]
    /\ notified' = notified \ {t}
    /\ UNCHANGED nThreadsServicingQueue

\* What follows a timeout: the queue may have been emptied meanwhile.
TimedOutThen(t) ==
    \/ /\ shouldStop \/ taskQueue = {}
       /\ LoopHead(t, nThreadsServicingQueue)
       /\ UNCHANGED <<taskQueue, current>>
    \/ ~shouldStop /\ TakeFirst(t)

TimeOut(t) ==
    /\ pc[t] = "wait_until"
    /\ now >= until[t]
    /\ TimedOutThen(t)
    /\ UNCHANGED <<now, callerVars>>

\* f returns; Repeat schedules it again, whatever stop was told.
Run(t) ==
    LET f == current[t].f
    IN  /\ pc[t] = "run"
        /\ IF Period[f] > 0
           THEN /\ taskQueue' = taskQueue \cup {[at |-> now + Period[f], f |-> f]}
                /\ pc' = [pc EXCEPT ![t] = "notify"]
           ELSE /\ pc' = [pc EXCEPT ![t] = "relock"]
                /\ UNCHANGED taskQueue
        /\ current' = [current EXCEPT ![t] = NoEntry]
        /\ UNCHANGED <<now, notified, nThreadsServicingQueue, until, callerVars>>

RepeatNotifies(t) ==
    /\ pc[t] = "notify"
    /\ pc' = [pc EXCEPT ![t] = "relock"]
    /\ notify_one(Waiting \ notified, notified)
    /\ UNCHANGED <<now, taskQueue, nThreadsServicingQueue, until, current,
                   callerVars>>

Relock(t) ==
    /\ pc[t] = "relock"
    /\ LoopHead(t, nThreadsServicingQueue)
    /\ UNCHANGED <<now, taskQueue, current, callerVars>>

LeaveUncounted(t) ==
    /\ interrupted
    /\ pc[t] \in {"wait", "wait_until", "run"}
    /\ pc' = [pc EXCEPT ![t] = "gone"]
    /\ until' = [until EXCEPT ![t] = 0]
    /\ current' = [current EXCEPT ![t] = NoEntry]
    /\ notified' = notified \ {t}
    /\ UNCHANGED <<now, taskQueue, nThreadsServicingQueue, callerVars>>

\* A wait or the task throws thread_interrupted: catch, count, rethrow.
Interrupted(t) ==
    /\ interrupted
    /\ pc[t] \in {"wait", "wait_until", "run"}
    /\ pc' = [pc EXCEPT ![t] = "gone"]
    /\ nThreadsServicingQueue' = nThreadsServicingQueue - 1
    /\ until' = [until EXCEPT ![t] = 0]
    /\ current' = [current EXCEPT ![t] = NoEntry]
    /\ notified' = notified \ {t}
    /\ UNCHANGED <<now, taskQueue, callerVars>>

Step(t) ==
    \/ Start(t) \/ Wake(t) \/ TimeOut(t) \/ Run(t) \/ RepeatNotifies(t)
    \/ Relock(t) \/ Interrupted(t)

Next ==
    \/ Tick
    \/ \E f \in Tasks, at \in Times : schedule(f, at)
    \/ ScheduleNotifies
    \/ \E drain \in BOOLEAN : stop(drain)
    \/ StopNotifies
    \/ Interrupt
    \/ \E t \in Threads : Step(t)

Spec == Init /\ [][Next]_vars

\* Time passes, callers finish their calls, threads run, tasks return, and a
\* thread leaves a wait that was notified, has timed out or is interrupted.
\* Nothing makes a spurious wake-up happen.
NotifiedWake(t) == t \in notified /\ Wake(t)

ThreadFairness(t) ==
    WF_vars(\/ Start(t) \/ NotifiedWake(t) \/ TimeOut(t) \/ Run(t)
            \/ RepeatNotifies(t) \/ Relock(t) \/ Interrupted(t))

FairSpec ==
    /\ Spec
    /\ WF_vars(Tick) /\ WF_vars(ScheduleNotifies) /\ WF_vars(StopNotifies)
    /\ \A t \in Threads : ThreadFairness(t)

-----------------------------------------------------------------------------

TypeOK ==
    /\ now \in Times
    /\ taskQueue \subseteq Entries
    /\ nThreadsServicingQueue \in Int
    /\ stopRequested \in BOOLEAN /\ stopWhenEmpty \in BOOLEAN
    /\ pc \in [Threads -> {"new", "wait", "wait_until", "run", "notify",
                           "relock", "gone"}]
    /\ until \in [Threads -> Nat]
    /\ current \in [Threads -> Entries]
    /\ notified \subseteq Waiting
    /\ toNotify \in Nat /\ toNotifyAll \in BOOLEAN
    /\ interrupted \in BOOLEAN
    /\ scheduled \subseteq Tasks

AllGone == \A t \in Threads : pc[t] = "gone"

\* The assertion of ~CScheduler (scheduler.cpp:19): however the threads ended,
\* stopped, drained or interrupted, the counter is back at 0.
DestructorFindsNoThread == AllGone => nThreadsServicingQueue = 0

\* stop(true) ends the threads "when there is no work left to be done"
\* (scheduler.h:65): when the last thread has left after a drain, no task is
\* queued, not even one that a running task scheduled after other threads had
\* found the queue empty.
DrainLeavesNothing ==
    AllGone /\ ~stopRequested /\ ~interrupted => taskQueue = {}

\* Tasks that are queued are taken by some thread, all that are due by the end
\* of the clock, though a notify_one may reach a thread that is about to time
\* out, and threads sleep without a deadline or until a later one, unless the
\* scheduler is told to stop without draining.
ScheduledTasksRun ==
    LET due == {e \in taskQueue : e.at <= MaxTime}
    IN  due # {} ~> due = {} \/ stopRequested \/ interrupted

\* Once told to stop, every thread leaves serviceQueue: no thread sleeps
\* through the notification.  A drain waits for the queue to be empty, which it
\* never is for good while a task repeats (Repeat schedules without a look at
\* stopWhenEmpty), so that one ends the threads when no task repeats.
StopEndsThreads ==
    /\ (stopRequested \/ interrupted) ~> AllGone
    /\ (stopWhenEmpty /\ \A f \in scheduled : Period[f] = 0) ~> AllGone

\* "Call func at/after time t" (scheduler.h:44).
TasksRunOnTime == \A t \in Threads : pc[t] = "run" => current[t].at <= now
=============================================================================
