--------------------------- MODULE SchedulerProofs ---------------------------
(***************************************************************************)
(* Proofs about Scheduler for any number of threads, any tasks and any     *)
(* bound on the clock.  IInv holds what the critical sections of           *)
(* serviceQueue keep true; OneThread adds what only holds while a single   *)
(* thread serves the queue, as in the node itself.                         *)
(***************************************************************************)
EXTENDS Scheduler, FiniteSetTheorems, TLAPS

Serving == {t \in Threads : pc[t] \notin {"new", "gone"}}

\* The counter is the number of threads inside serviceQueue, and the last
\* thread to leave has found the queue empty unless it was made to leave.
IInv ==
    /\ TypeOK
    /\ nThreadsServicingQueue = Cardinality(Serving)
    /\ AllGone => \/ interrupted \/ stopRequested
                  \/ stopWhenEmpty /\ taskQueue = {}

\* A thread that waits for a deadline still finds a task due by then.
DeadlineIsQueued ==
    \A t \in Threads :
        pc[t] = "wait_until" => \E e \in taskQueue : e.at <= until[t]

OneThread ==
    /\ TypeOK
    /\ DeadlineIsQueued
    /\ TasksRunOnTime

LEMMA FirstInQueue == First \subseteq taskQueue
BY DEF First

LEMMA NoEntryType == NoEntry \in Entries
BY SchedulerAssumption, SMT DEF NoEntry, Entries, Times

\* What notify_one does to the set of released threads.
LEMMA NotifyOneType ==
    ASSUME NEW W, NEW N, notify_one(W, N)
    PROVE  N \subseteq notified' /\ notified' \subseteq N \cup W
BY DEF notify_one

LEMMA LoopHeadType ==
    ASSUME TypeOK, NEW t \in Threads, NEW n \in Int, LoopHead(t, n),
           UNCHANGED <<now, taskQueue, current, callerVars>>
    PROVE  TypeOK'
<1>0. UNCHANGED <<now, taskQueue, current, stopRequested, stopWhenEmpty,
                  toNotify, toNotifyAll, interrupted, scheduled>>
  BY DEF callerVars
<1>1. notified' \subseteq Waiting'
  <2>1. CASE pc' = [pc EXCEPT ![t] = "gone"]
             /\ notify_one(Waiting \ (notified \cup {t}), notified \ {t})
    <3>1. notified' \subseteq Waiting \ {t}
      BY <2>1, NotifyOneType DEF TypeOK
    <3>2. QED
      BY <2>1, <3>1 DEF Waiting, TypeOK
  <2>2. CASE /\ pc' = [pc EXCEPT ![t] = "wait"]
                \/ pc' = [pc EXCEPT ![t] = "wait_until"]
             /\ notified' = notified \ {t}
    BY <2>2 DEF Waiting, TypeOK
  <2>3. QED
    BY <2>1, <2>2 DEF LoopHead
<1>2. until' \in [Threads -> Nat]
  <2>1. 0 \in Nat
    OBVIOUS
  <2>2. \A e \in First : e.at \in Nat
    BY FirstInQueue DEF TypeOK, Entries
  <2>3. QED
    BY <2>1, <2>2 DEF LoopHead, TypeOK
<1>3. nThreadsServicingQueue' \in Int
  BY DEF LoopHead
<1>4. pc' \in [Threads -> {"new", "wait", "wait_until", "run", "notify",
                           "relock", "gone"}]
  BY DEF LoopHead, TypeOK
<1>5. QED
  BY <1>0, <1>1, <1>2, <1>3, <1>4 DEF TypeOK

\* Taking the first entry.
LEMMA TakeFirstType ==
    ASSUME TypeOK, NEW t \in Threads, TakeFirst(t), UNCHANGED <<now, callerVars>>
    PROVE  TypeOK'
<1>0. UNCHANGED <<now, stopRequested, stopWhenEmpty, toNotify, toNotifyAll,
                  interrupted, scheduled>>
  BY DEF callerVars
<1>1. PICK e \in First : /\ taskQueue' = taskQueue \ {e}
                         /\ current' = [current EXCEPT ![t] = e]
  BY DEF TakeFirst
<1>2. e \in Entries /\ taskQueue' \subseteq Entries
  BY <1>1, FirstInQueue DEF TypeOK
<1>3. current' \in [Threads -> Entries]
  BY <1>1, <1>2 DEF TypeOK
<1>4. notified' \subseteq Waiting'
  BY DEF TakeFirst, Waiting, TypeOK
<1>5. until' \in [Threads -> Nat] /\ nThreadsServicingQueue' \in Int
  BY SchedulerAssumption DEF TakeFirst, TypeOK, Times
<1>6. pc' \in [Threads -> {"new", "wait", "wait_until", "run", "notify",
                           "relock", "gone"}]
  BY DEF TakeFirst, TypeOK
<1>7. QED
  BY <1>0, <1>2, <1>3, <1>4, <1>5, <1>6 DEF TypeOK

LEMMA InitTypeOK == Init => TypeOK
<1> SUFFICES ASSUME Init PROVE TypeOK
  OBVIOUS
<1>1. 0 \in Times
  BY SchedulerAssumption DEF Times
<1>2. current \in [Threads -> Entries]
  BY NoEntryType DEF Init
<1>3. pc \in [Threads -> {"new", "wait", "wait_until", "run", "notify",
                          "relock", "gone"}]
  BY DEF Init
<1>4. until \in [Threads -> Nat] /\ notified \subseteq Waiting
  BY <1>1 DEF Init
<1>5. /\ now \in Times /\ taskQueue \subseteq Entries
      /\ nThreadsServicingQueue \in Int /\ toNotify \in Nat
      /\ scheduled \subseteq Tasks
  BY <1>1 DEF Init
<1>6. /\ stopRequested \in BOOLEAN /\ stopWhenEmpty \in BOOLEAN
      /\ toNotifyAll \in BOOLEAN /\ interrupted \in BOOLEAN
  BY DEF Init
<1>7. QED
  BY <1>2, <1>3, <1>4, <1>5, <1>6 DEF TypeOK

LEMMA TypeStep == TypeOK /\ [Next]_vars => TypeOK'
<1> SUFFICES ASSUME TypeOK, [Next]_vars PROVE TypeOK'
  OBVIOUS
<1>1. CASE Tick
  BY <1>1, SchedulerAssumption DEF Tick, TypeOK, Times, Waiting, threadVars, callerVars
<1>2. ASSUME NEW f \in Tasks, NEW at \in Times, schedule(f, at) PROVE TypeOK'
  <2>1. [at |-> at, f |-> f] \in Entries
    BY SchedulerAssumption DEF Entries, Times
  <2>2. QED
    BY <1>2, <2>1 DEF schedule, TypeOK, Waiting, threadVars
<1>3. CASE ScheduleNotifies
  <2>1. notified' \subseteq Waiting
    BY <1>3, NotifyOneType DEF ScheduleNotifies, TypeOK
  <2>2. QED
    BY <1>3, <2>1 DEF ScheduleNotifies, TypeOK, Waiting, threadVars
<1>4. ASSUME NEW drain \in BOOLEAN, stop(drain) PROVE TypeOK'
  BY <1>4 DEF stop, TypeOK, Waiting, threadVars
<1>5. CASE StopNotifies
  BY <1>5 DEF StopNotifies, notify_all, TypeOK, Waiting, threadVars
<1>6. CASE Interrupt
  BY <1>6 DEF Interrupt, TypeOK, Waiting, threadVars
<1>7. ASSUME NEW t \in Threads, Step(t) PROVE TypeOK'
  <2>1. CASE Start(t)
    BY <2>1, LoopHeadType DEF Start, TypeOK
  <2>2. CASE Wake(t)
    BY <2>2, LoopHeadType DEF Wake, TypeOK
  <2>3. CASE TimeOut(t)
    BY <2>3, LoopHeadType, TakeFirstType DEF TimeOut, TimedOutThen, TypeOK
  <2>4. CASE Run(t)
    <3>1. taskQueue' \subseteq Entries
      BY <2>4, SchedulerAssumption DEF Run, TypeOK, Entries, Times
    <3>2. current' \in [Threads -> Entries]
      BY <2>4, NoEntryType DEF Run, TypeOK
    <3>3. pc' \in [Threads -> {"new", "wait", "wait_until", "run", "notify",
                               "relock", "gone"}]
      BY <2>4 DEF Run, TypeOK
    <3>4. notified' \subseteq Waiting'
      BY <2>4 DEF Run, TypeOK, Waiting
    <3>5. QED
      BY <2>4, <3>1, <3>2, <3>3, <3>4 DEF Run, TypeOK, callerVars
  <2>5. CASE RepeatNotifies(t)
    <3>1. notified' \subseteq Waiting
      BY <2>5, NotifyOneType DEF RepeatNotifies, TypeOK
    <3>2. Waiting' = Waiting
      BY <2>5 DEF RepeatNotifies, TypeOK, Waiting
    <3>3. QED
      BY <2>5, <3>1, <3>2 DEF RepeatNotifies, TypeOK, callerVars
  <2>6. CASE Relock(t)
    BY <2>6, LoopHeadType DEF Relock, TypeOK
  <2>7. CASE Interrupted(t)
    <3>1. notified' \subseteq Waiting'
      BY <2>7 DEF Interrupted, TypeOK, Waiting
    <3>2. current' \in [Threads -> Entries] /\ until' \in [Threads -> Nat]
      BY <2>7, NoEntryType, SchedulerAssumption DEF Interrupted, TypeOK, Times
    <3>3. QED
      BY <2>7, <3>1, <3>2 DEF Interrupted, TypeOK, callerVars
  <2>8. QED
    BY <1>7, <2>1, <2>2, <2>3, <2>4, <2>5, <2>6, <2>7 DEF Step
<1>8. CASE UNCHANGED vars
  BY <1>8 DEF vars, TypeOK, Waiting, threadVars, callerVars
<1>9. QED
  BY <1>1, <1>2, <1>3, <1>4, <1>5, <1>6, <1>7, <1>8 DEF Next

-----------------------------------------------------------------------------

\* The number of threads inside serviceQueue as one of them enters or leaves.
LEMMA ServingFinite == IsFiniteSet(Serving) /\ Cardinality(Serving) \in Nat
BY SchedulerAssumption, FS_Subset, FS_CardinalityType DEF Serving

LEMMA LoopHeadCount ==
    ASSUME TypeOK, NEW t \in Threads, NEW n \in Int, LoopHead(t, n),
           n = Cardinality(Serving \cup {t})
    PROVE  nThreadsServicingQueue' = Cardinality(Serving')
<1>1. CASE pc' = [pc EXCEPT ![t] = "gone"] /\ nThreadsServicingQueue' = n - 1
  <2>1. Serving' = (Serving \cup {t}) \ {t}
    BY <1>1 DEF Serving, TypeOK
  <2>2. IsFiniteSet(Serving \cup {t})
    BY ServingFinite, FS_AddElement
  <2>3. Cardinality(Serving') = Cardinality(Serving \cup {t}) - 1
    BY <2>1, <2>2, FS_RemoveElement
  <2>4. QED
    BY <1>1, <2>3
<1>2. CASE /\ pc' = [pc EXCEPT ![t] = "wait"]
              \/ pc' = [pc EXCEPT ![t] = "wait_until"]
           /\ nThreadsServicingQueue' = n
  <2>1. Serving' = Serving \cup {t}
    BY <1>2 DEF Serving, TypeOK
  <2>2. QED
    BY <1>2, <2>1
<1>3. QED
  BY <1>1, <1>2 DEF LoopHead

LEMMA InitIInv == Init => IInv
<1> SUFFICES ASSUME Init PROVE IInv
  OBVIOUS
<1>1. Serving = {} /\ ~AllGone
  BY SchedulerAssumption DEF Init, Serving, AllGone
<1>2. QED
  BY <1>1, InitTypeOK, FS_EmptySet DEF IInv, Init

LEMMA CountStep == IInv /\ [Next]_vars
                     => nThreadsServicingQueue' = Cardinality(Serving')
<1> SUFFICES ASSUME IInv, [Next]_vars
             PROVE  nThreadsServicingQueue' = Cardinality(Serving')
  OBVIOUS
<1>0. TypeOK /\ nThreadsServicingQueue = Cardinality(Serving)
  BY DEF IInv
<1>1. ASSUME UNCHANGED <<pc, nThreadsServicingQueue>>
      PROVE  nThreadsServicingQueue' = Cardinality(Serving')
  BY <1>0, <1>1 DEF Serving
<1>2. ASSUME NEW t \in Threads, Step(t)
      PROVE  nThreadsServicingQueue' = Cardinality(Serving')
  <2>1. CASE Start(t)
    <3>1. t \notin Serving
      BY <2>1 DEF Start, Serving
    <3>2. Cardinality(Serving \cup {t}) = nThreadsServicingQueue + 1
      BY <1>0, <3>1, ServingFinite, FS_AddElement
    <3>3. QED
      BY <1>0, <2>1, <3>2, LoopHeadCount DEF Start, TypeOK
  <2>2. ASSUME t \in Serving, LoopHead(t, nThreadsServicingQueue)
        PROVE  nThreadsServicingQueue' = Cardinality(Serving')
    <3>1. Serving \cup {t} = Serving
      BY <2>2
    <3>2. QED
      BY <1>0, <2>2, <3>1, LoopHeadCount DEF TypeOK
  <2>3. CASE Wake(t)
    BY <2>2, <2>3 DEF Wake, Waiting, Serving
  <2>4. CASE TimeOut(t)
    <3>1. CASE TakeFirst(t)
      <4>1. Serving' = Serving
        BY <1>0, <2>4, <3>1 DEF TimeOut, TakeFirst, Serving, TypeOK
      <4>2. QED
        BY <1>0, <3>1, <4>1 DEF TakeFirst
    <3>2. QED
      BY <2>2, <2>4, <3>1 DEF TimeOut, TimedOutThen, Serving
  <2>5. CASE Run(t) \/ RepeatNotifies(t)
    <3>1. Serving' = Serving
      BY <1>0, <2>5 DEF Run, RepeatNotifies, Serving, TypeOK
    <3>2. QED
      BY <1>0, <2>5, <3>1 DEF Run, RepeatNotifies
  <2>6. CASE Relock(t)
    BY <2>2, <2>6 DEF Relock, Serving
  <2>7. CASE Interrupted(t)
    <3>1. t \in Serving /\ Serving' = Serving \ {t}
      BY <1>0, <2>7 DEF Interrupted, Serving, TypeOK
    <3>2. Cardinality(Serving') = nThreadsServicingQueue - 1
      BY <1>0, <3>1, ServingFinite, FS_RemoveElement
    <3>3. QED
      BY <2>7, <3>2 DEF Interrupted
  <2>8. QED
    BY <1>2, <2>1, <2>3, <2>4, <2>5, <2>6, <2>7 DEF Step
<1>3. QED
  BY <1>1, <1>2 DEF Next, Tick, schedule, ScheduleNotifies, stop, StopNotifies,
                    Interrupt, threadVars, vars

\* Only a thread inside serviceQueue takes or adds a task once stop was
\* called, and one that returns has seen shouldStop().
LEMMA LastLeaverStep ==
    IInv /\ [Next]_vars
      => (AllGone => \/ interrupted \/ stopRequested
                     \/ stopWhenEmpty /\ taskQueue = {})'
<1> SUFFICES ASSUME IInv, [Next]_vars, AllGone'
             PROVE  (\/ interrupted \/ stopRequested
                     \/ stopWhenEmpty /\ taskQueue = {})'
  OBVIOUS
<1>0. TypeOK
  BY DEF IInv
<1>1. ASSUME UNCHANGED pc PROVE AllGone
  BY <1>1 DEF AllGone
<1>2. CASE \/ Tick \/ ScheduleNotifies \/ StopNotifies \/ Interrupt
           \/ UNCHANGED vars
  BY <1>1, <1>2 DEF IInv, Tick, ScheduleNotifies, StopNotifies, Interrupt,
                    vars, threadVars, callerVars
<1>3. ASSUME NEW f \in Tasks, NEW at \in Times, schedule(f, at) PROVE FALSE
  BY <1>1, <1>3 DEF IInv, schedule, threadVars
<1>4. ASSUME NEW drain \in BOOLEAN, stop(drain)
      PROVE (\/ interrupted \/ stopRequested
             \/ stopWhenEmpty /\ taskQueue = {})'
  BY <1>1, <1>4 DEF IInv, stop, threadVars
<1>5. ASSUME NEW t \in Threads, Step(t)
      PROVE (\/ interrupted \/ stopRequested
             \/ stopWhenEmpty /\ taskQueue = {})'
  <2>1. pc'[t] = "gone"
    BY DEF AllGone
  <2>2. ASSUME NEW n \in Int, LoopHead(t, n) PROVE shouldStop
    BY <1>0, <2>1, <2>2 DEF LoopHead, TypeOK
  <2>3. CASE Start(t) \/ Wake(t) \/ Relock(t)
    BY <1>0, <2>2, <2>3 DEF Start, Wake, Relock, shouldStop, callerVars, TypeOK
  <2>4. CASE TimeOut(t)
    BY <1>0, <2>1, <2>2, <2>4
       DEF TimeOut, TimedOutThen, TakeFirst, shouldStop, callerVars, TypeOK
  <2>5. CASE Interrupted(t)
    BY <2>5 DEF Interrupted, callerVars
  <2>6. CASE Run(t) \/ RepeatNotifies(t)
    BY <1>0, <2>1, <2>6 DEF Run, RepeatNotifies, TypeOK
  <2>7. QED
    BY <1>5, <2>3, <2>4, <2>5, <2>6 DEF Step
<1>6. QED
  BY <1>2, <1>3, <1>4, <1>5 DEF Next

\* ~CScheduler's assertion holds whenever the last thread has ended, for any
\* number of threads and every way of ending them.
THEOREM DestructorAssertionHolds == Spec => []DestructorFindsNoThread
<1>1. IInv /\ [Next]_vars => IInv'
  BY TypeStep, CountStep, LastLeaverStep DEF IInv
<1>2. IInv => DestructorFindsNoThread
  <2> SUFFICES ASSUME IInv, AllGone PROVE nThreadsServicingQueue = 0
    BY DEF DestructorFindsNoThread
  <2>1. Serving = {}
    BY DEF AllGone, Serving
  <2>2. QED
    BY <2>1, FS_EmptySet DEF IInv
<1>3. QED
  BY InitIInv, <1>1, <1>2, PTL DEF Spec

\* A drain leaves no task behind, for any number of threads.
THEOREM DrainIsComplete == Spec => []DrainLeavesNothing
<1>1. IInv /\ [Next]_vars => IInv'
  BY TypeStep, CountStep, LastLeaverStep DEF IInv
<1>2. IInv => DrainLeavesNothing
  BY DEF IInv, DrainLeavesNothing
<1>3. QED
  BY InitIInv, <1>1, <1>2, PTL DEF Spec

-----------------------------------------------------------------------------

\* With one thread nobody else can take the task a deadline belongs to: what
\* the thread takes after a timeout is due.  (With two it need not be: the
\* other may take that task while the timed-out thread waits for the mutex.)
LEMMA OneThreadStep ==
    ASSUME NEW th, Threads = {th}
    PROVE  OneThread /\ [Next]_vars => OneThread'
<1> SUFFICES ASSUME OneThread, [Next]_vars PROVE DeadlineIsQueued' /\ TasksRunOnTime'
  BY TypeStep DEF OneThread
<1>0. TypeOK /\ DeadlineIsQueued /\ TasksRunOnTime
  BY DEF OneThread
<1>1. CASE Tick
  <2>1. now' \in Int /\ now' >= now
    BY <1>0, <1>1 DEF Tick, TypeOK, Times
  <2>2. \A t \in Threads : current[t].at \in Int /\ now \in Int
    BY <1>0, SchedulerAssumption DEF TypeOK, Entries, Times
  <2>3. TasksRunOnTime'
    BY <1>0, <1>1, <2>1, <2>2 DEF Tick, TasksRunOnTime, threadVars
  <2>4. QED
    BY <1>0, <1>1, <2>3 DEF Tick, DeadlineIsQueued, threadVars
<1>2. ASSUME NEW f \in Tasks, NEW at \in Times, schedule(f, at)
      PROVE  DeadlineIsQueued' /\ TasksRunOnTime'
  BY <1>0, <1>2 DEF schedule, DeadlineIsQueued, TasksRunOnTime, threadVars
<1>3. ASSUME NEW drain \in BOOLEAN, stop(drain)
      PROVE  DeadlineIsQueued' /\ TasksRunOnTime'
  BY <1>0, <1>3 DEF stop, DeadlineIsQueued, TasksRunOnTime, threadVars
<1>4. CASE ScheduleNotifies \/ StopNotifies \/ Interrupt \/ UNCHANGED vars
  BY <1>0, <1>4 DEF ScheduleNotifies, StopNotifies, Interrupt, vars,
                    DeadlineIsQueued, TasksRunOnTime, threadVars
<1>5. ASSUME NEW t \in Threads, Step(t)
      PROVE  DeadlineIsQueued' /\ TasksRunOnTime'
  <2>0. \A u \in Threads : u = t
    OBVIOUS
  <2>1. ASSUME NEW n \in Int, LoopHead(t, n), UNCHANGED <<taskQueue>>
        PROVE  DeadlineIsQueued' /\ TasksRunOnTime'
    <3>1. CASE pc'[t] = "gone" \/ pc'[t] = "wait"
      BY <2>0, <3>1 DEF DeadlineIsQueued, TasksRunOnTime
    <3>2. CASE /\ \E e \in First : until' = [until EXCEPT ![t] = e.at]
               /\ pc' = [pc EXCEPT ![t] = "wait_until"]
      <4>1. PICK e \in First : until' = [until EXCEPT ![t] = e.at]
        BY <3>2
      <4>2. e \in taskQueue' /\ e.at \in Int /\ until'[t] = e.at
        BY <1>0, <2>1, <4>1, FirstInQueue DEF TypeOK, Entries, Times
      <4>3. pc'[t] = "wait_until"
        BY <1>0, <3>2 DEF TypeOK
      <4>4. QED
        BY <2>0, <4>2, <4>3 DEF DeadlineIsQueued, TasksRunOnTime
    <3>3. QED
      BY <1>0, <2>1, <3>1, <3>2 DEF LoopHead, TypeOK
  <2>2. CASE Start(t) \/ Wake(t) \/ Relock(t)
    BY <1>0, <2>1, <2>2 DEF Start, Wake, Relock, TypeOK
  <2>3. CASE TimeOut(t)
    <3>1. CASE TakeFirst(t)
      <4>1. PICK e \in First : current' = [current EXCEPT ![t] = e]
        BY <3>1 DEF TakeFirst
      <4>2. PICK d \in taskQueue : d.at <= until[t]
        BY <1>0, <2>3 DEF TimeOut, DeadlineIsQueued
      <4>3. e.at <= d.at
        BY <4>1 DEF First
      <4>4. e.at \in Int /\ d.at \in Int /\ until[t] \in Int /\ now \in Int
        BY <1>0, <4>1, FirstInQueue DEF TypeOK, Entries, Times
      <4>5. e.at <= now
        BY <2>3, <4>2, <4>3, <4>4 DEF TimeOut
      <4>6. current'[t] = e /\ now' = now /\ pc'[t] = "run"
        BY <1>0, <2>3, <3>1, <4>1 DEF TimeOut, TakeFirst, TypeOK
      <4>7. QED
        BY <2>0, <4>5, <4>6 DEF DeadlineIsQueued, TasksRunOnTime
    <3>2. QED
      BY <1>0, <2>1, <2>3, <3>1 DEF TimeOut, TimedOutThen, TypeOK
  <2>4. CASE Run(t) \/ RepeatNotifies(t) \/ Interrupted(t)
    <3>1. pc'[t] \in {"notify", "relock", "gone"}
      BY <1>0, <2>4 DEF Run, RepeatNotifies, Interrupted, TypeOK
    <3>2. QED
      BY <2>0, <3>1 DEF DeadlineIsQueued, TasksRunOnTime
  <2>5. QED
    BY <1>5, <2>2, <2>3, <2>4 DEF Step
<1>6. QED
  BY <1>1, <1>2, <1>3, <1>4, <1>5 DEF Next

\* "Call func at/after time t" (scheduler.h:44) with the single scheduler
\* thread that AppInit starts.
THEOREM OneThreadRunsOnTime ==
    ASSUME NEW th, Threads = {th}
    PROVE  Spec => []TasksRunOnTime
<1>1. Init => OneThread
  <2> SUFFICES ASSUME Init PROVE DeadlineIsQueued /\ TasksRunOnTime
    BY InitTypeOK DEF OneThread
  <2>1. \A t \in Threads : pc[t] = "new"
    BY DEF Init
  <2>2. QED
    BY <2>1 DEF DeadlineIsQueued, TasksRunOnTime
<1>2. OneThread /\ [Next]_vars => OneThread'
  BY OneThreadStep
<1>3. OneThread => TasksRunOnTime
  BY DEF OneThread
<1>4. QED
  BY <1>1, <1>2, <1>3, PTL DEF Spec
=============================================================================
