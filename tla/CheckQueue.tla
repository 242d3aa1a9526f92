----------------------------- MODULE CheckQueue -----------------------------
(***************************************************************************)
(* The script-verification queue of src/src/checkqueue.h (CCheckQueue and  *)
(* CCheckQueueControl) as ConnectBlock uses it: one master thread adds     *)
(* batches of checks for a block, joins the N-1 workers, and returns the   *)
(* conjunction of all the results.                                         *)
(*                                                                         *)
(* Every critical section of Loop is one action: the mutex is held from    *)
(* its acquisition to the next cond.wait, to the end of the block (a batch *)
(* was taken), or to the return.  Batches run outside the mutex.           *)
(*                                                                         *)
(* Abstractions: a check is an identity with a fixed verdict (Bad holds    *)
(* the ones whose operator() is false).  The LIFO vector is a set: a batch *)
(* is any nNow elements, of which the code's choice is one.  fQuit is      *)
(* never assigned outside the constructor, so the workers' exit branch is  *)
(* not reachable; threads leave by interruption at shutdown, which is not  *)
(* modelled.                                                               *)
(***************************************************************************)
EXTENDS Integers, FiniteSets

CONSTANTS
    Workers,      \* the threads of ThreadScriptCheck
    Master,       \* the thread that runs ConnectBlock
    Checks,       \* the checks a block can contain
    Bad,          \* the checks whose operator() returns false
    nBatchSize    \* the constructor's argument (128 for scriptcheckqueue)

ASSUME ConstantsAssumption ==
    /\ IsFiniteSet(Workers) /\ IsFiniteSet(Checks)
    /\ Master \notin Workers
    /\ Bad \subseteq Checks
    /\ nBatchSize \in Nat \ {0}

VARIABLES
    queue,        \* checks not yet taken by any thread
    nIdle, nTotal, nTodo,
    fAllOk,
    pc,           \* where each thread is
    batch,        \* vChecks of each thread (nNow is its size)
    fOk,          \* the local fOk of each thread
    notified,     \* waiting threads that a notify has released
    added,        \* the checks of the current block, for the properties
    fRet          \* the last value Loop(true) returned

vars == <<queue, nIdle, nTotal, nTodo, fAllOk, pc, batch, fOk, notified,
          added, fRet>>

Threads == Workers \cup {Master}

Waiting == {t \in Threads : pc[t] = "wait"}
Working == {t \in Threads : pc[t] \in {"work", "relock"}}

\* Loop: how many elements a thread takes, given nTotal and nIdle.
BatchLimit(size, total, idle) ==
    LET share == size \div (total + idle + 1)
        least == IF nBatchSize < share THEN nBatchSize ELSE share
    IN  IF least < 1 THEN 1 ELSE least

\* notify_one and notify_all on a condition variable with waiters W.
NotifyOne(W) ==
    IF W \ notified = {} THEN UNCHANGED notified
    ELSE \E t \in W \ notified : notified' = notified \cup {t}

NotifyAll(W) == notified' = notified \cup W

\* What a finished batch leaves of nTodo (nTodo -= nNow).
BatchSizeOff(t) == nTodo - nBatchSize

Left(t) == nTodo - Cardinality(batch[t])

\* fAllOk &= fOk: another thread may have failed since this one took its batch.
LastVerdictOnly(t) == fOk[t]

Merged(t) == fAllOk /\ fOk[t]

\* The test on which Loop(true) returns, once the queue is empty.
QueueEmptySuffices(t, todo) == t = Master

MasterDone(t, todo) == t = Master /\ todo = 0

\* The cleanup wakes the master if a worker finished the last batch.
NeverLast(t, todo) == FALSE

LastOfWorkers(t, todo) == todo = 0 /\ t # Master

-----------------------------------------------------------------------------

Init ==
    /\ queue = {}
    /\ nIdle = 0 /\ nTotal = 0 /\ nTodo = 0
    /\ fAllOk = TRUE
    /\ pc = [t \in Threads |-> "out"]
    /\ batch = [t \in Threads |-> {}]
    /\ fOk = [t \in Threads |-> TRUE]
    /\ notified = {}
    /\ added = {}
    /\ fRet = TRUE

\* Loop from "logically, the do loop starts here" to the end of the critical
\* section: return, wait, or take a batch.  The arguments are the values of
\* the shared counters when the thread gets there.
LoopBody(t, todo, ok, total, idle) ==
    /\ nTodo' = todo
    /\ \/ /\ queue = {} /\ MasterDone(t, todo)
          /\ nTotal' = total - 1
          /\ nIdle' = idle
          /\ fRet' = ok
          /\ fAllOk' = TRUE
          /\ pc' = [pc EXCEPT ![t] = "out"]
          /\ batch' = [batch EXCEPT ![t] = {}]
          /\ UNCHANGED <<queue, fOk>>
       \/ /\ queue = {} /\ ~MasterDone(t, todo)
          /\ nTotal' = total
          /\ nIdle' = idle + 1
          /\ fAllOk' = ok
          /\ pc' = [pc EXCEPT ![t] = "wait"]
          /\ batch' = [batch EXCEPT ![t] = {}]
          /\ UNCHANGED <<queue, fOk, fRet>>
       \/ /\ queue # {}
          /\ \E S \in SUBSET queue :
                /\ Cardinality(S) = BatchLimit(Cardinality(queue), total, idle)
                /\ queue' = queue \ S
                /\ batch' = [batch EXCEPT ![t] = S]
          /\ nTotal' = total
          /\ nIdle' = idle
          /\ fAllOk' = ok
          /\ fOk' = [fOk EXCEPT ![t] = ok]
          /\ pc' = [pc EXCEPT ![t] = "work"]
          /\ UNCHANGED fRet

\* CCheckQueueControl's constructor: a block starts with an idle queue.
Control ==
    /\ pc[Master] = "out"
    /\ pc' = [pc EXCEPT ![Master] = "adding"]
    /\ added' = {}
    /\ UNCHANGED <<queue, nIdle, nTotal, nTodo, fAllOk, batch, fOk, notified, fRet>>

\* CCheckQueueControl::Add / CCheckQueue::Add.
Add(S) ==
    /\ pc[Master] = "adding"
    /\ queue' = queue \cup S
    /\ nTodo' = nTodo + Cardinality(S)
    /\ added' = added \cup S
    /\ IF Cardinality(S) = 1 THEN NotifyOne(Waiting \ {Master})
       ELSE IF Cardinality(S) > 1 THEN NotifyAll(Waiting \ {Master})
       ELSE UNCHANGED notified
    /\ UNCHANGED <<nIdle, nTotal, fAllOk, pc, batch, fOk, fRet>>

\* Loop, first iteration: a worker's Thread(), or the master's Wait().
Enter(t) ==
    /\ pc[t] = IF t = Master THEN "adding" ELSE "out"
    /\ LoopBody(t, nTodo, fAllOk, nTotal + 1, nIdle)
    /\ UNCHANGED <<notified, added>>

\* The batch runs; checks after the first failure are skipped.
Work(t) ==
    /\ pc[t] = "work"
    /\ fOk' = [fOk EXCEPT ![t] = @ /\ batch[t] \cap Bad = {}]
    /\ pc' = [pc EXCEPT ![t] = "relock"]
    /\ UNCHANGED <<queue, nIdle, nTotal, nTodo, fAllOk, batch, notified, added, fRet>>

\* Loop, later iterations: account for the finished batch, tell the master
\* if it was the last one, go on.
Relock(t) ==
    /\ pc[t] = "relock"
    /\ IF LastOfWorkers(t, Left(t)) THEN NotifyOne(Waiting \cap {Master})
       ELSE UNCHANGED notified
    /\ LoopBody(t, Left(t), Merged(t), nTotal, nIdle)
    /\ UNCHANGED added

WakeStillIdle(t) ==
    /\ pc[t] = "wait"
    /\ notified' = notified \ {t}
    /\ LoopBody(t, nTodo, fAllOk, nTotal, nIdle)
    /\ UNCHANGED added

\* cond.wait returns, after a notify or spuriously.
Wake(t) ==
    /\ pc[t] = "wait"
    /\ notified' = notified \ {t}
    /\ LoopBody(t, nTodo, fAllOk, nTotal, nIdle - 1)
    /\ UNCHANGED added

Step(t) == Enter(t) \/ Work(t) \/ Relock(t) \/ Wake(t)

Next ==
    \/ Control
    \/ \E S \in SUBSET (Checks \ added) : Add(S)
    \/ \E t \in Threads : Step(t)

Spec == Init /\ [][Next]_vars

\* Threads keep running, and a thread that was notified leaves its wait.
\* Nothing makes a spurious wakeup happen, and nothing makes a block arrive.
NotifiedWake(t) == t \in notified /\ Wake(t)

FairSpec ==
    /\ Spec
    /\ \A t \in Threads : WF_vars(Work(t) \/ Relock(t) \/ NotifiedWake(t))
    /\ WF_vars(Enter(Master))

-----------------------------------------------------------------------------

TypeOK ==
    /\ queue \subseteq Checks /\ added \subseteq Checks
    /\ nIdle \in Nat /\ nTotal \in Nat /\ nTodo \in Nat
    /\ fAllOk \in BOOLEAN /\ fRet \in BOOLEAN
    /\ pc \in [Threads -> {"out", "adding", "wait", "work", "relock"}]
    /\ batch \in [Threads -> SUBSET Checks]
    /\ fOk \in [Threads -> BOOLEAN]
    /\ notified \subseteq Threads

Pending == queue \cup UNION {batch[t] : t \in Threads}

\* The assert in CCheckQueueControl's constructor (checkqueue.h:189): whenever
\* a new block starts, IsIdle() holds - every worker that entered the pool is
\* counted idle, nothing is left to do, and no earlier block's failure is left
\* in fAllOk.
ControlFindsIdle ==
    pc[Master] = "out" => nTotal = nIdle /\ nTodo = 0 /\ fAllOk

\* What CCheckQueueControl::Wait promises ConnectBlock: it returns true exactly
\* when every check added for this block succeeds, whichever thread ran it and
\* whatever an earlier block's checks did.
WaitReturnsConjunction ==
    pc[Master] = "out" => fRet = (added \cap Bad = {})

\* nTodo counts exactly the checks that are queued or in some thread's batch,
\* so that it reaches 0 only when all work is done and never underflows.
NTodoCountsPending == nTodo = Cardinality(Pending)

\* nIdle counts the threads blocked in cond.wait and nTotal the threads inside
\* Loop, so the share each thread takes is computed from the real pool size.
PoolCounters ==
    /\ nIdle = Cardinality(Waiting)
    /\ nTotal = Cardinality(Waiting \cup Working)

\* The strengthening under which the invariants above are inductive: batches
\* are disjoint and belong to working threads, only the master adds, all the
\* pending checks are of this block, and fAllOk, the threads' fOk and fRet say
\* of the checks already done what they should.
BatchesDisjoint ==
    \A t \in Threads :
        /\ batch[t] \cap queue = {}
        /\ \A u \in Threads \ {t} : batch[t] \cap batch[u] = {}
        /\ batch[t] # {} <=> t \in Working

VerdictsSound ==
    /\ fAllOk /\ pc[Master] # "out" => Bad \cap (added \ Pending) = {}
    /\ ~fAllOk => Bad \cap added # {}
    /\ \A t \in Working : ~fOk[t] => Bad \cap added # {}
    /\ \A t \in Threads : pc[t] = "relock" /\ fOk[t] => batch[t] \cap Bad = {}

\* The inductive invariant of CheckQueueProofs: what Loop's critical sections
\* keep true between them.
IInv ==
    /\ TypeOK
    /\ BatchesDisjoint
    /\ \A t \in Workers : pc[t] # "adding"
    /\ Pending \subseteq added
    /\ NTodoCountsPending
    /\ PoolCounters
    /\ VerdictsSound
    /\ pc[Master] = "out" => nTodo = 0 /\ fAllOk
    /\ WaitReturnsConjunction

\* A block's Wait() returns: the master never sleeps for ever on condMaster,
\* even if no worker ever starts.
WaitReturns == pc[Master] = "adding" ~> pc[Master] = "out"
=============================================================================
