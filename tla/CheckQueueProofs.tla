-------------------------- MODULE CheckQueueProofs --------------------------
(***************************************************************************)
(* Proofs about CheckQueue for any pool size, any set of checks and any    *)
(* batch size.  IInv is inductive; the invariants the runs check follow.   *)
(*                                                                         *)
(* Enter, Relock and Wake all end in LoopBody.  Mid states what holds at   *)
(* the point where they reach it (the thread t holds no batch any more and *)
(* is counted in total but not in idle), so each of the three only has to  *)
(* establish Mid, and LoopBody is argued once.                             *)
(***************************************************************************)
EXTENDS CheckQueue, FiniteSetTheorems, TLAPS

Others(t) == queue \cup UNION {batch[u] : u \in Threads \ {t}}

Mid(t, todo, ok, total, idle) ==
    /\ pc[Master] # "out" \/ (t # Master /\ todo = 0 /\ ok)
    /\ todo = Cardinality(Others(t))
    /\ idle = Cardinality(Waiting \ {t})
    /\ total = Cardinality(Waiting \cup Working \cup {t})
    /\ ok /\ pc[Master] # "out" => Bad \cap (added \ Others(t)) = {}
    /\ ~ok => Bad \cap added # {}

\* The sets whose sizes the counters hold are finite.
LEMMA Finiteness ==
    ASSUME TypeOK
    PROVE  /\ IsFiniteSet(Threads)
           /\ \A S \in SUBSET Threads : IsFiniteSet(S) /\ Cardinality(S) \in Nat
           /\ \A S \in SUBSET Checks : IsFiniteSet(S) /\ Cardinality(S) \in Nat
           /\ Pending \subseteq Checks
           /\ \A t \in Threads : Others(t) \subseteq Checks
<1>1. IsFiniteSet(Threads)
  BY ConstantsAssumption, FS_AddElement DEF Threads
<1>2. \A S \in SUBSET Threads : IsFiniteSet(S) /\ Cardinality(S) \in Nat
  BY <1>1, FS_Subset, FS_CardinalityType
<1>3. \A S \in SUBSET Checks : IsFiniteSet(S) /\ Cardinality(S) \in Nat
  BY ConstantsAssumption, FS_Subset, FS_CardinalityType
<1>4. Pending \subseteq Checks
  BY DEF Pending, TypeOK
<1>5. \A t \in Threads : Others(t) \subseteq Checks
  BY DEF Others, TypeOK
<1>6. QED
  BY <1>1, <1>2, <1>3, <1>4, <1>5

\* The size of a union of two disjoint finite sets.
LEMMA DisjointUnion ==
    ASSUME NEW A, NEW B, IsFiniteSet(A), IsFiniteSet(B), A \cap B = {}
    PROVE  Cardinality(A \cup B) = Cardinality(A) + Cardinality(B)
<1>1. Cardinality(A \cup B)
        = Cardinality(A) + Cardinality(B) - Cardinality(A \cap B)
  BY FS_Union
<1>2. Cardinality(A \cap B) = 0
  BY FS_EmptySet
<1>3. Cardinality(A) \in Nat /\ Cardinality(B) \in Nat
  BY FS_CardinalityType
<1>4. QED
  BY <1>1, <1>2, <1>3

\* A batch has at least one element and at most nBatchSize or the whole share.
LEMMA BatchLimitPositive ==
    ASSUME NEW size \in Nat, NEW total \in Nat, NEW idle \in Nat
    PROVE  BatchLimit(size, total, idle) >= 1
<1> DEFINE share == size \div (total + idle + 1)
<1>1. share \in Int
  OBVIOUS
<1> HIDE DEF share
<1>2. BatchLimit(size, total, idle)
        = LET least == IF nBatchSize < share THEN nBatchSize ELSE share
          IN  IF least < 1 THEN 1 ELSE least
  BY DEF BatchLimit, share
<1>3. QED
  BY <1>1, <1>2, ConstantsAssumption

\* LoopBody restores the invariant from the state its callers leave it.
LEMMA LoopBodyKeepsIInv ==
    ASSUME NEW t \in Threads, NEW todo \in Nat, NEW ok \in BOOLEAN,
           NEW total \in Nat, NEW idle \in Nat,
           IInv,
           Mid(t, todo, ok, total, idle),
           LoopBody(t, todo, ok, total, idle),
           notified' \subseteq Threads, added' = added
    PROVE  IInv'
<1> DEFINE ret  == queue = {} /\ MasterDone(t, todo)
           wait == queue = {} /\ ~MasterDone(t, todo)
<1>1. \A u \in Threads \ {t} : pc'[u] = pc[u] /\ batch'[u] = batch[u] /\ fOk'[u] = fOk[u]
  BY DEF LoopBody, IInv, TypeOK
<1>2. CASE ret
  <2>1. /\ queue' = {} /\ queue = {} /\ t = Master /\ todo = 0
        /\ nTotal' = total - 1 /\ nIdle' = idle /\ nTodo' = 0
        /\ fRet' = ok /\ fAllOk' = TRUE
        /\ pc' = [pc EXCEPT ![t] = "out"]
        /\ batch' = [batch EXCEPT ![t] = {}]
        /\ fOk' = fOk
    BY <1>2 DEF LoopBody, MasterDone
  <2>2. Others(t) = {}
    BY <2>1, Finiteness, FS_EmptySet DEF Mid, IInv
  <2>3. \A u \in Threads : batch'[u] = {} /\ u \notin Working'
    BY <2>1, <2>2, <1>1 DEF Others, IInv, TypeOK, BatchesDisjoint, Working
  <2>4. Pending' = {}
    BY <2>1, <2>3 DEF Pending
  <2>5. Waiting' = Waiting \ {t} /\ Working' = {} /\ Working \subseteq {t}
    BY <2>1, <2>2, <2>3, <1>1 DEF Waiting, Working, IInv, TypeOK, Others, BatchesDisjoint
  <2>6. nIdle' = Cardinality(Waiting')
    BY <2>1, <2>5 DEF Mid
  <2>7. nTotal' = Cardinality((Waiting \cup Working)')
    <3>1. Waiting \cup Working \cup {t} = (Waiting \ {t}) \cup {t}
      BY <2>5
    <3>2. Waiting \ {t} \in SUBSET Threads
      BY DEF Waiting
    <3>3. Cardinality((Waiting \ {t}) \cup {t}) = Cardinality(Waiting \ {t}) + 1
      BY <3>2, Finiteness, FS_AddElement DEF IInv
    <3>4. (Waiting \cup Working)' = Waiting \ {t}
      BY <2>5
    <3>5. Cardinality(Waiting \ {t}) \in Nat
      BY <3>2, Finiteness DEF IInv
    <3>6. QED
      <4>1. total = Cardinality(Waiting \cup Working \cup {t})
        BY DEF Mid
      <4>2. total = Cardinality(Waiting \ {t}) + 1
        BY <3>1, <3>3, <4>1
      <4>3. nTotal' = Cardinality(Waiting \ {t})
        BY <2>1, <3>5, <4>2
      <4>4. QED
        BY <3>4, <4>3
  <2>8. TypeOK'
    <3>1. nTotal' \in Nat
      <4>1. (Waiting \cup Working)' \in SUBSET Threads
        BY <2>5 DEF Waiting
      <4>2. QED
        BY <2>7, <4>1, Finiteness DEF IInv
    <3>2. QED
      BY <2>1, <3>1 DEF IInv, TypeOK
  <2>9. BatchesDisjoint'
    BY <2>3, <2>1 DEF BatchesDisjoint
  <2>10. (\A u \in Workers : pc[u] # "adding")'
    BY <2>1, <1>1 DEF IInv, TypeOK, Threads
  <2>11. NTodoCountsPending'
    BY <2>1, <2>4, FS_EmptySet DEF NTodoCountsPending
  <2>12. pc'[Master] = "out"
    BY <2>1 DEF IInv, TypeOK, Threads
  <2>13. pc[Master] # "out"
    BY <2>1 DEF Mid
  <2>14. fRet' = (added' \cap Bad = {})
    BY <2>1, <2>2, <2>13 DEF Mid
  <2>15. VerdictsSound'
    BY <2>1, <2>3, <2>5, <2>12 DEF VerdictsSound
  <2>16. QED
    BY <2>1, <2>4, <2>6, <2>7, <2>8, <2>9, <2>10, <2>11, <2>14, <2>15
       DEF IInv, PoolCounters, WaitReturnsConjunction
<1>3. CASE wait
  <2>1. /\ queue' = {} /\ queue = {}
        /\ nTotal' = total /\ nIdle' = idle + 1 /\ nTodo' = todo
        /\ fRet' = fRet /\ fAllOk' = ok
        /\ pc' = [pc EXCEPT ![t] = "wait"]
        /\ batch' = [batch EXCEPT ![t] = {}]
        /\ fOk' = fOk
    BY <1>3 DEF LoopBody
  <2>2. Pending' = Others(t)
    BY <2>1, <1>1 DEF Pending, Others, IInv, TypeOK
  <2>3. Waiting' = (Waiting \ {t}) \cup {t}
    BY <2>1, <1>1 DEF Waiting, IInv, TypeOK
  <2>4. (Waiting \cup Working)' = Waiting \cup Working \cup {t}
    BY <2>1, <1>1 DEF Waiting, Working, IInv, TypeOK
  <2>5. nIdle' = Cardinality(Waiting')
    <3>1. Waiting \ {t} \in SUBSET Threads
      BY DEF Waiting
    <3>2. Cardinality((Waiting \ {t}) \cup {t}) = Cardinality(Waiting \ {t}) + 1
      BY <3>1, Finiteness, FS_AddElement DEF IInv
    <3>3. QED
      BY <2>1, <2>3, <3>2 DEF Mid
  <2>6. nTotal' = Cardinality((Waiting \cup Working)')
    BY <2>1, <2>4 DEF Mid
  <2>7. TypeOK'
    BY <2>1 DEF IInv, TypeOK
  <2>8. BatchesDisjoint'
    BY <2>1, <1>1 DEF IInv, TypeOK, BatchesDisjoint, Working
  <2>9. (\A u \in Workers : pc[u] # "adding")'
    BY <2>1, <1>1 DEF IInv, TypeOK, Threads
  <2>10. NTodoCountsPending'
    BY <2>1, <2>2 DEF NTodoCountsPending, Mid
  <2>11. Others(t) \subseteq added
    BY DEF IInv, Others, Pending
  <2>12. pc'[Master] = "out" <=> pc[Master] = "out" /\ t # Master
    BY <2>1 DEF IInv, TypeOK, Threads
  <2>13. pc[Master] = "out" => t # Master
    BY DEF Mid
  <2>14. VerdictsSound'
    BY <2>1, <2>2, <2>12, <2>13, <1>1 DEF VerdictsSound, IInv, Mid, Working, TypeOK
  <2>15. (pc[Master] = "out" => nTodo = 0 /\ fAllOk)'
    BY <2>1, <2>12 DEF Mid
  <2>16. WaitReturnsConjunction'
    BY <2>1, <2>12 DEF WaitReturnsConjunction, IInv
  <2>17. QED
    BY <2>2, <2>5, <2>6, <2>7, <2>8, <2>9, <2>10, <2>11, <2>14, <2>15, <2>16
       DEF IInv, PoolCounters
<1>4. CASE queue # {}
  <2>1. PICK S \in SUBSET queue :
           /\ Cardinality(S) = BatchLimit(Cardinality(queue), total, idle)
           /\ queue' = queue \ S
           /\ batch' = [batch EXCEPT ![t] = S]
    BY <1>4 DEF LoopBody
  <2>2. /\ nTotal' = total /\ nIdle' = idle /\ nTodo' = todo
        /\ fRet' = fRet /\ fAllOk' = ok
        /\ pc' = [pc EXCEPT ![t] = "work"]
        /\ fOk' = [fOk EXCEPT ![t] = ok]
    BY <1>4 DEF LoopBody
  <2>3. S # {}
    <3>1. Cardinality(queue) \in Nat
      BY Finiteness DEF IInv, TypeOK
    <3>2. QED
      BY <2>1, <3>1, BatchLimitPositive, FS_EmptySet
  <2>4. Pending' = Others(t)
    BY <2>1, <1>1 DEF Pending, Others, IInv, TypeOK
  <2>5. Waiting' = Waiting \ {t}
    BY <2>2, <1>1 DEF Waiting, IInv, TypeOK
  <2>6. (Waiting \cup Working)' = Waiting \cup Working \cup {t}
    BY <2>2, <1>1 DEF Waiting, Working, IInv, TypeOK
  <2>7. PoolCounters'
    BY <2>2, <2>5, <2>6 DEF Mid, PoolCounters
  <2>8. TypeOK'
    BY <2>1, <2>2 DEF IInv, TypeOK
  <2>9. BatchesDisjoint'
    BY <2>1, <2>2, <2>3, <1>1 DEF IInv, TypeOK, BatchesDisjoint, Working
  <2>10. (\A u \in Workers : pc[u] # "adding")'
    BY <2>2, <1>1 DEF IInv, TypeOK, Threads
  <2>11. NTodoCountsPending'
    BY <2>2, <2>4 DEF NTodoCountsPending, Mid
  <2>12. Others(t) \subseteq added
    BY DEF IInv, Others, Pending
  <2>13. pc'[Master] = "out" <=> pc[Master] = "out" /\ t # Master
    BY <2>2 DEF IInv, TypeOK, Threads
  <2>14. pc[Master] = "out" => t # Master
    BY DEF Mid
  <2>15. VerdictsSound'
    BY <2>1, <2>2, <2>4, <2>13, <2>14, <1>1 DEF VerdictsSound, IInv, Mid, Working, TypeOK
  <2>16. (pc[Master] = "out" => nTodo = 0 /\ fAllOk)'
    BY <2>2, <2>13 DEF Mid
  <2>17. WaitReturnsConjunction'
    BY <2>2, <2>13 DEF WaitReturnsConjunction, IInv
  <2>18. QED
    BY <2>4, <2>7, <2>8, <2>9, <2>10, <2>11, <2>12, <2>15, <2>16, <2>17 DEF IInv
<1>5. QED
  BY <1>2, <1>3, <1>4

\* The first iteration of Loop: the thread is not yet counted and holds nothing.
LEMMA EnterReachesMid ==
    ASSUME IInv, NEW t \in Threads,
           pc[t] = IF t = Master THEN "adding" ELSE "out"
    PROVE  Mid(t, nTodo, fAllOk, nTotal + 1, nIdle)
<1>1. batch[t] = {} /\ t \notin Waiting /\ t \notin Working
  BY DEF IInv, BatchesDisjoint, Waiting, Working
<1>2. Others(t) = Pending
  BY <1>1 DEF Others, Pending
<1>3. Waiting \ {t} = Waiting
  BY <1>1
<1>4. Cardinality(Waiting \cup Working \cup {t}) = nTotal + 1
  <2>1. Waiting \cup Working \in SUBSET Threads
    BY DEF Waiting, Working
  <2>2. QED
    BY <1>1, <2>1, Finiteness, FS_AddElement DEF IInv, PoolCounters
<1>5. QED
  BY <1>2, <1>3, <1>4 DEF Mid, IInv, NTodoCountsPending, PoolCounters, VerdictsSound

\* A thread that returns from cond.wait holds nothing and stops being idle.
LEMMA WakeReachesMid ==
    ASSUME IInv, NEW t \in Threads, pc[t] = "wait"
    PROVE  Mid(t, nTodo, fAllOk, nTotal, nIdle - 1) /\ nIdle - 1 \in Nat
<1>1. batch[t] = {} /\ t \in Waiting
  BY DEF IInv, BatchesDisjoint, Waiting, Working
<1>2. Others(t) = Pending
  BY <1>1 DEF Others, Pending
<1>3. Waiting \cup Working \cup {t} = Waiting \cup Working
  BY <1>1
<1>4. Cardinality(Waiting \ {t}) = nIdle - 1 /\ Cardinality(Waiting \ {t}) \in Nat
  <2>1. Waiting \in SUBSET Threads /\ Waiting \ {t} \in SUBSET Threads
    BY DEF Waiting
  <2>2. QED
    BY <1>1, <2>1, Finiteness, FS_RemoveElement DEF IInv, PoolCounters
<1>5. QED
  BY <1>2, <1>3, <1>4 DEF Mid, IInv, NTodoCountsPending, PoolCounters, VerdictsSound

\* The cleanup after a batch: the batch leaves nTodo, and its verdict joins fAllOk.
LEMMA RelockReachesMid ==
    ASSUME IInv, NEW t \in Threads, pc[t] = "relock"
    PROVE  Mid(t, Left(t), Merged(t), nTotal, nIdle) /\ Left(t) \in Nat
<1>1. batch[t] # {} /\ t \in Working /\ t \notin Waiting
  BY DEF IInv, BatchesDisjoint, Waiting, Working
<1>2. /\ Others(t) = Pending \ batch[t]
      /\ Pending = Others(t) \cup batch[t]
      /\ Others(t) \cap batch[t] = {}
  BY DEF Others, Pending, IInv, BatchesDisjoint
<1>3. Left(t) = Cardinality(Others(t)) /\ Left(t) \in Nat
  <2>1. /\ IsFiniteSet(Others(t)) /\ IsFiniteSet(batch[t])
        /\ Cardinality(Others(t)) \in Nat /\ Cardinality(batch[t]) \in Nat
    BY Finiteness DEF IInv, TypeOK
  <2>2. Cardinality(Others(t) \cup batch[t])
          = Cardinality(Others(t)) + Cardinality(batch[t])
    BY <1>2, <2>1, DisjointUnion
  <2>3. nTodo = Cardinality(Others(t)) + Cardinality(batch[t])
    BY <1>2, <2>2 DEF IInv, NTodoCountsPending
  <2>4. QED
    BY <2>1, <2>3 DEF Left
<1>4. Waiting \ {t} = Waiting /\ Waiting \cup Working \cup {t} = Waiting \cup Working
  BY <1>1
<1>5. pc[Master] # "out"
  <2>1. Pending # {}
    BY <1>1, <1>2
  <2>2. nTodo # 0
    BY <2>1, Finiteness, FS_EmptySet DEF IInv, NTodoCountsPending
  <2>3. QED
    BY <2>2 DEF IInv
<1>6. Merged(t) => Bad \cap (added \ Others(t)) = {}
  BY <1>2, <1>5 DEF Merged, IInv, VerdictsSound
<1>7. ~Merged(t) => Bad \cap added # {}
  BY <1>1 DEF Merged, IInv, VerdictsSound
<1>8. QED
  BY <1>3, <1>4, <1>5, <1>6, <1>7 DEF Mid, IInv, PoolCounters

\* Every queue state the program can reach satisfies IInv.
THEOREM Invariance == Spec => []IInv
<1>1. Init => IInv
  <2> SUFFICES ASSUME Init PROVE IInv
    OBVIOUS
  <2>1. Pending = {} /\ Waiting = {} /\ Working = {}
    BY DEF Init, Pending, Waiting, Working
  <2>2. TypeOK
    BY DEF Init, TypeOK
  <2>3. BatchesDisjoint /\ VerdictsSound /\ WaitReturnsConjunction
    BY <2>1 DEF Init, BatchesDisjoint, VerdictsSound, WaitReturnsConjunction
  <2>4. NTodoCountsPending /\ PoolCounters
    BY <2>1, FS_EmptySet DEF Init, NTodoCountsPending, PoolCounters
  <2>5. \A t \in Workers : pc[t] # "adding"
    BY DEF Init, Threads
  <2>6. QED
    BY <2>1, <2>2, <2>3, <2>4, <2>5 DEF IInv, Init
<1>2. IInv /\ [Next]_vars => IInv'
  <2> SUFFICES ASSUME IInv, [Next]_vars PROVE IInv'
    OBVIOUS
  <2>1. CASE Control
    <3>1. /\ pc[Master] = "out" /\ nTodo = 0 /\ fAllOk
          /\ pc' = [pc EXCEPT ![Master] = "adding"] /\ added' = {}
          /\ UNCHANGED <<queue, nIdle, nTotal, nTodo, fAllOk, batch, fOk, notified, fRet>>
      BY <2>1 DEF Control, IInv
    <3>2. Pending = {}
      BY <3>1, Finiteness, FS_EmptySet DEF IInv, NTodoCountsPending
    <3>3. Pending' = Pending
      BY <3>1 DEF Pending
    <3>4. Waiting' = Waiting /\ Working' = Working /\ Working = {}
      BY <3>1, <3>2 DEF Waiting, Working, IInv, TypeOK, Threads, BatchesDisjoint, Pending
    <3>5. TypeOK'
      BY <3>1 DEF IInv, TypeOK, Threads
    <3>6. BatchesDisjoint'
      BY <3>1, <3>4 DEF IInv, BatchesDisjoint
    <3>7. VerdictsSound'
      BY <3>1, <3>2, <3>3, <3>4 DEF IInv, TypeOK, Threads, VerdictsSound, Pending
    <3>8. NTodoCountsPending' /\ PoolCounters'
      BY <3>1, <3>3, <3>4 DEF IInv, NTodoCountsPending, PoolCounters
    <3>9. pc'[Master] = "adding" /\ (\A t \in Workers : pc[t] # "adding")'
      BY <3>1, ConstantsAssumption DEF IInv, TypeOK, Threads
    <3>10. QED
      BY <3>2, <3>3, <3>5, <3>6, <3>7, <3>8, <3>9 DEF IInv, WaitReturnsConjunction
  <2>2. ASSUME NEW S \in SUBSET (Checks \ added), Add(S) PROVE IInv'
    <3>1. /\ pc[Master] = "adding"
          /\ queue' = queue \cup S /\ nTodo' = nTodo + Cardinality(S)
          /\ added' = added \cup S
          /\ UNCHANGED <<nIdle, nTotal, fAllOk, pc, batch, fOk, fRet>>
      BY <2>2 DEF Add
    <3>2. notified' \subseteq Threads
      BY <2>2 DEF Add, NotifyOne, NotifyAll, IInv, TypeOK, Waiting
    <3>3. Pending' = Pending \cup S /\ Pending \cap S = {}
      BY <3>1 DEF Pending, IInv
    <3>4. Waiting' = Waiting /\ Working' = Working
      BY <3>1 DEF Waiting, Working
    <3>5. /\ IsFiniteSet(Pending) /\ IsFiniteSet(S)
          /\ Cardinality(Pending) \in Nat /\ Cardinality(S) \in Nat
      BY Finiteness DEF IInv
    <3>6. Cardinality(Pending \cup S) = Cardinality(Pending) + Cardinality(S)
      BY <3>3, <3>5, DisjointUnion
    <3>7. NTodoCountsPending'
      BY <3>1, <3>3, <3>6 DEF IInv, NTodoCountsPending
    <3>8. TypeOK'
      BY <3>1, <3>2, <3>5 DEF IInv, TypeOK
    <3>9. BatchesDisjoint'
      BY <3>1, <3>3, <3>4 DEF IInv, BatchesDisjoint, Pending
    <3>10. VerdictsSound'
      BY <3>1, <3>3, <3>4 DEF IInv, VerdictsSound
    <3>11. PoolCounters'
      BY <3>1, <3>4 DEF IInv, PoolCounters
    <3>12. QED
      BY <3>1, <3>3, <3>7, <3>8, <3>9, <3>10, <3>11 DEF IInv, WaitReturnsConjunction
  <2>3. ASSUME NEW t \in Threads, Enter(t) PROVE IInv'
    <3>1. Mid(t, nTodo, fAllOk, nTotal + 1, nIdle)
      BY <2>3, EnterReachesMid DEF Enter
    <3>2. nTodo \in Nat /\ fAllOk \in BOOLEAN /\ nTotal + 1 \in Nat /\ nIdle \in Nat
      BY DEF IInv, TypeOK
    <3>3. notified' \subseteq Threads
      BY <2>3 DEF Enter, IInv, TypeOK
    <3>4. QED
      BY <2>3, <3>1, <3>2, <3>3, LoopBodyKeepsIInv DEF Enter
  <2>4. ASSUME NEW t \in Threads, Work(t) PROVE IInv'
    <3>1. /\ pc[t] = "work" /\ pc' = [pc EXCEPT ![t] = "relock"]
          /\ fOk' = [fOk EXCEPT ![t] = fOk[t] /\ batch[t] \cap Bad = {}]
          /\ UNCHANGED <<queue, nIdle, nTotal, nTodo, fAllOk, batch, notified, added, fRet>>
      BY <2>4 DEF Work
    <3>2. Pending' = Pending /\ Waiting' = Waiting /\ Working' = Working
      BY <3>1 DEF Pending, Waiting, Working, IInv, TypeOK
    <3>3. TypeOK'
      BY <3>1 DEF IInv, TypeOK
    <3>4. batch[t] \subseteq added
      BY DEF IInv, Pending
    <3>5. VerdictsSound'
      <4>1. \A u \in Threads \ {t} : fOk'[u] = fOk[u] /\ pc'[u] = pc[u]
        BY <3>1 DEF IInv, TypeOK
      <4>2. fOk'[t] = (fOk[t] /\ batch[t] \cap Bad = {}) /\ t \in Working
        BY <3>1 DEF IInv, TypeOK, Working
      <4>3. pc'[Master] = "out" <=> pc[Master] = "out"
        BY <3>1 DEF IInv, TypeOK, Threads
      <4>4. ~fOk'[t] => Bad \cap added # {}
        BY <3>4, <4>2 DEF IInv, VerdictsSound
      <4>5. \A u \in Working' : ~fOk'[u] => Bad \cap added' # {}
        BY <3>1, <3>2, <4>1, <4>4 DEF IInv, VerdictsSound, Working
      <4>6. \A u \in Threads : pc'[u] = "relock" /\ fOk'[u] => batch'[u] \cap Bad = {}
        BY <3>1, <4>1, <4>2 DEF IInv, VerdictsSound
      <4>7. QED
        BY <3>1, <3>2, <4>3, <4>5, <4>6 DEF IInv, VerdictsSound
    <3>6. BatchesDisjoint'
      BY <3>1, <3>2 DEF IInv, BatchesDisjoint
    <3>7. \A u \in Threads : (pc'[u] = "out" <=> pc[u] = "out")
                             /\ (pc'[u] = "adding" <=> pc[u] = "adding")
      BY <3>1 DEF IInv, TypeOK
    <3>8. QED
      BY <3>1, <3>2, <3>3, <3>5, <3>6, <3>7
         DEF IInv, NTodoCountsPending, PoolCounters, WaitReturnsConjunction, Threads
  <2>5. ASSUME NEW t \in Threads, Relock(t) PROVE IInv'
    <3>1. Mid(t, Left(t), Merged(t), nTotal, nIdle) /\ Left(t) \in Nat
      BY <2>5, RelockReachesMid DEF Relock
    <3>2. Merged(t) \in BOOLEAN /\ nTotal \in Nat /\ nIdle \in Nat
      BY DEF IInv, TypeOK, Merged
    <3>3. notified' \subseteq Threads
      BY <2>5 DEF Relock, NotifyOne, IInv, TypeOK, Waiting
    <3>4. QED
      BY <2>5, <3>1, <3>2, <3>3, LoopBodyKeepsIInv DEF Relock
  <2>6. ASSUME NEW t \in Threads, Wake(t) PROVE IInv'
    <3>1. Mid(t, nTodo, fAllOk, nTotal, nIdle - 1) /\ nIdle - 1 \in Nat
      BY <2>6, WakeReachesMid DEF Wake
    <3>2. nTodo \in Nat /\ fAllOk \in BOOLEAN /\ nTotal \in Nat
      BY DEF IInv, TypeOK
    <3>3. notified' \subseteq Threads
      BY <2>6 DEF Wake, IInv, TypeOK
    <3>4. QED
      BY <2>6, <3>1, <3>2, <3>3, LoopBodyKeepsIInv DEF Wake
  <2>7. CASE UNCHANGED vars
    BY <2>7 DEF vars, IInv, TypeOK, BatchesDisjoint, Pending, NTodoCountsPending,
                PoolCounters, VerdictsSound, Waiting, Working, WaitReturnsConjunction
  <2>8. QED
    BY <2>1, <2>2, <2>3, <2>4, <2>5, <2>6, <2>7 DEF Next, Step
<1>3. QED
  BY <1>1, <1>2, PTL DEF Spec

\* CCheckQueueControl's constructor never fails its assert (checkqueue.h:189).
THEOREM ConstructorAssertHolds == Spec => []ControlFindsIdle
<1>1. IInv => ControlFindsIdle
  <2> SUFFICES ASSUME IInv, pc[Master] = "out"
               PROVE  nTotal = nIdle /\ nTodo = 0 /\ fAllOk
    BY DEF ControlFindsIdle
  <2>1. Pending = {}
    BY Finiteness, FS_EmptySet DEF IInv, NTodoCountsPending
  <2>2. Working = {}
    BY <2>1 DEF IInv, BatchesDisjoint, Pending, Working
  <2>3. Waiting \cup Working = Waiting
    BY <2>2
  <2>4. QED
    BY <2>3 DEF IInv, PoolCounters
<1>2. QED
  BY <1>1, Invariance, PTL

\* Wait() returns the conjunction of the block's checks, for any pool size.
THEOREM WaitIsSound == Spec => []WaitReturnsConjunction
<1>1. IInv => WaitReturnsConjunction
  BY DEF IInv
<1>2. QED
  BY <1>1, Invariance, PTL

\* nTodo never underflows: it counts the checks that are queued or claimed and
\* whose results have not been added up yet.
THEOREM TodoIsExact == Spec => []NTodoCountsPending
<1>1. IInv => NTodoCountsPending
  BY DEF IInv
<1>2. QED
  BY <1>1, Invariance, PTL

\* nTotal and nIdle count the threads of the pool and those that wait, for any
\* pool size, so that the share of work a thread claims divides by the right
\* number (checkqueue.h:110).
THEOREM PoolIsCounted == Spec => []PoolCounters
<1>1. IInv => PoolCounters
  BY DEF IInv
<1>2. QED
  BY <1>1, Invariance, PTL

\* The variables keep their types; in particular no counter goes below zero.
THEOREM Typed == Spec => []TypeOK
<1>1. IInv => TypeOK
  BY DEF IInv
<1>2. QED
  BY <1>1, Invariance, PTL
=============================================================================
