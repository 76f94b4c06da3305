--------------------------- MODULE PrimitivesProofs ---------------------------
(***************************************************************************)
(* Proofs about the threading primitives: the conditions for any number of *)
(* threads and calls, the thread object for any number of starts and       *)
(* posts, the wrappers of the system's thread pool for any number of       *)
(* registrations.                                                          *)
(***************************************************************************)
EXTENDS Conditions, ThreadObject, SystemPool, FiniteSetTheorems, TLAPS

-----------------------------------------------------------------------------
(* The conditions                                                          *)

Calling == {"signal", "broadcast", "signalAll", "add", "addAll", "uncount", "clear", "reset"}
CallerStates == {"out", "in", "counted", "unlocked", "asleep", "taken", "relock"} \cup Calling
Exclusive == {"cs", "mutex", "exclusive"}

CondTypeOK ==
  /\ class \in {"semaphore", "event", "ms"}
  /\ lock \in {"null", "cs", "mutex", "shared", "exclusive"}
  /\ class = "ms" => lock = "cs"
  /\ holders \subseteq Threads /\ sleepers \subseteq Threads
  /\ pc \in [Threads -> CallerStates]
  /\ held \in [Threads -> BOOLEAN] /\ bare \in BOOLEAN
  /\ count \in [Threads -> Int]
  /\ waitCount \in Int /\ sem \in Nat /\ lost \in Nat

\* A thread that is inside the lock, counted but not yet asleep, or called from
\* inside holds it, and only one
\* thread holds a lock that keeps others out.
LockHeld ==
  /\ \A t \in Threads : pc[t] \in {"in", "counted"} \/ (pc[t] \in Calling /\ held[t]) => t \in holders
  /\ lock \in Exclusive => \A t, u \in holders : t = u

\* signal() passes one; broadcast() under the lock passes no less than is counted.
CountRead ==
  /\ \A t \in Threads : pc[t] \in {"signal", "add", "uncount"} => count[t] = 1
  /\ \A t \in Threads :
       pc[t] \in {"signalAll", "addAll", "clear"} /\ Protected(t) => waitCount <= count[t] \/ waitCount <= 0

\* Permits that were released by a call that has not yet taken them off
\* waitCount_, one pair for each.
InDebt == {t \in Threads : pc[t] \in {"add", "uncount", "addAll", "clear"}}
Promised == {p \in Threads \X Int : p[1] \in InDebt /\ 1 <= p[2] /\ p[2] <= count[p[1]]}

\* The promised permits are still counted as waiters, so a waiter is counted
\* beside them, has a permit or was lost.
SemaphoreOK ==
  /\ IsFiniteSet(Promised)
  /\ class = "semaphore" => InState(InWait) + Cardinality(Promised) <= sem + waitCount + lost
\* With CONDITION_VARIABLE and every call made under the lock, one call runs at
\* a time, and the sleepers are counted at each of its steps.
VariableOK ==
  class = "ms" =>
    /\ \A t \in Threads : pc[t] \notin {"add", "addAll", "reset"}
    /\ ~bare =>
         /\ Cardinality(sleepers) <= waitCount
         /\ \A t \in Threads :
              /\ pc[t] \in Calling => t \in holders
              /\ pc[t] \in {"signal", "broadcast"} => waitCount > 0
              /\ pc[t] = "signalAll" => waitCount > 0 /\ count[t] = waitCount
              /\ pc[t] = "uncount" => Cardinality(sleepers) < waitCount
              /\ pc[t] = "clear" => sleepers = {}
              /\ pc[t] = "counted" => Cardinality(sleepers) < waitCount


CondInv == CondTypeOK /\ LockHeld /\ CountRead /\ SemaphoreOK /\ VariableOK

\* Every step but a stutter is one of these calls or steps of a call.
LEMMA StepCases ==
  ASSUME Next
  PROVE  \E t \in Threads :
           \/ Enter(t) \/ Leave(t) \/ \E limit \in BOOLEAN : Wait(t, limit)
           \/ SignalBegin(t) \/ BroadcastBegin(t) \/ ResetBegin(t) \/ ResetOther(t)
           \/ WaitUnlock(t) \/ WaitEvent(t)
           \/ WakeBySemaphore(t) \/ WakeByVariable(t) \/ WaitTimesOut(t) \/ WaitDecrement(t) \/ Relock(t)
           \/ BroadcastRead(t) \/ SignalImpl(t) \/ SignalAdd(t) \/ Uncount(t) \/ BroadcastClear(t)
           \/ ResetTake(t) \/ ResetEnd(t)
BY DEF Next, Waiting, Signalling

\* The types survive every step.
LEMMA CondTypeStep ==
  ASSUME CondTypeOK, [Next]_vars
  PROVE  CondTypeOK'
<1> USE DEF lockVars, condVars, callVars
<1>1. ASSUME NEW t \in Threads, Enter(t) PROVE CondTypeOK'
  BY <1>1 DEF CondTypeOK, CallerStates, Calling, Enter, Goes, Acquire
<1>2. ASSUME NEW t \in Threads, Leave(t) PROVE CondTypeOK'
  BY <1>2 DEF CondTypeOK, CallerStates, Calling, Leave, Goes, ReleaseLock
<1>3. ASSUME NEW t \in Threads, NEW limit \in BOOLEAN, Wait(t, limit) PROVE CondTypeOK'
  BY <1>3 DEF CondTypeOK, CallerStates, Calling, Wait, Goes, ReleaseLock
<1>21. ASSUME NEW t \in Threads, WaitUnlock(t) PROVE CondTypeOK'
  BY <1>21 DEF CondTypeOK, CallerStates, Calling, WaitUnlock, Goes, ReleaseLock
<1>22. ASSUME NEW t \in Threads, WaitEvent(t) PROVE CondTypeOK'
  BY <1>22 DEF CondTypeOK, CallerStates, Calling, WaitEvent, Goes
<1>4. ASSUME NEW t \in Threads, SignalBegin(t) PROVE CondTypeOK'
  BY <1>4 DEF CondTypeOK, CallerStates, Calling, SignalBegin, CallBegin
<1>5. ASSUME NEW t \in Threads, BroadcastBegin(t) PROVE CondTypeOK'
  BY <1>5 DEF CondTypeOK, CallerStates, Calling, BroadcastBegin, CallBegin
<1>6. ASSUME NEW t \in Threads, ResetBegin(t) PROVE CondTypeOK'
  BY <1>6 DEF CondTypeOK, CallerStates, Calling, ResetBegin, CallBegin
<1>7. ASSUME NEW t \in Threads, ResetOther(t) PROVE CondTypeOK'
  BY <1>7 DEF CondTypeOK, CallerStates, Calling, ResetOther
<1>8. ASSUME NEW t \in Threads, WakeBySemaphore(t) PROVE CondTypeOK'
  BY <1>8 DEF CondTypeOK, CallerStates, Calling, WakeBySemaphore, Goes
<1>9. ASSUME NEW t \in Threads, WakeByVariable(t) PROVE CondTypeOK'
  BY <1>9 DEF CondTypeOK, CallerStates, Calling, WakeByVariable, Goes
<1>10. ASSUME NEW t \in Threads, WaitTimesOut(t) PROVE CondTypeOK'
  BY <1>10 DEF CondTypeOK, CallerStates, Calling, WaitTimesOut, Goes
<1>11. ASSUME NEW t \in Threads, WaitDecrement(t) PROVE CondTypeOK'
  BY <1>11 DEF CondTypeOK, CallerStates, Calling, WaitDecrement, Goes
<1>12. ASSUME NEW t \in Threads, Relock(t) PROVE CondTypeOK'
  BY <1>12 DEF CondTypeOK, CallerStates, Calling, Relock, Goes, Acquire
<1>13. ASSUME NEW t \in Threads, BroadcastRead(t) PROVE CondTypeOK'
  BY <1>13 DEF CondTypeOK, CallerStates, Calling, BroadcastRead, Goes
<1>14. ASSUME NEW t \in Threads, SignalImpl(t) PROVE CondTypeOK'
  BY <1>14 DEF CondTypeOK, CallerStates, Calling, SignalImpl, Goes
<1>15. ASSUME NEW t \in Threads, SignalAdd(t) PROVE CondTypeOK'
  BY <1>15 DEF CondTypeOK, CallerStates, Calling, SignalAdd, Goes
<1>16. ASSUME NEW t \in Threads, Uncount(t) PROVE CondTypeOK'
  BY <1>16 DEF CondTypeOK, CallerStates, Calling, Uncount, Goes, Return
<1>17. ASSUME NEW t \in Threads, BroadcastClear(t) PROVE CondTypeOK'
  BY <1>17 DEF CondTypeOK, CallerStates, Calling, BroadcastClear, Goes, Return
<1>18. ASSUME NEW t \in Threads, ResetTake(t) PROVE CondTypeOK'
  BY <1>18 DEF CondTypeOK, CallerStates, Calling, ResetTake, Goes
<1>19. ASSUME NEW t \in Threads, ResetEnd(t) PROVE CondTypeOK'
  BY <1>19 DEF CondTypeOK, CallerStates, Calling, ResetEnd, Goes, Return
<1>20. CASE UNCHANGED vars
  BY <1>20 DEF CondTypeOK, CallerStates, Calling, vars
<1> QED
  BY <1>1, <1>2, <1>3, <1>4, <1>5, <1>6, <1>7, <1>8, <1>9, <1>10, <1>11, <1>12, <1>13, <1>14, <1>15, <1>16, <1>17, <1>18, <1>19, <1>20, <1>21, <1>22, StepCases

\* The lock is where the threads think it is after every step.
LEMMA LockStep ==
  ASSUME CondTypeOK, LockHeld, [Next]_vars
  PROVE  LockHeld'
<1> USE DEF lockVars, condVars, callVars
<1>1. ASSUME NEW t \in Threads, Enter(t) PROVE LockHeld'
  BY <1>1 DEF CondTypeOK, CallerStates, Calling, LockHeld, Exclusive, Enter, Goes, Acquire, CsFree, MutexFree, SrwFree
<1>2. ASSUME NEW t \in Threads, Leave(t) PROVE LockHeld'
  BY <1>2 DEF CondTypeOK, CallerStates, Calling, LockHeld, Exclusive, Leave, Goes, ReleaseLock
<1>3. ASSUME NEW t \in Threads, NEW limit \in BOOLEAN, Wait(t, limit) PROVE LockHeld'
  BY <1>3 DEF CondTypeOK, CallerStates, Calling, LockHeld, Exclusive, Wait, Goes, ReleaseLock
<1>21. ASSUME NEW t \in Threads, WaitUnlock(t) PROVE LockHeld'
  BY <1>21 DEF CondTypeOK, CallerStates, Calling, LockHeld, Exclusive, WaitUnlock, Goes, ReleaseLock
<1>22. ASSUME NEW t \in Threads, WaitEvent(t) PROVE LockHeld'
  BY <1>22 DEF CondTypeOK, CallerStates, Calling, LockHeld, Exclusive, WaitEvent, Goes
<1>4. ASSUME NEW t \in Threads, SignalBegin(t) PROVE LockHeld'
  BY <1>4 DEF CondTypeOK, CallerStates, Calling, LockHeld, Exclusive, SignalBegin, CallBegin
<1>5. ASSUME NEW t \in Threads, BroadcastBegin(t) PROVE LockHeld'
  BY <1>5 DEF CondTypeOK, CallerStates, Calling, LockHeld, Exclusive, BroadcastBegin, CallBegin
<1>6. ASSUME NEW t \in Threads, ResetBegin(t) PROVE LockHeld'
  BY <1>6 DEF CondTypeOK, CallerStates, Calling, LockHeld, Exclusive, ResetBegin, CallBegin
<1>7. ASSUME NEW t \in Threads, ResetOther(t) PROVE LockHeld'
  BY <1>7 DEF CondTypeOK, CallerStates, Calling, LockHeld, Exclusive, ResetOther
<1>8. ASSUME NEW t \in Threads, WakeBySemaphore(t) PROVE LockHeld'
  BY <1>8 DEF CondTypeOK, CallerStates, Calling, LockHeld, Exclusive, WakeBySemaphore, Goes
<1>9. ASSUME NEW t \in Threads, WakeByVariable(t) PROVE LockHeld'
  BY <1>9 DEF CondTypeOK, CallerStates, Calling, LockHeld, Exclusive, WakeByVariable, Goes
<1>10. ASSUME NEW t \in Threads, WaitTimesOut(t) PROVE LockHeld'
  BY <1>10 DEF CondTypeOK, CallerStates, Calling, LockHeld, Exclusive, WaitTimesOut, Goes
<1>11. ASSUME NEW t \in Threads, WaitDecrement(t) PROVE LockHeld'
  BY <1>11 DEF CondTypeOK, CallerStates, Calling, LockHeld, Exclusive, WaitDecrement, Goes
<1>12. ASSUME NEW t \in Threads, Relock(t) PROVE LockHeld'
  BY <1>12 DEF CondTypeOK, CallerStates, Calling, LockHeld, Exclusive, Relock, Goes, Acquire, CsFree, MutexFree, SrwFree
<1>13. ASSUME NEW t \in Threads, BroadcastRead(t) PROVE LockHeld'
  BY <1>13 DEF CondTypeOK, CallerStates, Calling, LockHeld, Exclusive, BroadcastRead, Goes
<1>14. ASSUME NEW t \in Threads, SignalImpl(t) PROVE LockHeld'
  BY <1>14 DEF CondTypeOK, CallerStates, Calling, LockHeld, Exclusive, SignalImpl, Goes
<1>15. ASSUME NEW t \in Threads, SignalAdd(t) PROVE LockHeld'
  BY <1>15 DEF CondTypeOK, CallerStates, Calling, LockHeld, Exclusive, SignalAdd, Goes
<1>16. ASSUME NEW t \in Threads, Uncount(t) PROVE LockHeld'
  BY <1>16 DEF CondTypeOK, CallerStates, Calling, LockHeld, Exclusive, Uncount, Goes, Return
<1>17. ASSUME NEW t \in Threads, BroadcastClear(t) PROVE LockHeld'
  BY <1>17 DEF CondTypeOK, CallerStates, Calling, LockHeld, Exclusive, BroadcastClear, Goes, Return
<1>18. ASSUME NEW t \in Threads, ResetTake(t) PROVE LockHeld'
  BY <1>18 DEF CondTypeOK, CallerStates, Calling, LockHeld, Exclusive, ResetTake, Goes
<1>19. ASSUME NEW t \in Threads, ResetEnd(t) PROVE LockHeld'
  BY <1>19 DEF CondTypeOK, CallerStates, Calling, LockHeld, Exclusive, ResetEnd, Goes, Return
<1>20. CASE UNCHANGED vars
  BY <1>20 DEF CondTypeOK, CallerStates, Calling, LockHeld, Exclusive, vars
<1> QED
  BY <1>1, <1>2, <1>3, <1>4, <1>5, <1>6, <1>7, <1>8, <1>9, <1>10, <1>11, <1>12, <1>13, <1>14, <1>15, <1>16, <1>17, <1>18, <1>19, <1>20, <1>21, <1>22, StepCases

\* What signal() and broadcast() pass on survives every step.
LEMMA CountStep ==
  ASSUME CondTypeOK, LockHeld, CountRead, [Next]_vars
  PROVE  CountRead'
<1> USE DEF lockVars, condVars, callVars
<1>1. ASSUME NEW t \in Threads, Enter(t) PROVE CountRead'
  BY <1>1 DEF CondTypeOK, CallerStates, Calling, LockHeld, Exclusive, CountRead, Protected, Enter, Goes, Acquire
<1>2. ASSUME NEW t \in Threads, Leave(t) PROVE CountRead'
  BY <1>2 DEF CondTypeOK, CallerStates, Calling, LockHeld, Exclusive, CountRead, Protected, Leave, Goes, ReleaseLock
<1>3. ASSUME NEW t \in Threads, NEW limit \in BOOLEAN, Wait(t, limit) PROVE CountRead'
  BY <1>3 DEF CondTypeOK, CallerStates, Calling, LockHeld, Exclusive, CountRead, Protected, Wait, Goes, ReleaseLock
<1>21. ASSUME NEW t \in Threads, WaitUnlock(t) PROVE CountRead'
  BY <1>21 DEF CondTypeOK, CallerStates, Calling, LockHeld, Exclusive, CountRead, Protected, WaitUnlock, Goes, ReleaseLock
<1>22. ASSUME NEW t \in Threads, WaitEvent(t) PROVE CountRead'
  BY <1>22 DEF CondTypeOK, CallerStates, Calling, LockHeld, Exclusive, CountRead, Protected, WaitEvent, Goes
<1>4. ASSUME NEW t \in Threads, SignalBegin(t) PROVE CountRead'
  BY <1>4 DEF CondTypeOK, CallerStates, Calling, LockHeld, Exclusive, CountRead, Protected, SignalBegin, CallBegin
<1>5. ASSUME NEW t \in Threads, BroadcastBegin(t) PROVE CountRead'
  BY <1>5 DEF CondTypeOK, CallerStates, Calling, LockHeld, Exclusive, CountRead, Protected, BroadcastBegin, CallBegin
<1>6. ASSUME NEW t \in Threads, ResetBegin(t) PROVE CountRead'
  BY <1>6 DEF CondTypeOK, CallerStates, Calling, LockHeld, Exclusive, CountRead, Protected, ResetBegin, CallBegin
<1>7. ASSUME NEW t \in Threads, ResetOther(t) PROVE CountRead'
  BY <1>7 DEF CondTypeOK, CallerStates, Calling, LockHeld, Exclusive, CountRead, Protected, ResetOther
<1>8. ASSUME NEW t \in Threads, WakeBySemaphore(t) PROVE CountRead'
  BY <1>8 DEF CondTypeOK, CallerStates, Calling, LockHeld, Exclusive, CountRead, Protected, WakeBySemaphore, Goes
<1>9. ASSUME NEW t \in Threads, WakeByVariable(t) PROVE CountRead'
  BY <1>9 DEF CondTypeOK, CallerStates, Calling, LockHeld, Exclusive, CountRead, Protected, WakeByVariable, Goes
<1>10. ASSUME NEW t \in Threads, WaitTimesOut(t) PROVE CountRead'
  BY <1>10 DEF CondTypeOK, CallerStates, Calling, LockHeld, Exclusive, CountRead, Protected, WaitTimesOut, Goes
<1>11. ASSUME NEW t \in Threads, WaitDecrement(t) PROVE CountRead'
  BY <1>11 DEF CondTypeOK, CallerStates, Calling, LockHeld, Exclusive, CountRead, Protected, WaitDecrement, Goes
<1>12. ASSUME NEW t \in Threads, Relock(t) PROVE CountRead'
  BY <1>12 DEF CondTypeOK, CallerStates, Calling, LockHeld, Exclusive, CountRead, Protected, Relock, Goes, Acquire
<1>13. ASSUME NEW t \in Threads, BroadcastRead(t) PROVE CountRead'
  BY <1>13 DEF CondTypeOK, CallerStates, Calling, LockHeld, Exclusive, CountRead, Protected, BroadcastRead, Goes
<1>14. ASSUME NEW t \in Threads, SignalImpl(t) PROVE CountRead'
  BY <1>14 DEF CondTypeOK, CallerStates, Calling, LockHeld, Exclusive, CountRead, Protected, SignalImpl, Goes
<1>15. ASSUME NEW t \in Threads, SignalAdd(t) PROVE CountRead'
  BY <1>15 DEF CondTypeOK, CallerStates, Calling, LockHeld, Exclusive, CountRead, Protected, SignalAdd, Goes
<1>16. ASSUME NEW t \in Threads, Uncount(t) PROVE CountRead'
  BY <1>16 DEF CondTypeOK, CallerStates, Calling, LockHeld, Exclusive, CountRead, Protected, Uncount, Goes, Return
<1>17. ASSUME NEW t \in Threads, BroadcastClear(t) PROVE CountRead'
  BY <1>17 DEF CondTypeOK, CallerStates, Calling, LockHeld, Exclusive, CountRead, Protected, BroadcastClear, Goes, Return
<1>18. ASSUME NEW t \in Threads, ResetTake(t) PROVE CountRead'
  BY <1>18 DEF CondTypeOK, CallerStates, Calling, LockHeld, Exclusive, CountRead, Protected, ResetTake, Goes
<1>19. ASSUME NEW t \in Threads, ResetEnd(t) PROVE CountRead'
  BY <1>19 DEF CondTypeOK, CallerStates, Calling, LockHeld, Exclusive, CountRead, Protected, ResetEnd, Goes, Return
<1>20. CASE UNCHANGED vars
  BY <1>20 DEF CondTypeOK, CallerStates, Calling, LockHeld, Exclusive, CountRead, Protected, vars
<1> QED
  BY <1>1, <1>2, <1>3, <1>4, <1>5, <1>6, <1>7, <1>8, <1>9, <1>10, <1>11, <1>12, <1>13, <1>14, <1>15, <1>16, <1>17, <1>18, <1>19, <1>20, <1>21, <1>22, StepCases

\* The permits one call has promised.
Row(t, n) == {p \in Threads \X Int : p[1] = t /\ 1 <= p[2] /\ p[2] <= n}
Pos(n) == IF n > 0 THEN n ELSE 0
Debts == {"add", "uncount", "addAll", "clear"}

LEMMA RowCount ==
  ASSUME NEW t \in Threads, NEW n \in Int
  PROVE  IsFiniteSet(Row(t, n)) /\ Cardinality(Row(t, n)) = Pos(n)
<1> DEFINE f == [i \in 1..n |-> <<t, i>>]
<1>1. f \in Bijection(1..n, Row(t, n))
  <2>1. f \in [1..n -> Row(t, n)]
    BY DEF Row
  <2>2. \A i, j \in 1..n : f[i] = f[j] => i = j
    OBVIOUS
  <2>3. \A p \in Row(t, n) : \E i \in 1..n : f[i] = p
    <3> SUFFICES ASSUME NEW p \in Row(t, n) PROVE \E i \in 1..n : f[i] = p
      OBVIOUS
    <3>1. p[2] \in 1..n /\ p = <<t, p[2]>>
      BY DEF Row
    <3>2. f[p[2]] = p
      BY <3>1
    <3> QED
      BY <3>1, <3>2
  <2> QED
    BY <2>1, <2>2, <2>3, Zenon DEF Bijection, Injection, Surjection, IsInjective
<1>2. ExistsBijection(1..n, Row(t, n))
  BY <1>1 DEF ExistsBijection
<1>3. IsFiniteSet(1..n) /\ Cardinality(1..n) = Pos(n)
  BY FS_Interval DEF Pos
<1> QED
  BY <1>2, <1>3, FS_Bijection

\* Sleepers, before and after one thread moved.
LEMMA SleeperMoves ==
  ASSUME CondTypeOK, NEW t \in Threads, NEW to \in CallerStates, pc' = [pc EXCEPT ![t] = to]
  PROVE  /\ InState(InWait) \in Nat /\ InState(InWait)' \in Nat
         /\ pc[t] \notin InWait /\ to \notin InWait => InState(InWait)' = InState(InWait)
         /\ pc[t] \notin InWait /\ to \in InWait => InState(InWait)' = InState(InWait) + 1
         /\ pc[t] \in InWait /\ to \notin InWait => InState(InWait)' = InState(InWait) - 1
         /\ pc[t] \in InWait /\ to \in InWait => InState(InWait)' = InState(InWait)
<1> DEFINE A == {u \in Threads : pc[u] \in InWait}
           B == {u \in Threads : pc'[u] \in InWait}
<1>1. InState(InWait) = Cardinality(A) /\ InState(InWait)' = Cardinality(B)
  BY DEF InState
<1>2. IsFiniteSet(A) /\ IsFiniteSet(B)
  BY ConditionAssumption, FS_Subset DEF ConditionAssumption
<1>3. Cardinality(A) \in Nat /\ Cardinality(B) \in Nat
  BY <1>2, FS_CardinalityType
<1>4. CASE pc[t] \notin InWait /\ to \notin InWait
  <2>1. A = B
    BY <1>4 DEF CondTypeOK
  <2> QED
    BY <1>1, <1>3, <1>4, <2>1
<1>5. CASE pc[t] \notin InWait /\ to \in InWait
  <2>1. B = A \cup {t} /\ t \notin A
    BY <1>5 DEF CondTypeOK
  <2>2. Cardinality(B) = Cardinality(A) + 1
    BY <1>2, <2>1, FS_AddElement
  <2> QED
    BY <1>1, <1>3, <1>5, <2>2
<1>6. CASE pc[t] \in InWait /\ to \notin InWait
  <2>1. B = A \ {t} /\ t \in A
    BY <1>6 DEF CondTypeOK
  <2>2. Cardinality(B) = Cardinality(A) - 1
    BY <1>2, <2>1, FS_RemoveElement
  <2> QED
    BY <1>1, <1>3, <1>6, <2>2
<1>7. CASE pc[t] \in InWait /\ to \in InWait
  <2>1. A = B
    BY <1>7 DEF CondTypeOK
  <2> QED
    BY <1>1, <1>3, <1>7, <2>1
<1> QED
  BY <1>4, <1>5, <1>6, <1>7

\* A step that starts and ends on the same side of the debt changes no promise.
LEMMA PromisesKept ==
  ASSUME CondTypeOK, NEW t \in Threads, NEW to \in CallerStates, pc' = [pc EXCEPT ![t] = to],
         pc[t] \in Debts <=> to \in Debts,
         \A u \in Threads : u # t \/ to \in Debts => count'[u] = count[u]
  PROVE  Promised' = Promised
<1>1. InDebt' = InDebt
  BY DEF CondTypeOK, InDebt, Debts
<1>2. \A u \in InDebt : count'[u] = count[u]
  BY <1>1 DEF CondTypeOK, InDebt, Debts
<1> QED
  BY <1>1, <1>2 DEF Promised

\* The release of permits promises as many, the end of the call takes them back.
LEMMA PromisesMade ==
  ASSUME CondTypeOK, IsFiniteSet(Promised), NEW t \in Threads, NEW to \in Debts,
         pc' = [pc EXCEPT ![t] = to], pc[t] \notin Debts, count' = count
  PROVE  /\ IsFiniteSet(Promised')
         /\ Cardinality(Promised') = Cardinality(Promised) + Pos(count[t])
         /\ Cardinality(Promised) \in Nat
<1>1. InDebt' = InDebt \cup {t} /\ t \notin InDebt
  BY DEF CondTypeOK, InDebt, Debts
<1>2. count[t] \in Int
  BY DEF CondTypeOK
<1>3. Promised' = Promised \cup Row(t, count[t]) /\ Promised \cap Row(t, count[t]) = {}
  <2>1. Promised \cap Row(t, count[t]) = {}
    BY <1>1 DEF Promised, Row
  <2>2. \A p \in Threads \X Int : p \in Promised' <=> p \in Promised \cup Row(t, count[t])
    BY <1>1 DEF Promised, Row
  <2> QED
    BY <2>1, <2>2 DEF Promised, Row
<1>4. IsFiniteSet(Row(t, count[t])) /\ Cardinality(Row(t, count[t])) = Pos(count[t])
  BY <1>2, RowCount
<1>5. Pos(count[t]) \in Nat /\ Cardinality(Promised) \in Nat
  BY <1>2, FS_CardinalityType DEF Pos
<1>6. /\ IsFiniteSet(Promised \cup Row(t, count[t]))
      /\ Cardinality(Promised \cup Row(t, count[t]))
           = Cardinality(Promised) + Cardinality(Row(t, count[t])) - Cardinality(Promised \cap Row(t, count[t]))
  BY <1>4, FS_Union
<1>7. Cardinality(Promised \cap Row(t, count[t])) = 0
  BY <1>3, FS_EmptySet
<1>8. \A c, p \in Nat : c + p - 0 = c + p
  OBVIOUS
<1> QED
  BY <1>3, <1>4, <1>5, <1>6, <1>7, <1>8

LEMMA PromisesTaken ==
  ASSUME CondTypeOK, IsFiniteSet(Promised), NEW t \in Threads, NEW to \in CallerStates \ Debts,
         pc' = [pc EXCEPT ![t] = to], pc[t] \in Debts, count' = count
  PROVE  /\ IsFiniteSet(Promised')
         /\ Cardinality(Promised') = Cardinality(Promised) - Pos(count[t])
         /\ Cardinality(Promised) \in Nat
<1>1. InDebt' = InDebt \ {t} /\ t \in InDebt
  BY DEF CondTypeOK, InDebt, Debts
<1>2. count[t] \in Int
  BY DEF CondTypeOK
<1>3. Promised' = Promised \ Row(t, count[t]) /\ Promised \cap Row(t, count[t]) = Row(t, count[t])
  <2>1. \A p \in Row(t, count[t]) : p \in Promised
    BY <1>1 DEF Promised, Row
  <2>2. \A p \in Threads \X Int : p \in Promised' <=> p \in Promised \ Row(t, count[t])
    BY <1>1 DEF Promised, Row
  <2> QED
    BY <2>1, <2>2 DEF Promised, Row
<1>4. Cardinality(Row(t, count[t])) = Pos(count[t])
  BY <1>2, RowCount
<1>5. Cardinality(Promised) \in Nat
  BY FS_CardinalityType
<1>6. /\ IsFiniteSet(Promised \ Row(t, count[t]))
      /\ Cardinality(Promised \ Row(t, count[t]))
           = Cardinality(Promised) - Cardinality(Promised \cap Row(t, count[t]))
  BY FS_Difference
<1> QED
  BY <1>3, <1>4, <1>5, <1>6

\* Every sleeper on the semaphore stays counted, provided for or noted as lost.
LEMMA SemaphoreStep ==
  ASSUME CondTypeOK, LockHeld, CountRead, SemaphoreOK, [Next]_vars
  PROVE  SemaphoreOK'
<1> USE DEF lockVars, condVars, callVars
<1> USE DEF InWait
<1> DEFINE Sl == InState(InWait)
           Pr == Cardinality(Promised)
<1>0. IsFiniteSet(Promised) /\ Pr \in Nat /\ waitCount \in Int /\ sem \in Nat /\ lost \in Nat
  BY FS_CardinalityType DEF SemaphoreOK, CondTypeOK
<1>1. ASSUME NEW t \in Threads, Enter(t) PROVE SemaphoreOK'
  <2>1. /\ pc' = [pc EXCEPT ![t] = "in"] /\ "in" \in CallerStates \ Debts
        /\ pc[t] \notin Debts /\ pc[t] \notin InWait /\ "in" \notin InWait
        /\ class' = class /\ sem' = sem /\ waitCount' = waitCount /\ lost' = lost
        /\ \A u \in Threads : u # t => count'[u] = count[u]
    BY <1>1 DEF Enter, Goes, Acquire, CondTypeOK, CallerStates, Calling, Debts
  <2>2. Promised' = Promised
    BY <2>1, PromisesKept
  <2>3. Sl' = Sl
    BY <2>1, SleeperMoves
  <2> QED
    BY <1>0, <2>1, <2>2, <2>3 DEF SemaphoreOK
<1>2. ASSUME NEW t \in Threads, Leave(t) PROVE SemaphoreOK'
  <2>1. /\ pc' = [pc EXCEPT ![t] = "out"] /\ "out" \in CallerStates \ Debts
        /\ pc[t] \notin Debts /\ pc[t] \notin InWait /\ "out" \notin InWait
        /\ class' = class /\ sem' = sem /\ waitCount' = waitCount /\ lost' = lost
        /\ \A u \in Threads : u # t => count'[u] = count[u]
    BY <1>2 DEF Leave, Goes, ReleaseLock, CondTypeOK, CallerStates, Calling, Debts
  <2>2. Promised' = Promised
    BY <2>1, PromisesKept
  <2>3. Sl' = Sl
    BY <2>1, SleeperMoves
  <2> QED
    BY <1>0, <2>1, <2>2, <2>3 DEF SemaphoreOK
<1>3. ASSUME NEW t \in Threads, SignalBegin(t) PROVE SemaphoreOK'
  <2>1. /\ pc' = [pc EXCEPT ![t] = "signal"] /\ "signal" \in CallerStates \ Debts
        /\ pc[t] \notin Debts /\ pc[t] \notin InWait /\ "signal" \notin InWait
        /\ class' = class /\ sem' = sem /\ waitCount' = waitCount /\ lost' = lost
        /\ \A u \in Threads : u # t => count'[u] = count[u]
    BY <1>3 DEF SignalBegin, CallBegin, CondTypeOK, CallerStates, Calling, Debts
  <2>2. Promised' = Promised
    BY <2>1, PromisesKept
  <2>3. Sl' = Sl
    BY <2>1, SleeperMoves
  <2> QED
    BY <1>0, <2>1, <2>2, <2>3 DEF SemaphoreOK
<1>4. ASSUME NEW t \in Threads, BroadcastBegin(t) PROVE SemaphoreOK'
  <2>1. /\ pc' = [pc EXCEPT ![t] = "broadcast"] /\ "broadcast" \in CallerStates \ Debts
        /\ pc[t] \notin Debts /\ pc[t] \notin InWait /\ "broadcast" \notin InWait
        /\ class' = class /\ sem' = sem /\ waitCount' = waitCount /\ lost' = lost
        /\ \A u \in Threads : u # t => count'[u] = count[u]
    BY <1>4 DEF BroadcastBegin, CallBegin, CondTypeOK, CallerStates, Calling, Debts
  <2>2. Promised' = Promised
    BY <2>1, PromisesKept
  <2>3. Sl' = Sl
    BY <2>1, SleeperMoves
  <2> QED
    BY <1>0, <2>1, <2>2, <2>3 DEF SemaphoreOK
<1>5. ASSUME NEW t \in Threads, ResetBegin(t) PROVE SemaphoreOK'
  <2>1. /\ pc' = [pc EXCEPT ![t] = "reset"] /\ "reset" \in CallerStates \ Debts
        /\ pc[t] \notin Debts /\ pc[t] \notin InWait /\ "reset" \notin InWait
        /\ class' = class /\ sem' = sem /\ waitCount' = waitCount /\ lost' = lost
        /\ \A u \in Threads : u # t => count'[u] = count[u]
    BY <1>5 DEF ResetBegin, CallBegin, CondTypeOK, CallerStates, Calling, Debts
  <2>2. Promised' = Promised
    BY <2>1, PromisesKept
  <2>3. Sl' = Sl
    BY <2>1, SleeperMoves
  <2> QED
    BY <1>0, <2>1, <2>2, <2>3 DEF SemaphoreOK
<1>6. ASSUME NEW t \in Threads, BroadcastRead(t) PROVE SemaphoreOK'
  <2>1. /\ pc' = [pc EXCEPT ![t] = "signalAll"] /\ "signalAll" \in CallerStates \ Debts
        /\ pc[t] \notin Debts /\ pc[t] \notin InWait /\ "signalAll" \notin InWait
        /\ class' = class /\ sem' = sem /\ waitCount' = waitCount /\ lost' = lost
        /\ \A u \in Threads : u # t => count'[u] = count[u]
    BY <1>6 DEF BroadcastRead, Goes, CondTypeOK, CallerStates, Calling, Debts
  <2>2. Promised' = Promised
    BY <2>1, PromisesKept
  <2>3. Sl' = Sl
    BY <2>1, SleeperMoves
  <2> QED
    BY <1>0, <2>1, <2>2, <2>3 DEF SemaphoreOK
<1>7. ASSUME NEW t \in Threads, WaitDecrement(t) PROVE SemaphoreOK'
  <2>1. /\ pc' = [pc EXCEPT ![t] = "relock"] /\ "relock" \in CallerStates \ Debts
        /\ pc[t] \notin Debts /\ pc[t] \notin InWait /\ "relock" \notin InWait
        /\ class' = class /\ sem' = sem /\ waitCount' = waitCount /\ lost' = lost
        /\ \A u \in Threads : u # t => count'[u] = count[u]
    BY <1>7 DEF WaitDecrement, Goes, CondTypeOK, CallerStates, Calling, Debts
  <2>2. Promised' = Promised
    BY <2>1, PromisesKept
  <2>3. Sl' = Sl
    BY <2>1, SleeperMoves
  <2> QED
    BY <1>0, <2>1, <2>2, <2>3 DEF SemaphoreOK
<1>8. ASSUME NEW t \in Threads, Relock(t) PROVE SemaphoreOK'
  <2>1. /\ pc' = [pc EXCEPT ![t] = "in"] /\ "in" \in CallerStates \ Debts
        /\ pc[t] \notin Debts /\ pc[t] \notin InWait /\ "in" \notin InWait
        /\ class' = class /\ sem' = sem /\ waitCount' = waitCount /\ lost' = lost
        /\ \A u \in Threads : u # t => count'[u] = count[u]
    BY <1>8 DEF Relock, Goes, Acquire, CondTypeOK, CallerStates, Calling, Debts
  <2>2. Promised' = Promised
    BY <2>1, PromisesKept
  <2>3. Sl' = Sl
    BY <2>1, SleeperMoves
  <2> QED
    BY <1>0, <2>1, <2>2, <2>3 DEF SemaphoreOK
<1>9. ASSUME NEW t \in Threads, ResetEnd(t) PROVE SemaphoreOK'
  <2>1. /\ pc' = [pc EXCEPT ![t] = Return(t)] /\ Return(t) \in CallerStates \ Debts
        /\ pc[t] \notin Debts /\ pc[t] \notin InWait /\ Return(t) \notin InWait
        /\ class' = class /\ sem' = sem /\ waitCount' = waitCount /\ lost' = lost
        /\ \A u \in Threads : u # t => count'[u] = count[u]
    BY <1>9 DEF ResetEnd, Goes, Return, CondTypeOK, CallerStates, Calling, Debts
  <2>2. Promised' = Promised
    BY <2>1, PromisesKept
  <2>3. Sl' = Sl
    BY <2>1, SleeperMoves
  <2> QED
    BY <1>0, <2>1, <2>2, <2>3 DEF SemaphoreOK
<1>10. ASSUME NEW t \in Threads, NEW limit \in BOOLEAN, Wait(t, limit) PROVE SemaphoreOK'
  <2> DEFINE to == "counted"
  <2>1. /\ pc' = [pc EXCEPT ![t] = to] /\ to \in CallerStates \ Debts /\ pc[t] = "in"
        /\ class' = class /\ sem' = sem /\ waitCount' = waitCount + 1 /\ lost' = lost /\ count' = count
    BY <1>10 DEF Wait, Goes, CallerStates, Debts
  <2>2. Promised' = Promised
    BY <2>1, PromisesKept DEF Debts
  <2>3. Sl' = Sl + 1 /\ Sl \in Nat
    BY <2>1, SleeperMoves
  <2> QED
    BY <1>0, <2>1, <2>2, <2>3 DEF SemaphoreOK
<1>21. ASSUME NEW t \in Threads, WaitUnlock(t) PROVE SemaphoreOK'
  <2> DEFINE to == IF class = "event" THEN "unlocked" ELSE "asleep"
  <2>1. /\ pc' = [pc EXCEPT ![t] = to] /\ to \in CallerStates \ Debts /\ pc[t] = "counted"
        /\ class' = class /\ sem' = sem /\ waitCount' = waitCount /\ lost' = lost /\ count' = count
    BY <1>21 DEF WaitUnlock, Goes, ReleaseLock, CallerStates, Debts
  <2>2. Promised' = Promised
    BY <2>1, PromisesKept DEF Debts
  <2>3. class = "semaphore" => Sl' = Sl /\ Sl \in Nat
    BY <2>1, SleeperMoves
  <2> QED
    BY <1>0, <2>1, <2>2, <2>3 DEF SemaphoreOK
<1>22. ASSUME NEW t \in Threads, WaitEvent(t) PROVE SemaphoreOK'
  <2>1. /\ pc' = [pc EXCEPT ![t] = "relock"] /\ "relock" \in CallerStates \ Debts /\ pc[t] = "unlocked"
        /\ class' = class /\ sem' = sem /\ waitCount' = waitCount /\ lost' = lost /\ count' = count
    BY <1>22 DEF WaitEvent, Goes, CallerStates, Debts
  <2>2. Promised' = Promised
    BY <2>1, PromisesKept DEF Debts
  <2>3. Sl' = Sl /\ Sl \in Nat
    BY <2>1, SleeperMoves
  <2> QED
    BY <1>0, <2>1, <2>2, <2>3 DEF SemaphoreOK
<1>11. ASSUME NEW t \in Threads, WakeBySemaphore(t) PROVE SemaphoreOK'
  <2> DEFINE to == "taken"
  <2>1. /\ pc' = [pc EXCEPT ![t] = to] /\ to \in CallerStates \ Debts /\ to \notin InWait /\ pc[t] \in InWait
        /\ class' = class /\ sem' = sem - 1 /\ waitCount' = waitCount /\ lost' = lost /\ count' = count
    BY <1>11 DEF WakeBySemaphore, Goes, CallerStates, Debts
  <2>2. Promised' = Promised
    BY <2>1, PromisesKept DEF Debts
  <2>3. Sl' = Sl - 1 /\ Sl \in Nat
    BY <2>1, SleeperMoves
  <2> QED
    BY <1>0, <2>1, <2>2, <2>3 DEF SemaphoreOK
<1>12. ASSUME NEW t \in Threads, WakeByVariable(t) PROVE SemaphoreOK'
  <2> DEFINE to == "relock"
  <2>1. /\ pc' = [pc EXCEPT ![t] = to] /\ to \in CallerStates \ Debts /\ to \notin InWait /\ pc[t] \in InWait
        /\ class' = class /\ sem' = sem /\ waitCount' = waitCount /\ lost' = lost /\ count' = count
    BY <1>12 DEF WakeByVariable, Goes, CallerStates, Debts
  <2>2. Promised' = Promised
    BY <2>1, PromisesKept DEF Debts
  <2>3. Sl' = Sl - 1 /\ Sl \in Nat
    BY <2>1, SleeperMoves
  <2> QED
    BY <1>0, <2>1, <2>2, <2>3 DEF SemaphoreOK
<1>13. ASSUME NEW t \in Threads, WaitTimesOut(t) PROVE SemaphoreOK'
  <2> DEFINE to == IF class = "ms" THEN "relock" ELSE "taken"
  <2>1. /\ pc' = [pc EXCEPT ![t] = to] /\ to \in CallerStates \ Debts /\ to \notin InWait /\ pc[t] \in InWait
        /\ class' = class /\ sem' = sem /\ waitCount' = waitCount /\ lost' = lost /\ count' = count
    BY <1>13 DEF WaitTimesOut, Goes, CallerStates, Debts
  <2>2. Promised' = Promised
    BY <2>1, PromisesKept DEF Debts
  <2>3. Sl' = Sl - 1 /\ Sl \in Nat
    BY <2>1, SleeperMoves
  <2> QED
    BY <1>0, <2>1, <2>2, <2>3 DEF SemaphoreOK
<1>14. ASSUME NEW t \in Threads, ResetOther(t) PROVE SemaphoreOK'
  <2>1. Promised' = Promised /\ Sl' = Sl
    BY <1>14 DEF ResetOther, Promised, InDebt, InState
  <2> QED
    BY <1>14, <2>1 DEF ResetOther, SemaphoreOK
<1>15. ASSUME NEW t \in Threads, ResetTake(t) PROVE SemaphoreOK'
  <2>1. /\ pc' = [pc EXCEPT ![t] = "reset"] /\ pc[t] = "reset" /\ "reset" \in CallerStates \ Debts
        /\ class' = class /\ sem' = sem - 1 /\ waitCount' = waitCount /\ lost' = lost + 1
        /\ \A u \in Threads : u # t => count'[u] = count[u]
    BY <1>15 DEF ResetTake, Goes, CallerStates, Calling, Debts, CondTypeOK
  <2>2. Promised' = Promised
    BY <2>1, PromisesKept
  <2>3. Sl' = Sl /\ Sl \in Nat
    BY <2>1, SleeperMoves
  <2> QED
    BY <1>0, <2>1, <2>2, <2>3 DEF SemaphoreOK
<1>16. ASSUME NEW t \in Threads, SignalAdd(t) PROVE SemaphoreOK'
  <2> DEFINE to == IF pc[t] = "add" THEN "uncount" ELSE "clear"
  <2>1. /\ pc' = [pc EXCEPT ![t] = to] /\ pc[t] \in {"add", "addAll"} /\ to \in CallerStates /\ to \in Debts
        /\ class' = class /\ sem' = sem /\ waitCount' = waitCount /\ lost' = lost /\ count' = count
    BY <1>16 DEF SignalAdd, Goes, CallerStates, Calling, Debts
  <2>2. Promised' = Promised
    BY <2>1, PromisesKept DEF Debts
  <2>3. Sl' = Sl
    BY <2>1, SleeperMoves DEF Debts
  <2> QED
    BY <1>0, <2>1, <2>2, <2>3 DEF SemaphoreOK
<1>17. ASSUME NEW t \in Threads, SignalImpl(t) PROVE SemaphoreOK'
  <2> DEFINE one == IF class = "semaphore" THEN "add" ELSE "uncount"
             all == IF class = "semaphore" THEN "addAll" ELSE "clear"
             to == IF pc[t] = "signal" THEN one ELSE all
  <2>1. /\ pc' = [pc EXCEPT ![t] = to] /\ pc[t] \in {"signal", "signalAll"} /\ to \in Debts /\ to \in CallerStates
        /\ class' = class /\ waitCount' = waitCount /\ lost' = lost /\ count' = count
        /\ class = "semaphore" => sem' = sem + Pos(count[t])
    BY <1>17 DEF SignalImpl, Goes, CallerStates, Calling, Debts, Pos, CondTypeOK
  <2>2. IsFiniteSet(Promised') /\ Pr' = Pr + Pos(count[t])
    BY <1>0, <2>1, PromisesMade DEF Debts
  <2>3. Sl' = Sl /\ Sl \in Nat
    BY <2>1, SleeperMoves DEF Debts
  <2>4. Pos(count[t]) \in Nat
    BY DEF CondTypeOK, Pos
  <2> QED
    BY <1>0, <2>1, <2>2, <2>3, <2>4 DEF SemaphoreOK
<1>18. ASSUME NEW t \in Threads, Uncount(t) PROVE SemaphoreOK'
  <2>1. /\ pc' = [pc EXCEPT ![t] = Return(t)] /\ pc[t] = "uncount" /\ Return(t) \in CallerStates \ Debts
        /\ Return(t) \notin InWait /\ count[t] = 1
        /\ class' = class /\ sem' = sem /\ waitCount' = waitCount - 1 /\ lost' = lost /\ count' = count
    BY <1>18 DEF Uncount, Goes, Return, CallerStates, Debts, CountRead
  <2>2. IsFiniteSet(Promised') /\ Pr' = Pr - 1
    <3>1. IsFiniteSet(Promised') /\ Pr' = Pr - Pos(count[t])
      BY <1>0, <2>1, PromisesTaken DEF Debts
    <3> QED
      BY <2>1, <3>1 DEF Pos
  <2>3. Sl' = Sl /\ Sl \in Nat
    BY <2>1, SleeperMoves
  <2> QED
    BY <1>0, <2>1, <2>2, <2>3 DEF SemaphoreOK
<1>19. ASSUME NEW t \in Threads, BroadcastClear(t) PROVE SemaphoreOK'
  <2>1. /\ pc' = [pc EXCEPT ![t] = Return(t)] /\ pc[t] = "clear" /\ Return(t) \in CallerStates \ Debts
        /\ Return(t) \notin InWait /\ count[t] \in Int
        /\ class' = class /\ sem' = sem /\ waitCount' = 0 /\ count' = count
        /\ lost' = lost + IF waitCount > count[t] /\ ~Protected(t) THEN waitCount - count[t] ELSE 0
    BY <1>19 DEF BroadcastClear, Goes, Return, CallerStates, Debts, CondTypeOK
  <2>2. IsFiniteSet(Promised') /\ Pr' = Pr - Pos(count[t])
    BY <1>0, <2>1, PromisesTaken DEF Debts
  <2>3. Sl' = Sl /\ Sl \in Nat
    BY <2>1, SleeperMoves
  <2>4. waitCount - Pos(count[t]) <= lost' - lost
    <3>1. CASE Protected(t)
      <4>1. waitCount <= count[t] \/ waitCount <= 0
        BY <3>1, <2>1 DEF CountRead
      <4> QED
        BY <1>0, <2>1, <3>1, <4>1 DEF Pos
    <3>2. CASE ~Protected(t)
      BY <1>0, <2>1, <3>2 DEF Pos
    <3> QED
      BY <3>1, <3>2
  <2>5. lost' \in Int /\ Pos(count[t]) \in Nat
    BY <1>0, <2>1 DEF Pos
  <2>6. class = "semaphore" => Sl + Pr <= sem + waitCount + lost
    BY DEF SemaphoreOK
  <2>7. \A s, q, p, m, w, x, y \in Int :
          s + q <= m + w + x /\ w - p <= y - x => s + (q - p) <= m + 0 + y
    OBVIOUS
  <2>8. class = "semaphore" => Sl + (Pr - Pos(count[t])) <= sem + 0 + lost'
    BY <1>0, <2>3, <2>4, <2>5, <2>6, <2>7
  <2> QED
    BY <2>1, <2>2, <2>3, <2>8 DEF SemaphoreOK
<1>20. CASE UNCHANGED vars
  BY <1>20 DEF vars, SemaphoreOK, Promised, InDebt, InState
<1> QED
  BY <1>1, <1>2, <1>3, <1>4, <1>5, <1>6, <1>7, <1>8, <1>9, <1>10, <1>11, <1>12, <1>13, <1>14, <1>15, <1>16, <1>17, <1>18, <1>19, <1>20, <1>21, <1>22, StepCases

\* The class stays, and a call outside the lock stays noted.
LEMMA ClassStep ==
  ASSUME CondTypeOK, [Next]_vars
  PROVE  class' = class /\ (bare => bare')
<1> USE DEF lockVars, condVars, callVars
<1>1. ASSUME NEW t \in Threads, Enter(t) PROVE class' = class /\ (bare => bare')
  BY <1>1 DEF CondTypeOK, Enter, Goes, Acquire
<1>2. ASSUME NEW t \in Threads, Leave(t) PROVE class' = class /\ (bare => bare')
  BY <1>2 DEF CondTypeOK, Leave, Goes, ReleaseLock
<1>3. ASSUME NEW t \in Threads, NEW limit \in BOOLEAN, Wait(t, limit) PROVE class' = class /\ (bare => bare')
  BY <1>3 DEF CondTypeOK, Wait, Goes, ReleaseLock
<1>21. ASSUME NEW t \in Threads, WaitUnlock(t) PROVE class' = class /\ (bare => bare')
  BY <1>21 DEF CondTypeOK, WaitUnlock, Goes, ReleaseLock
<1>22. ASSUME NEW t \in Threads, WaitEvent(t) PROVE class' = class /\ (bare => bare')
  BY <1>22 DEF CondTypeOK, WaitEvent, Goes
<1>4. ASSUME NEW t \in Threads, SignalBegin(t) PROVE class' = class /\ (bare => bare')
  BY <1>4 DEF CondTypeOK, SignalBegin, CallBegin
<1>5. ASSUME NEW t \in Threads, BroadcastBegin(t) PROVE class' = class /\ (bare => bare')
  BY <1>5 DEF CondTypeOK, BroadcastBegin, CallBegin
<1>6. ASSUME NEW t \in Threads, ResetBegin(t) PROVE class' = class /\ (bare => bare')
  BY <1>6 DEF CondTypeOK, ResetBegin, CallBegin
<1>7. ASSUME NEW t \in Threads, ResetOther(t) PROVE class' = class /\ (bare => bare')
  BY <1>7 DEF CondTypeOK, ResetOther
<1>8. ASSUME NEW t \in Threads, WakeBySemaphore(t) PROVE class' = class /\ (bare => bare')
  BY <1>8 DEF CondTypeOK, WakeBySemaphore, Goes
<1>9. ASSUME NEW t \in Threads, WakeByVariable(t) PROVE class' = class /\ (bare => bare')
  BY <1>9 DEF CondTypeOK, WakeByVariable, Goes
<1>10. ASSUME NEW t \in Threads, WaitTimesOut(t) PROVE class' = class /\ (bare => bare')
  BY <1>10 DEF CondTypeOK, WaitTimesOut, Goes
<1>11. ASSUME NEW t \in Threads, WaitDecrement(t) PROVE class' = class /\ (bare => bare')
  BY <1>11 DEF CondTypeOK, WaitDecrement, Goes
<1>12. ASSUME NEW t \in Threads, Relock(t) PROVE class' = class /\ (bare => bare')
  BY <1>12 DEF CondTypeOK, Relock, Goes, Acquire
<1>13. ASSUME NEW t \in Threads, BroadcastRead(t) PROVE class' = class /\ (bare => bare')
  BY <1>13 DEF CondTypeOK, BroadcastRead, Goes
<1>14. ASSUME NEW t \in Threads, SignalImpl(t) PROVE class' = class /\ (bare => bare')
  BY <1>14 DEF CondTypeOK, SignalImpl, Goes
<1>15. ASSUME NEW t \in Threads, SignalAdd(t) PROVE class' = class /\ (bare => bare')
  BY <1>15 DEF CondTypeOK, SignalAdd, Goes
<1>16. ASSUME NEW t \in Threads, Uncount(t) PROVE class' = class /\ (bare => bare')
  BY <1>16 DEF CondTypeOK, Uncount, Goes, Return
<1>17. ASSUME NEW t \in Threads, BroadcastClear(t) PROVE class' = class /\ (bare => bare')
  BY <1>17 DEF CondTypeOK, BroadcastClear, Goes, Return
<1>18. ASSUME NEW t \in Threads, ResetTake(t) PROVE class' = class /\ (bare => bare')
  BY <1>18 DEF CondTypeOK, ResetTake, Goes
<1>19. ASSUME NEW t \in Threads, ResetEnd(t) PROVE class' = class /\ (bare => bare')
  BY <1>19 DEF CondTypeOK, ResetEnd, Goes, Return
<1>20. CASE UNCHANGED vars
  BY <1>20 DEF CondTypeOK, vars
<1> QED
  BY <1>1, <1>2, <1>3, <1>4, <1>5, <1>6, <1>7, <1>8, <1>9, <1>10, <1>11, <1>12, <1>13, <1>14, <1>15, <1>16, <1>17, <1>18, <1>19, <1>20, <1>21, <1>22, StepCases

\* Nobody is at the steps that only the semaphore has.
LEMMA NoPermits ==
  ASSUME CondTypeOK, VariableOK, class = "ms", [Next]_vars
  PROVE  \A u \in Threads : pc'[u] \notin {"add", "addAll", "reset"}
<1> USE DEF lockVars, condVars, callVars
<1>1. ASSUME NEW t \in Threads, Enter(t) PROVE \A u \in Threads : pc'[u] \notin {"add", "addAll", "reset"}
  BY <1>1 DEF CondTypeOK, VariableOK, Enter, Goes, Acquire
<1>2. ASSUME NEW t \in Threads, Leave(t) PROVE \A u \in Threads : pc'[u] \notin {"add", "addAll", "reset"}
  BY <1>2 DEF CondTypeOK, VariableOK, Leave, Goes, ReleaseLock
<1>3. ASSUME NEW t \in Threads, NEW limit \in BOOLEAN, Wait(t, limit) PROVE \A u \in Threads : pc'[u] \notin {"add", "addAll", "reset"}
  BY <1>3 DEF CondTypeOK, VariableOK, Wait, Goes, ReleaseLock
<1>21. ASSUME NEW t \in Threads, WaitUnlock(t) PROVE \A u \in Threads : pc'[u] \notin {"add", "addAll", "reset"}
  BY <1>21 DEF CondTypeOK, VariableOK, WaitUnlock, Goes, ReleaseLock
<1>22. ASSUME NEW t \in Threads, WaitEvent(t) PROVE \A u \in Threads : pc'[u] \notin {"add", "addAll", "reset"}
  BY <1>22 DEF CondTypeOK, VariableOK, WaitEvent, Goes
<1>4. ASSUME NEW t \in Threads, SignalBegin(t) PROVE \A u \in Threads : pc'[u] \notin {"add", "addAll", "reset"}
  BY <1>4 DEF CondTypeOK, VariableOK, SignalBegin, CallBegin
<1>5. ASSUME NEW t \in Threads, BroadcastBegin(t) PROVE \A u \in Threads : pc'[u] \notin {"add", "addAll", "reset"}
  BY <1>5 DEF CondTypeOK, VariableOK, BroadcastBegin, CallBegin
<1>6. ASSUME NEW t \in Threads, ResetBegin(t) PROVE \A u \in Threads : pc'[u] \notin {"add", "addAll", "reset"}
  BY <1>6 DEF CondTypeOK, VariableOK, ResetBegin, CallBegin
<1>7. ASSUME NEW t \in Threads, ResetOther(t) PROVE \A u \in Threads : pc'[u] \notin {"add", "addAll", "reset"}
  BY <1>7 DEF CondTypeOK, VariableOK, ResetOther
<1>8. ASSUME NEW t \in Threads, WakeBySemaphore(t) PROVE \A u \in Threads : pc'[u] \notin {"add", "addAll", "reset"}
  BY <1>8 DEF CondTypeOK, VariableOK, WakeBySemaphore, Goes
<1>9. ASSUME NEW t \in Threads, WakeByVariable(t) PROVE \A u \in Threads : pc'[u] \notin {"add", "addAll", "reset"}
  BY <1>9 DEF CondTypeOK, VariableOK, WakeByVariable, Goes
<1>10. ASSUME NEW t \in Threads, WaitTimesOut(t) PROVE \A u \in Threads : pc'[u] \notin {"add", "addAll", "reset"}
  BY <1>10 DEF CondTypeOK, VariableOK, WaitTimesOut, Goes
<1>11. ASSUME NEW t \in Threads, WaitDecrement(t) PROVE \A u \in Threads : pc'[u] \notin {"add", "addAll", "reset"}
  BY <1>11 DEF CondTypeOK, VariableOK, WaitDecrement, Goes
<1>12. ASSUME NEW t \in Threads, Relock(t) PROVE \A u \in Threads : pc'[u] \notin {"add", "addAll", "reset"}
  BY <1>12 DEF CondTypeOK, VariableOK, Relock, Goes, Acquire
<1>13. ASSUME NEW t \in Threads, BroadcastRead(t) PROVE \A u \in Threads : pc'[u] \notin {"add", "addAll", "reset"}
  BY <1>13 DEF CondTypeOK, VariableOK, BroadcastRead, Goes
<1>14. ASSUME NEW t \in Threads, SignalImpl(t) PROVE \A u \in Threads : pc'[u] \notin {"add", "addAll", "reset"}
  BY <1>14 DEF CondTypeOK, VariableOK, SignalImpl, Goes
<1>15. ASSUME NEW t \in Threads, SignalAdd(t) PROVE \A u \in Threads : pc'[u] \notin {"add", "addAll", "reset"}
  BY <1>15 DEF CondTypeOK, VariableOK, SignalAdd, Goes
<1>16. ASSUME NEW t \in Threads, Uncount(t) PROVE \A u \in Threads : pc'[u] \notin {"add", "addAll", "reset"}
  BY <1>16 DEF CondTypeOK, VariableOK, Uncount, Goes, Return
<1>17. ASSUME NEW t \in Threads, BroadcastClear(t) PROVE \A u \in Threads : pc'[u] \notin {"add", "addAll", "reset"}
  BY <1>17 DEF CondTypeOK, VariableOK, BroadcastClear, Goes, Return
<1>18. ASSUME NEW t \in Threads, ResetTake(t) PROVE \A u \in Threads : pc'[u] \notin {"add", "addAll", "reset"}
  BY <1>18 DEF CondTypeOK, VariableOK, ResetTake, Goes
<1>19. ASSUME NEW t \in Threads, ResetEnd(t) PROVE \A u \in Threads : pc'[u] \notin {"add", "addAll", "reset"}
  BY <1>19 DEF CondTypeOK, VariableOK, ResetEnd, Goes, Return
<1>20. CASE UNCHANGED vars
  BY <1>20 DEF CondTypeOK, VariableOK, vars
<1> QED
  BY <1>1, <1>2, <1>3, <1>4, <1>5, <1>6, <1>7, <1>8, <1>9, <1>10, <1>11, <1>12, <1>13, <1>14, <1>15, <1>16, <1>17, <1>18, <1>19, <1>20, <1>21, <1>22, StepCases

\* Under the lock a thread in a call, or about to wait, is alone there.
LEMMA Alone ==
  ASSUME CondTypeOK, LockHeld, VariableOK, class = "ms", ~bare,
         NEW t \in Threads, pc[t] \in Calling \cup {"in", "counted"},
         NEW u \in Threads, pc[u] \in Calling \cup {"in", "counted"}
  PROVE  t = u
<1>1. t \in holders /\ u \in holders
  BY DEF LockHeld, VariableOK
<1> QED
  BY <1>1 DEF CondTypeOK, LockHeld, Exclusive

\* The sleepers of the CONDITION_VARIABLE stay counted.
LEMMA VariableStep ==
  ASSUME CondTypeOK, LockHeld, CountRead, VariableOK, [Next]_vars
  PROVE  VariableOK'
<1> USE DEF lockVars, condVars, callVars
<1>c. class' = class /\ (bare => bare')
  BY ClassStep
<1>a. CASE class = "ms" /\ bare'
  <2>1. \A t \in Threads : pc'[t] \notin {"add", "addAll", "reset"}
    BY <1>a, NoPermits DEF VariableOK
  <2> QED
    BY <1>a, <1>c, <2>1 DEF VariableOK
<1>b. CASE class = "ms" /\ ~bare'
  <2> USE <1>b, <1>c
  <2>n. /\ IsFiniteSet(sleepers) /\ Cardinality(sleepers) \in Nat /\ waitCount \in Int
        /\ Cardinality(sleepers) <= waitCount /\ ~bare
    BY ConditionAssumption, FS_Subset, FS_CardinalityType DEF ConditionAssumption, CondTypeOK, VariableOK
  <2>1. ASSUME NEW t \in Threads, Enter(t) PROVE VariableOK'
    BY <2>1, <2>n DEF Enter, Goes, Acquire, CondTypeOK, CallerStates, Calling, VariableOK
  <2>2. ASSUME NEW t \in Threads, Leave(t) PROVE VariableOK'
    BY <2>2, <2>n DEF Leave, Goes, ReleaseLock, CondTypeOK, CallerStates, Calling, VariableOK
  <2>3. ASSUME NEW t \in Threads, WaitDecrement(t) PROVE VariableOK'
    BY <2>3, <2>n DEF WaitDecrement, Goes, CondTypeOK, CallerStates, Calling, VariableOK
  <2>4. ASSUME NEW t \in Threads, Relock(t) PROVE VariableOK'
    BY <2>4, <2>n DEF Relock, Goes, Acquire, CondTypeOK, CallerStates, Calling, VariableOK
  <2>5. ASSUME NEW t \in Threads, WakeByVariable(t) PROVE VariableOK'
    BY <2>5, <2>n DEF WakeByVariable, Goes, CondTypeOK, CallerStates, Calling, VariableOK
  <2>6. ASSUME NEW t \in Threads, WakeBySemaphore(t) PROVE VariableOK'
    BY <2>6, <2>n DEF WakeBySemaphore, Goes, CondTypeOK, CallerStates, Calling, VariableOK
  <2>7. ASSUME NEW t \in Threads, NEW limit \in BOOLEAN, Wait(t, limit) PROVE VariableOK'
    <3>1. \A u \in Threads : pc[u] \notin Calling \cup {"counted"}
      BY <2>7, <2>n, Alone DEF Wait, Goes, Calling
    <3>2. sleepers' = sleepers /\ waitCount' = waitCount + 1 /\ pc' = [pc EXCEPT ![t] = "counted"]
      BY <2>7 DEF Wait, Goes
    <3>3. Cardinality(sleepers') < waitCount' /\ Cardinality(sleepers') <= waitCount'
      BY <3>2, <2>n
    <3> QED
      BY <3>1, <3>2, <3>3 DEF CondTypeOK, CallerStates, Calling, VariableOK
  <2>21. ASSUME NEW t \in Threads, WaitUnlock(t) PROVE VariableOK'
    <3>1. \A u \in Threads : u # t => pc[u] \notin Calling \cup {"counted"}
      BY <2>21, <2>n, Alone DEF WaitUnlock, Goes, Calling
    <3>2. /\ sleepers' = sleepers \cup {t} /\ waitCount' = waitCount /\ pc' = [pc EXCEPT ![t] = "asleep"]
          /\ pc[t] = "counted"
      BY <2>21 DEF WaitUnlock, Goes
    <3>3. Cardinality(sleepers) < waitCount
      BY <3>2, <2>n DEF VariableOK
    <3>4. Cardinality(sleepers') <= Cardinality(sleepers) + 1 /\ Cardinality(sleepers') \in Nat
      <4>1. Cardinality(sleepers \cup {t}) = IF t \in sleepers THEN Cardinality(sleepers) ELSE Cardinality(sleepers) + 1
        BY <2>n, FS_AddElement
      <4> QED
        BY <3>2, <4>1, <2>n
    <3>5. Cardinality(sleepers') <= waitCount'
      BY <3>2, <3>3, <3>4, <2>n
    <3> QED
      BY <3>1, <3>2, <3>5 DEF CondTypeOK, CallerStates, Calling, VariableOK
  <2>22. ASSUME NEW t \in Threads, WaitEvent(t) PROVE VariableOK'
    BY <2>22, <2>n DEF WaitEvent, Goes, CondTypeOK, CallerStates, Calling, VariableOK
  <2>8. ASSUME NEW t \in Threads, WaitTimesOut(t) PROVE VariableOK'
    <3>1. /\ sleepers' = sleepers \ {t} /\ waitCount' = waitCount /\ holders' = holders /\ count' = count
          /\ pc' = [pc EXCEPT ![t] = "relock"] /\ bare' = bare
      BY <2>8 DEF WaitTimesOut, Goes
    <3>2. Cardinality(sleepers') <= Cardinality(sleepers) /\ Cardinality(sleepers') \in Nat
      BY <3>1, <2>n, FS_Subset, FS_CardinalityType
    <3>3. sleepers = {} => sleepers' = {}
      BY <3>1
    <3>4. \A w \in Int : (Cardinality(sleepers) <= w => Cardinality(sleepers') <= w)
                          /\ (Cardinality(sleepers) < w => Cardinality(sleepers') < w)
      BY <3>2, <2>n
    <3> QED
      BY <3>1, <3>3, <3>4, <2>n DEF CondTypeOK, CallerStates, Calling, VariableOK
  <2>9. ASSUME NEW t \in Threads, SignalBegin(t) PROVE VariableOK'
    <3>1. /\ pc' = [pc EXCEPT ![t] = "signal"] /\ t \in holders /\ waitCount # 0
          /\ holders' = holders /\ waitCount' = waitCount /\ sleepers' = sleepers
          /\ \A u \in Threads : u # t => count'[u] = count[u]
      BY <2>9 DEF SignalBegin, CallBegin, Protected, CondTypeOK
    <3>2. waitCount > 0
      BY <3>1, <2>n
    <3> QED
      BY <3>1, <3>2, <2>n DEF CondTypeOK, CallerStates, Calling, VariableOK
  <2>10. ASSUME NEW t \in Threads, BroadcastBegin(t) PROVE VariableOK'
    <3>1. /\ pc' = [pc EXCEPT ![t] = "broadcast"] /\ t \in holders /\ waitCount # 0
          /\ holders' = holders /\ waitCount' = waitCount /\ sleepers' = sleepers
          /\ \A u \in Threads : u # t => count'[u] = count[u]
      BY <2>10 DEF BroadcastBegin, CallBegin, Protected, CondTypeOK
    <3>2. waitCount > 0
      BY <3>1, <2>n
    <3> QED
      BY <3>1, <3>2, <2>n DEF CondTypeOK, CallerStates, Calling, VariableOK
  <2>11. ASSUME NEW t \in Threads, ResetBegin(t) PROVE VariableOK'
    BY <2>11 DEF ResetBegin
  <2>12. ASSUME NEW t \in Threads, ResetOther(t) PROVE VariableOK'
    BY <2>12 DEF ResetOther
  <2>13. ASSUME NEW t \in Threads, BroadcastRead(t) PROVE VariableOK'
    BY <2>13, <2>n DEF BroadcastRead, Goes, CondTypeOK, CallerStates, Calling, VariableOK
  <2>14. ASSUME NEW t \in Threads, SignalImpl(t) PROVE VariableOK'
    <3>1. /\ waitCount' = waitCount /\ holders' = holders /\ count' = count /\ pc[t] \in {"signal", "signalAll"}
          /\ pc' = [pc EXCEPT ![t] = IF pc[t] = "signal" THEN "uncount" ELSE "clear"]
      BY <2>14 DEF SignalImpl, Goes
    <3>2. \A u \in Threads : u # t => pc[u] \notin Calling \cup {"counted"}
      BY <3>1, <2>n, Alone DEF Calling
    <3>3. pc[t] = "signal" => waitCount > 0 /\ count[t] = 1
      BY <2>n DEF VariableOK, CountRead
    <3>4. pc[t] = "signalAll" => waitCount > 0 /\ count[t] = waitCount
      BY <2>n DEF VariableOK
    <3>5. \/ sleepers = {} /\ sleepers' = {}
          \/ sleepers # {} /\ count[t] = 1 /\ \E u \in sleepers : sleepers' = sleepers \ {u}
          \/ count[t] # 1 /\ sleepers' = {}
      BY <2>14 DEF SignalImpl
    <3>6. /\ Cardinality(sleepers') \in Nat
          /\ sleepers' = {} \/ (count[t] = 1 /\ Cardinality(sleepers') = Cardinality(sleepers) - 1)
          /\ sleepers' = {} => Cardinality(sleepers') = 0
          /\ Cardinality(sleepers') = 0 => sleepers' = {}
      <4>1. CASE sleepers' = {}
        BY <4>1, FS_EmptySet
      <4>2. CASE sleepers' # {}
        <5>1. PICK u \in sleepers : sleepers' = sleepers \ {u}
          BY <3>5, <4>2
        <5>2. IsFiniteSet(sleepers') /\ Cardinality(sleepers') = Cardinality(sleepers) - 1
          BY <5>1, <2>n, FS_RemoveElement
        <5>3. Cardinality(sleepers') \in Nat /\ (Cardinality(sleepers') = 0 => sleepers' = {})
          BY <5>2, FS_CardinalityType, FS_EmptySet
        <5> QED
          BY <3>5, <4>2, <5>2, <5>3
      <4> QED
        BY <4>1, <4>2
    <3>7. pc[t] = "signal" => Cardinality(sleepers') < waitCount
      BY <3>3, <3>6, <2>n
    <3>8. pc[t] = "signalAll" => sleepers' = {}
      BY <3>4, <3>6, <2>n
    <3>9. Cardinality(sleepers') <= waitCount
      BY <3>1, <3>3, <3>4, <3>6, <3>7, <3>8, <2>n
    <3>10. \A u \in Threads : u # t => pc'[u] \notin Calling \cup {"counted"}
      BY <3>1, <3>2 DEF CondTypeOK
    <3>11. pc'[t] \in {"uncount", "clear"} /\ (pc'[t] = "uncount" => pc[t] = "signal") /\ (pc'[t] = "clear" => pc[t] = "signalAll")
      BY <3>1 DEF CondTypeOK
    <3>12. t \in holders
      BY <3>1, <2>n DEF VariableOK, Calling
    <3> QED
      BY <3>1, <3>7, <3>8, <3>9, <3>10, <3>11, <3>12 DEF VariableOK, Calling
  <2>15. ASSUME NEW t \in Threads, SignalAdd(t) PROVE VariableOK'
    BY <2>15 DEF SignalAdd, Goes, VariableOK
  <2>16. ASSUME NEW t \in Threads, Uncount(t) PROVE VariableOK'
    <3>1. /\ waitCount' = waitCount - 1 /\ holders' = holders /\ count' = count /\ pc[t] = "uncount"
          /\ pc' = [pc EXCEPT ![t] = Return(t)] /\ Return(t) \in {"in", "out"} /\ sleepers' = sleepers
      BY <2>16 DEF Uncount, Goes, Return
    <3>2. \A u \in Threads : u # t => pc[u] \notin Calling \cup {"counted"}
      BY <3>1, <2>n, Alone DEF Calling
    <3>3. Cardinality(sleepers) < waitCount
      BY <3>1, <2>n DEF VariableOK
    <3>4. Cardinality(sleepers') <= waitCount'
      BY <3>1, <3>3, <2>n
    <3> QED
      BY <3>1, <3>2, <3>4 DEF CondTypeOK, CallerStates, Calling, VariableOK
  <2>17. ASSUME NEW t \in Threads, BroadcastClear(t) PROVE VariableOK'
    <3>1. /\ waitCount' = 0 /\ holders' = holders /\ count' = count /\ pc[t] = "clear"
          /\ pc' = [pc EXCEPT ![t] = Return(t)] /\ Return(t) \in {"in", "out"} /\ sleepers' = sleepers
      BY <2>17 DEF BroadcastClear, Goes, Return
    <3>2. \A u \in Threads : u # t => pc[u] \notin Calling \cup {"counted"}
      BY <3>1, <2>n, Alone DEF Calling
    <3>3. sleepers = {}
      BY <3>1, <2>n DEF VariableOK
    <3>4. Cardinality(sleepers') <= waitCount'
      BY <3>1, <3>3, FS_EmptySet
    <3> QED
      BY <3>1, <3>2, <3>4 DEF CondTypeOK, CallerStates, Calling, VariableOK
  <2>18. ASSUME NEW t \in Threads, ResetTake(t) PROVE VariableOK'
    BY <2>18 DEF ResetTake, Goes, VariableOK
  <2>19. ASSUME NEW t \in Threads, ResetEnd(t) PROVE VariableOK'
    BY <2>19 DEF ResetEnd, Goes, VariableOK
  <2>20. CASE UNCHANGED vars
    BY <2>20 DEF vars, VariableOK
  <2> QED
    BY <2>1, <2>2, <2>3, <2>4, <2>5, <2>6, <2>7, <2>8, <2>9, <2>10, <2>11, <2>12, <2>13, <2>14, <2>15, <2>16, <2>17, <2>18, <2>19, <2>20, <2>21, <2>22, StepCases
<1>d. CASE class # "ms"
  BY <1>c, <1>d DEF VariableOK
<1> QED
  BY <1>a, <1>b, <1>d

\* The invariant holds at the start and survives every step.
THEOREM CondInvariance == Spec => []CondInv
<1>1. Init => CondInv
  <2> SUFFICES ASSUME Init PROVE CondInv
    OBVIOUS
  <2>1. CondTypeOK /\ LockHeld /\ CountRead
    <3>1. class \in Classes /\ lock \in Locks /\ (class = "ms" => lock = "cs")
      BY DEF Init
    <3>2. class \in {"semaphore", "event", "ms"} /\ lock \in {"null", "cs", "mutex", "shared", "exclusive"}
      BY <3>1, ConditionAssumption DEF ConditionAssumption
    <3>3. CondTypeOK
      <4>1. held \in [Threads -> BOOLEAN] /\ bare \in BOOLEAN
        BY DEF Init
      <4>2. pc \in [Threads -> CallerStates]
        BY DEF Init, CallerStates
      <4>3. count \in [Threads -> Int] /\ waitCount \in Int /\ sem \in Nat /\ lost \in Nat
        BY DEF Init
      <4>4. holders \subseteq Threads /\ sleepers \subseteq Threads
        BY DEF Init
      <4> QED
        BY <3>1, <3>2, <4>1, <4>2, <4>3, <4>4 DEF CondTypeOK
    <3> QED
      BY <3>3 DEF Init, Calling, LockHeld, CountRead
  <2>2. Promised = {} /\ {t \in Threads : pc[t] \in InWait} = {} /\ sleepers = {}
    BY DEF Init, Promised, InDebt, InWait
  <2>3. IsFiniteSet({}) /\ Cardinality({}) = 0
    BY FS_EmptySet
  <2>4. SemaphoreOK
    BY <2>2, <2>3 DEF Init, SemaphoreOK, InState
  <2>5. VariableOK
    BY <2>2, <2>3 DEF Init, VariableOK, Calling
  <2> QED
    BY <2>1, <2>4, <2>5 DEF CondInv
<1>2. CondInv /\ [Next]_vars => CondInv'
  BY CondTypeStep, LockStep, CountStep, SemaphoreStep, VariableStep DEF CondInv
<1> QED
  BY <1>1, <1>2, PTL DEF Spec

\* No waiter goes deaf, for any number of threads and calls: in a wait on the
\* semaphore it is counted, has a permit or was lost in one of the two ways the
\* property names; asleep on the CONDITION_VARIABLE it is counted as long as
\* every call is made under the lock.
THEOREM WaitersCounted == Spec => []NoDeafWaiter
<1>1. CondInv => NoDeafWaiter
  <2> SUFFICES ASSUME CondInv PROVE NoDeafWaiter
    OBVIOUS
  <2>1. Cardinality(Promised) \in Nat
    BY FS_CardinalityType DEF CondInv, SemaphoreOK
  <2>2. {t \in Threads : pc[t] \in InWait} \in SUBSET Threads
    OBVIOUS
  <2>3. IsFiniteSet({t \in Threads : pc[t] \in InWait})
    BY <2>2, ConditionAssumption, FS_Subset DEF ConditionAssumption
  <2>4. InState(InWait) \in Nat
    BY <2>3, FS_CardinalityType DEF InState
  <2>5. class = "semaphore" => InState(InWait) <= sem + waitCount + lost
    <3>1. sem + waitCount + lost \in Int
      BY DEF CondInv, CondTypeOK
    <3>2. class = "semaphore" => InState(InWait) + Cardinality(Promised) <= sem + waitCount + lost
      BY DEF CondInv, SemaphoreOK
    <3> QED
      BY <2>1, <2>4, <3>1, <3>2
  <2>6. class = "ms" /\ ~bare => Cardinality(sleepers) <= waitCount
    BY DEF CondInv, VariableOK
  <2> QED
    BY <2>5, <2>6 DEF NoDeafWaiter
<1> QED
  BY <1>1, CondInvariance, PTL

-----------------------------------------------------------------------------
(* The thread object *)

ThreadStates == {"none", "new", "peek", "check", "get", "exited"}

ThreadTypeOK ==
  /\ threadKind \in {"plain", "msg"}
  /\ handle \in Ids \cup {NoThread}
  /\ starts \in 0..MaxStarts
  /\ thr \in [Ids -> ThreadStates]
  /\ owner \in OwnerStates
  /\ detached \subseteq Ids /\ abandoned \subseteq Ids
  /\ autoCleanup \in BOOLEAN

\* The owner that resumes, waits or destroys has a thread, and the one it
\* resumes was just created; nothing runs under a number not yet used.
OwnerKnows ==
  /\ owner \in {"resume", "wait", "timed", "destroy"} => HasThread
  /\ owner = "resume" => thr[handle] = "new"
  /\ \A i \in Ids : i > starts => thr[i] = "none"

ThreadInv == ThreadTypeOK /\ OwnerKnows /\ NoOrphan

\* A step of the owner that leaves the threads alone keeps NoOrphan when it keeps
\* the handle and gives up nothing.
LEMMA SameThreads ==
  ASSUME ThreadInv, thr' = thr, handle' = handle, starts' = starts, abandoned' = abandoned,
         ThreadTypeOK', owner' \in {"resume", "wait", "timed", "destroy"} => HasThread,
         owner' = "resume" => owner = "resume"
  PROVE  ThreadInv'
BY DEF ThreadInv, OwnerKnows, NoOrphan, Exists, HasThread

\* Giving up the handle keeps NoOrphan when a thread that runs is noted.
LEMMA GivesUp ==
  ASSUME ThreadInv, thr' = thr, handle' = NoThread, starts' = starts, ThreadTypeOK',
         abandoned \subseteq abandoned', HasThread /\ Exists(handle) => handle \in abandoned',
         owner' \in {"idle", "gone"}
  PROVE  ThreadInv'
<1>1. NoOrphan'
  BY DEF ThreadInv, NoOrphan, Exists, HasThread, ThreadTypeOK, Ids, NoThread
<1> QED
  BY <1>1 DEF ThreadInv, OwnerKnows

\* A thread that goes on was running before.
LEMMA GoesOn ==
  ASSUME ThreadInv, NEW i \in Ids, NEW from \in {"peek", "check", "get"},
         NEW to \in {"check", "get", "exited"}, ThreadGoes(i, from, to)
  PROVE  ThreadInv'
<1>1. /\ threadKind' = threadKind /\ handle' = handle /\ owner' = owner /\ starts' = starts
      /\ detached' = detached /\ abandoned' = abandoned /\ autoCleanup' = autoCleanup
      /\ thr[i] = from /\ thr' = [thr EXCEPT ![i] = to]
  BY DEF ThreadGoes, objVars, histVars
<1>2. ThreadTypeOK'
  BY <1>1 DEF ThreadInv, ThreadTypeOK, ThreadStates
<1>3. OwnerKnows'
  BY <1>1 DEF ThreadInv, ThreadTypeOK, OwnerKnows, HasThread, NoThread
<1>4. NoOrphan'
  BY <1>1 DEF ThreadInv, ThreadTypeOK, NoOrphan, Exists
<1> QED
  BY <1>2, <1>3, <1>4 DEF ThreadInv

\* The invariant holds of a new object and survives every step.
THEOREM ThreadInvariance == ThreadSpec => []ThreadInv
<1>1. ThreadInit => ThreadInv
  BY ThreadAssumption DEF ThreadInit, ThreadInv, ThreadTypeOK, ThreadStates, OwnerStates, OwnerKnows,
     NoOrphan, Exists, ThreadAssumption
<1>2. ThreadInv /\ [ThreadNext]_threadVars => ThreadInv'
  <2> SUFFICES ASSUME ThreadInv, [ThreadNext]_threadVars PROVE ThreadInv'
    OBVIOUS
  <2> USE DEF objVars, flagVars, msgVars, sysVars, histVars, Idle
  <2>1. CASE StartCreate
    <3>1. starts + 1 \in Ids
      BY <2>1, ThreadAssumption DEF StartCreate, ThreadInv, ThreadTypeOK, Ids, ThreadAssumption
    <3>2. handle' = starts + 1 /\ starts' = starts + 1 /\ thr' = [thr EXCEPT ![starts + 1] = "new"]
          /\ abandoned' = Abandoned /\ owner' = "resume"
      BY <2>1 DEF StartCreate
    <3>3. ThreadTypeOK'
      BY <2>1, <3>1, <3>2 DEF StartCreate, Abandoned, HasThread, ThreadInv, ThreadTypeOK, ThreadStates, OwnerStates, Ids
    <3>4. OwnerKnows'
      BY <3>1, <3>2 DEF ThreadInv, ThreadTypeOK, OwnerKnows, HasThread, Ids, NoThread
    <3>5. NoOrphan'
      BY <3>1, <3>2 DEF ThreadInv, ThreadTypeOK, Abandoned, HasThread, NoOrphan, Exists, Ids, NoThread
    <3> QED
      BY <3>3, <3>4, <3>5 DEF ThreadInv
  <2>2. CASE CreateFails
    <3>1. ThreadTypeOK'
      BY <2>2 DEF CreateFails, Abandoned, HasThread, ThreadInv, ThreadTypeOK
    <3> QED
      BY <2>2, <3>1, GivesUp DEF CreateFails, Abandoned
  <2>3. CASE StartResume
    <3>1. handle \in Ids /\ handle' = handle /\ starts' = starts /\ abandoned' = abandoned /\ owner' = "idle"
          /\ thr' = [thr EXCEPT ![handle] = IF threadKind = "msg" THEN "peek" ELSE "check"]
      BY <2>3 DEF StartResume, ThreadInv, ThreadTypeOK, OwnerKnows, HasThread
    <3>2. ThreadTypeOK'
      BY <2>3, <3>1 DEF StartResume, ThreadInv, ThreadTypeOK, ThreadStates, OwnerStates
    <3>3. OwnerKnows'
      BY <2>3, <3>1 DEF StartResume, ThreadInv, ThreadTypeOK, OwnerKnows
    <3>4. NoOrphan'
      BY <3>1 DEF ThreadInv, ThreadTypeOK, NoOrphan, Exists
    <3> QED
      BY <3>2, <3>3, <3>4 DEF ThreadInv
  <2>4. CASE Suspend
    <3>1. ThreadTypeOK'
      BY <2>4 DEF Suspend, ThreadInv, ThreadTypeOK
    <3> QED
      BY <2>4, <3>1, SameThreads DEF Suspend
  <2>5. CASE Resume
    <3>1. ThreadTypeOK'
      BY <2>5 DEF Resume, ThreadInv, ThreadTypeOK
    <3> QED
      BY <2>5, <3>1, SameThreads DEF Resume
  <2>6. CASE CallAbort
    <3>1. ThreadTypeOK'
      BY <2>6 DEF CallAbort, ThreadInv, ThreadTypeOK
    <3> QED
      BY <2>6, <3>1, SameThreads DEF CallAbort
  <2>7. CASE StopBegin
    <3>1. ThreadTypeOK'
      BY <2>7 DEF StopBegin, ThreadInv, ThreadTypeOK, OwnerStates
    <3> QED
      BY <2>7, <3>1, SameThreads DEF StopBegin
  <2>8. CASE StopReturn
    <3>1. ThreadTypeOK'
      BY <2>8 DEF StopReturn, Release, ThreadInv, ThreadTypeOK, OwnerStates
    <3> QED
      BY <2>8, <3>1, GivesUp DEF StopReturn, Release, Exists
  <2>9. CASE StopTimeout
    <3>1. ThreadTypeOK'
      BY <2>9 DEF StopTimeout, Release, Abandoned, HasThread, ThreadInv, ThreadTypeOK, OwnerStates
    <3> QED
      BY <2>9, <3>1, GivesUp DEF StopTimeout, Release, Abandoned
  <2>10. CASE CallRelease
    <3>1. ThreadTypeOK'
      BY <2>10 DEF CallRelease, Release, Abandoned, HasThread, ThreadInv, ThreadTypeOK, OwnerStates
    <3> QED
      BY <2>10, <3>1, GivesUp DEF CallRelease, Release, Abandoned
  <2>11. CASE Detach
    <3>1. ThreadTypeOK'
      BY <2>11 DEF Detach, Abandoned, HasThread, ThreadInv, ThreadTypeOK, OwnerStates
    <3> QED
      BY <2>11, <3>1, GivesUp DEF Detach, Abandoned
  <2>12. ASSUME NEW i \in Ids, Attach(i) PROVE ThreadInv'
    <3>1. ThreadTypeOK'
      BY <2>12 DEF Attach, Abandoned, HasThread, ThreadInv, ThreadTypeOK
    <3>2. OwnerKnows'
      BY <2>12 DEF Attach, ThreadInv, OwnerKnows
    <3>3. NoOrphan'
      BY <2>12 DEF Attach, Abandoned, HasThread, ThreadInv, NoOrphan, Exists, Ids, NoThread
    <3> QED
      BY <3>1, <3>2, <3>3 DEF ThreadInv
  <2>13. CASE Terminate
    <3>1. ThreadTypeOK'
      BY <2>13 DEF Terminate, ThreadInv, ThreadTypeOK, ThreadStates
    <3>2. OwnerKnows'
      BY <2>13 DEF Terminate, Exists, ThreadInv, ThreadTypeOK, OwnerKnows
    <3>3. NoOrphan'
      BY <2>13 DEF Terminate, ThreadInv, ThreadTypeOK, NoOrphan, Exists
    <3> QED
      BY <3>1, <3>2, <3>3 DEF ThreadInv
  <2>14. ASSUME NEW b \in BOOLEAN, SetAutoClean(b) PROVE ThreadInv'
    <3>1. ThreadTypeOK'
      BY <2>14 DEF SetAutoClean, ThreadInv, ThreadTypeOK
    <3> QED
      BY <2>14, <3>1, SameThreads DEF SetAutoClean
  <2>15. CASE Destroy
    <3>1. CASE autoCleanup /\ HasThread
      <4>1. ThreadTypeOK'
        BY <2>15, <3>1 DEF Destroy, ThreadInv, ThreadTypeOK, OwnerStates
      <4> QED
        BY <2>15, <3>1, <4>1, SameThreads DEF Destroy
    <3>2. CASE ~(autoCleanup /\ HasThread)
      <4>1. ThreadTypeOK'
        BY <2>15, <3>2 DEF Destroy, Release, Abandoned, HasThread, ThreadInv, ThreadTypeOK, OwnerStates
      <4> QED
        BY <2>15, <3>2, <4>1, GivesUp DEF Destroy, Release, Abandoned
    <3> QED
      BY <3>1, <3>2
  <2>16. ASSUME NEW m \in {"quit", "msg"}, Post(m) PROVE ThreadInv'
    <3>1. ThreadTypeOK'
      BY <2>16 DEF Post, ThreadInv, ThreadTypeOK
    <3> QED
      BY <2>16, <3>1, SameThreads DEF Post
  <2>17. ASSUME NEW i \in Ids, ThreadStep(i) \/ HandlerReturns(i) PROVE ThreadInv'
    <3>1. CASE MakeQueue(i)
      BY <3>1, GoesOn DEF MakeQueue
    <3>2. CASE SeeAbort(i)
      BY <3>2, GoesOn DEF SeeAbort
    <3>3. CASE EnterGetMessage(i)
      BY <3>3, GoesOn DEF EnterGetMessage
    <3>4. CASE GotMessage(i)
      BY <3>4, GoesOn DEF GotMessage
    <3>5. CASE HandlerReturns(i)
      BY <3>5, GoesOn DEF HandlerReturns
    <3> QED
      BY <2>17, <3>1, <3>2, <3>3, <3>4, <3>5 DEF ThreadStep
  <2>18. CASE UNCHANGED threadVars
    BY <2>18 DEF threadVars, ThreadInv, ThreadTypeOK, OwnerKnows, NoOrphan, Exists, HasThread
  <2> QED
    BY <2>1, <2>2, <2>3, <2>4, <2>5, <2>6, <2>7, <2>8, <2>9, <2>10, <2>11, <2>12, <2>13, <2>14,
       <2>15, <2>16, <2>17, <2>18 DEF ThreadNext
<1> QED
  BY <1>1, <1>2, PTL DEF ThreadSpec

\* A thread that runs is the object's own, or its handle was given up on purpose.
THEOREM ThreadsOwned == ThreadSpec => []NoOrphan
BY ThreadInvariance, PTL DEF ThreadInv

-----------------------------------------------------------------------------
(* The wrappers of the system's pool *)

SystemTypeOK ==
  /\ wrapper \in {"work", "timer", "wait"}
  /\ exists \in BOOLEAN
  /\ made \in Nat
  /\ reg \in Regs \cup {NoReg}
  /\ armed \in [Regs -> {"none", "once", "often", "spent", "deleted"}]
  /\ fires \in [Regs -> Nat] /\ queued \in [Regs -> Nat] /\ running \in [Regs -> Nat]
  /\ overwritten \subseteq Regs /\ late \subseteq Regs /\ again \subseteq Regs
  /\ cancelled \subseteq Regs /\ pending \in [Regs -> Nat]

Armed(r) == armed[r] \in {"once", "often"}

\* What the system still has armed is behind the handle or was stored over, and
\* the timer behind the handle is deleted with its object.
ArmedKnown ==
  /\ \A r \in Regs : Armed(r) => wrapper # "work" /\ (r = reg \/ r \in overwritten)
  /\ wrapper = "timer" /\ ~exists /\ reg # NoReg => armed[reg] = "deleted"

\* A timer or wait falls due before its callback is outstanding, so that the
\* handle of a deleted timer is kept only if the timer has fired.
FiredFirst ==
  /\ wrapper # "work" => \A r \in Regs : queued[r] + running[r] <= fires[r]
  /\ wrapper = "timer" /\ reg # NoReg /\ armed[reg] = "deleted" => fires[reg] > 0

\* What was cancelled was made and is off, and nothing is late while the object
\* exists: cancel() and a new call() cannot make a registration of either kind.
CancelledOff ==
  /\ reg <= made
  /\ \A r \in cancelled : r <= made /\ armed[r] = "deleted"
  /\ exists => late = {}

SystemInv == SystemTypeOK /\ ArmedKnown /\ FiredFirst /\ CancelledOff /\ LateNeedsHandleLost

\* Deleting the timer behind the handle keeps the invariant, whether the object
\* stays or goes.
LEMMA DeletesTimer ==
  ASSUME SystemInv, exists, wrapper = "timer", reg # NoReg, DeleteTimer, exists' \in BOOLEAN,
         IF exists' THEN pending' = pending ELSE pending' = [r \in Regs |-> queued[r] + running[r]],
         UNCHANGED <<wrapper, made, fires, queued, running, overwritten, late>>
  PROVE  SystemInv'
<1>1. reg \in Regs /\ armed' = [armed EXCEPT ![reg] = "deleted"] /\ reg' \in {reg, NoReg}
      /\ cancelled' = cancelled \cup {reg}
  BY DEF SystemInv, SystemTypeOK, DeleteTimer, Delete
<1>2. again' = IF armed[reg] = "deleted" THEN again \cup {reg} ELSE again
  BY DEF DeleteTimer, Delete
<1>3. SystemTypeOK'
  <2>1. pending' \in [Regs -> Nat]
    BY DEF SystemInv, SystemTypeOK
  <2> QED
    BY <1>1, <1>2, <2>1 DEF SystemInv, SystemTypeOK
<1>4. reg' = reg => fires[reg] > 0
  <2>1. reg' = reg => queued[reg] + running[reg] > 0
    BY DEF DeleteTimer, Outstanding
  <2>2. queued[reg] + running[reg] <= fires[reg]
    BY <1>1 DEF SystemInv, FiredFirst
  <2>3. queued[reg] \in Nat /\ running[reg] \in Nat /\ fires[reg] \in Nat
    BY <1>1 DEF SystemInv, SystemTypeOK
  <2> QED
    BY <2>1, <2>2, <2>3
<1>5. ArmedKnown'
  BY <1>1 DEF SystemInv, SystemTypeOK, ArmedKnown, Armed
<1>6. FiredFirst'
  BY <1>1, <1>4 DEF SystemInv, SystemTypeOK, FiredFirst
<1>7. CancelledOff'
  BY <1>1 DEF SystemInv, SystemTypeOK, CancelledOff, NoReg
<1>8. LateNeedsHandleLost'
  <2>1. ~exists' => \A r \in Regs : queued'[r] + running'[r] <= pending'[r]
    BY DEF SystemInv, SystemTypeOK
  <2> QED
    BY <1>2, <2>1 DEF SystemInv, FiredFirst, CancelledOff, LateNeedsHandleLost
<1> QED
  BY <1>3, <1>5, <1>6, <1>7, <1>8 DEF SystemInv

\* The invariant holds of a new wrapper and survives every step.
THEOREM SystemInvariance == SystemSpec => []SystemInv
<1>1. SystemInit => SystemInv
  BY DEF SystemInit, Zero, NoReg, SystemInv, SystemTypeOK, ArmedKnown, Armed, FiredFirst, CancelledOff, LateNeedsHandleLost
<1>2. SystemInv /\ [SystemNext]_systemVars => SystemInv'
  <2> SUFFICES ASSUME SystemInv, [SystemNext]_systemVars PROVE SystemInv'
    OBVIOUS
  <2> USE DEF SystemInv
  <2>1. CASE Call
    <3>1. /\ made + 1 \in Regs /\ exists /\ exists' = exists /\ made' = made + 1 /\ wrapper' = wrapper
          /\ fires' = fires /\ running' = running /\ late' = late /\ again' = again
          /\ cancelled' = cancelled /\ pending' = pending
      BY <2>1 DEF Call
    <3>2. CASE wrapper = "work"
      <4>1. /\ queued' = [queued EXCEPT ![made + 1] = 1]
            /\ reg' = reg /\ armed' = armed /\ overwritten' = overwritten
        BY <2>1, <3>2 DEF Call
      <4>2. SystemTypeOK'
        BY <3>1, <4>1 DEF SystemTypeOK
      <4> QED
        BY <3>1, <3>2, <4>1, <4>2 DEF SystemTypeOK, NoReg, Regs, ArmedKnown, Armed, FiredFirst, CancelledOff, LateNeedsHandleLost
    <3>3. CASE wrapper # "work"
      <4>1. PICK how \in {"once", "often"} : armed' = [armed EXCEPT ![made + 1] = how]
        BY <2>1, <3>3 DEF Call
      <4>2. /\ reg' = made + 1 /\ queued' = queued
            /\ overwritten' = IF reg = NoReg THEN overwritten ELSE overwritten \cup {reg}
        BY <2>1, <3>3 DEF Call
      <4>3. SystemTypeOK'
        BY <3>1, <4>1, <4>2 DEF SystemTypeOK
      <4>4. ArmedKnown'
        BY <3>1, <3>3, <4>1, <4>2 DEF SystemTypeOK, ArmedKnown, Armed, Regs, NoReg
      <4>5. FiredFirst'
        BY <3>1, <4>1, <4>2 DEF SystemTypeOK, FiredFirst
      <4>6. CancelledOff' /\ LateNeedsHandleLost'
        BY <3>1, <4>1, <4>2 DEF SystemTypeOK, CancelledOff, LateNeedsHandleLost, Regs
      <4> QED
        BY <4>3, <4>4, <4>5, <4>6
    <3> QED
      BY <3>2, <3>3
  <2>2. CASE Change
    <3>1. PICK how \in {"once", "often"} : armed' = [armed EXCEPT ![reg] = how]
      BY <2>2 DEF Change
    <3>2. reg \in Regs /\ Armed(reg) /\ exists
      BY <2>2 DEF Change, SystemTypeOK, Armed
    <3>3. UNCHANGED <<wrapper, exists, made, reg, fires, queued, running, overwritten,
                    cancelled, late, pending, again>>
      BY <2>2 DEF Change
    <3>4. SystemTypeOK'
      BY <3>1, <3>3 DEF SystemTypeOK
    <3>5. ArmedKnown' /\ FiredFirst' /\ CancelledOff' /\ LateNeedsHandleLost'
      BY <3>1, <3>2, <3>3 DEF SystemTypeOK, ArmedKnown, Armed, FiredFirst, CancelledOff, LateNeedsHandleLost
    <3> QED
      BY <3>4, <3>5
  <2>3. CASE CancelTimer
    <3>1. exists' \in BOOLEAN
      BY <2>3 DEF CancelTimer, SystemTypeOK
    <3>2. exists /\ exists' = exists /\ pending' = pending
      BY <2>3 DEF CancelTimer
    <3> QED
      BY <2>3, <3>1, <3>2, DeletesTimer DEF CancelTimer
  <2>4. CASE CancelWait
    <3>1. /\ wrapper = "wait" /\ exists /\ reg \in Regs
          /\ armed' = [armed EXCEPT ![reg] = "deleted"] /\ cancelled' = cancelled \cup {reg}
          /\ again' = IF armed[reg] = "deleted" THEN again \cup {reg} ELSE again
          /\ UNCHANGED <<wrapper, exists, made, reg, fires, queued, running, overwritten, late, pending>>
      BY <2>4 DEF CancelWait, Delete, SystemTypeOK
    <3>2. SystemTypeOK'
      BY <3>1 DEF SystemTypeOK
    <3>3. ArmedKnown' /\ FiredFirst'
      BY <3>1 DEF SystemTypeOK, ArmedKnown, Armed, FiredFirst
    <3>4. CancelledOff' /\ LateNeedsHandleLost'
      BY <3>1 DEF SystemTypeOK, CancelledOff, LateNeedsHandleLost
    <3> QED
      BY <3>2, <3>3, <3>4
  <2>5. CASE DestroyPool
    <3>1. /\ exists /\ exists' = FALSE /\ pending' = [r \in Regs |-> queued[r] + running[r]]
          /\ UNCHANGED <<wrapper, made, fires, queued, running, overwritten, late>>
      BY <2>5 DEF DestroyPool
    <3>2. CASE wrapper = "timer" /\ reg # NoReg
      <4>1. DeleteTimer
        BY <2>5, <3>2 DEF DestroyPool
      <4> QED
        BY <3>1, <3>2, <4>1, DeletesTimer
    <3>3. CASE ~(wrapper = "timer" /\ reg # NoReg)
      <4>1. UNCHANGED <<armed, again, cancelled, reg>>
        BY <2>5, <3>3 DEF DestroyPool
      <4>2. SystemTypeOK'
        <5>1. pending' \in [Regs -> Nat]
          BY <3>1 DEF SystemTypeOK
        <5>2. exists' \in BOOLEAN
          BY <3>1
        <5> QED
          BY <3>1, <4>1, <5>1, <5>2 DEF SystemTypeOK
      <4>3. ArmedKnown' /\ FiredFirst' /\ CancelledOff'
        BY <3>1, <3>3, <4>1 DEF ArmedKnown, Armed, FiredFirst, CancelledOff
      <4>4. \A r \in Regs : queued'[r] + running'[r] <= pending'[r]
        BY <3>1 DEF SystemTypeOK
      <4>5. LateNeedsHandleLost'
        BY <3>1, <4>1, <4>4 DEF LateNeedsHandleLost
      <4> QED
        BY <4>2, <4>3, <4>5
    <3> QED
      BY <3>2, <3>3
  <2>6. ASSUME NEW r \in Regs, Due(r) PROVE SystemInv'
    <3>1. /\ Armed(r) /\ fires' = [fires EXCEPT ![r] = @ + 1] /\ queued' = [queued EXCEPT ![r] = @ + 1]
          /\ armed' = [armed EXCEPT ![r] = IF @ = "once" THEN "spent" ELSE @]
          /\ late' = IF exists /\ r \notin cancelled THEN late ELSE late \cup {r}
          /\ UNCHANGED <<wrapper, exists, made, reg, running, overwritten, cancelled, pending, again>>
      BY <2>6 DEF Due, Armed
    <3>2. SystemTypeOK'
      BY <3>1 DEF SystemTypeOK
    <3>3. ArmedKnown'
      BY <3>1 DEF SystemTypeOK, ArmedKnown, Armed
    <3>4. FiredFirst'
      BY <3>1 DEF SystemTypeOK, FiredFirst, Armed
    <3>5. ~exists => wrapper = "wait" \/ r \in overwritten
      BY <3>1 DEF SystemTypeOK, ArmedKnown, Armed, Regs, NoReg
    <3>6. r \notin cancelled
      BY <3>1 DEF CancelledOff, Armed
    <3>7. CancelledOff'
      BY <3>1, <3>6 DEF SystemTypeOK, CancelledOff
    <3>8. LateNeedsHandleLost'
      BY <3>1, <3>5, <3>6 DEF SystemTypeOK, LateNeedsHandleLost
    <3> QED
      BY <3>2, <3>3, <3>4, <3>7, <3>8
  <2>7. ASSUME NEW r \in Regs, ProcBegins(r) PROVE SystemInv'
    <3>1. SystemTypeOK'
      BY <2>7 DEF ProcBegins, SystemTypeOK
    <3>2. FiredFirst'
      BY <2>7 DEF ProcBegins, SystemTypeOK, FiredFirst
    <3>3. ArmedKnown' /\ CancelledOff'
      BY <2>7 DEF ProcBegins, ArmedKnown, Armed, CancelledOff
    <3>4. LateNeedsHandleLost'
      BY <2>7 DEF ProcBegins, SystemTypeOK, LateNeedsHandleLost
    <3> QED
      BY <3>1, <3>2, <3>3, <3>4
  <2>8. ASSUME NEW r \in Regs, ProcEnds(r) PROVE SystemInv'
    <3>1. SystemTypeOK'
      BY <2>8 DEF ProcEnds, SystemTypeOK
    <3>2. FiredFirst'
      BY <2>8 DEF ProcEnds, SystemTypeOK, FiredFirst
    <3>3. ArmedKnown' /\ CancelledOff'
      BY <2>8 DEF ProcEnds, ArmedKnown, Armed, CancelledOff
    <3>4. LateNeedsHandleLost'
      BY <2>8 DEF ProcEnds, SystemTypeOK, LateNeedsHandleLost
    <3> QED
      BY <3>1, <3>2, <3>3, <3>4
  <2>9. CASE UNCHANGED systemVars
    BY <2>9 DEF systemVars, SystemTypeOK, ArmedKnown, Armed, FiredFirst, CancelledOff, LateNeedsHandleLost
  <2> QED
    BY <2>1, <2>2, <2>3, <2>4, <2>5, <2>6, <2>7, <2>8, <2>9 DEF SystemNext
<1> QED
  BY <1>1, <1>2, PTL DEF SystemSpec

\* A cancelled registration never falls due again; after the destruction of the
\* object only a wait nobody cancelled or a timer stored over does, and otherwise
\* no more callbacks are outstanding than there were at the destruction.
THEOREM LateOnlyIfHandleLost == SystemSpec => []LateNeedsHandleLost
BY SystemInvariance, PTL DEF SystemInv
=============================================================================
