--------------------------- MODULE TaskPoolProofs ---------------------------
(***************************************************************************)
(* Proofs about TaskPool for any set of tasks and any number of workers:   *)
(* the wakeups of condition_t are accounted for, no task is stranded, and  *)
(* shutdown() drains what was pushed before it.                            *)
(***************************************************************************)
EXTENDS TaskPool, SequenceTheorems, FiniteSetTheorems, TLAPS

-----------------------------------------------------------------------------
(* Counting the processes at a step                                        *)

\* The number of processes of D whose program counter f is in A.
Count(D, f, A) == Cardinality({d \in D : f[d] \in A})

\* How such a number changes when one process goes from u to v.
Shifts(before, after, u, v, A) ==
  /\ (u \in A <=> v \in A) => after = before
  /\ u \in A /\ v \notin A => after = before - 1
  /\ u \notin A /\ v \in A => after = before + 1

\* Moving one process changes a count by what it leaves and where it goes.
LEMMA CountMove ==
  ASSUME NEW D, IsFiniteSet(D), NEW V, NEW f \in [D -> V],
         NEW d \in D, NEW v \in V, NEW A,
         NEW g, g = [f EXCEPT ![d] = v]
  PROVE  Shifts(Count(D, f, A), Count(D, g, A), f[d], v, A)
<1> DEFINE S == {x \in D : f[x] \in A}
           T == {x \in D : g[x] \in A}
<1>1. IsFiniteSet(S) /\ IsFiniteSet(T)
  BY FS_Subset
<1>2. ASSUME v \in A, f[d] \notin A PROVE Cardinality(T) = Cardinality(S) + 1
  <2>1. T = S \cup {d} /\ d \notin S
    BY <1>2
  <2> QED
    BY <1>1, <2>1, FS_AddElement
<1>3. ASSUME v \notin A, f[d] \in A PROVE Cardinality(T) = Cardinality(S) - 1
  <2>1. T = S \ {d} /\ d \in S
    BY <1>3
  <2> QED
    BY <1>1, <2>1, FS_RemoveElement
<1>4. ASSUME v \in A <=> f[d] \in A PROVE Cardinality(T) = Cardinality(S)
  <2>1. T = S
    BY <1>4
  <2> QED
    BY <2>1
<1> QED
  BY <1>2, <1>3, <1>4 DEF Count, Shifts

\* The sets of processes are finite.
LEMMA FiniteProcesses == IsFiniteSet(Workers) /\ IsFiniteSet(Pushers)
<1>1. IsFiniteSet(Workers)
  BY PoolAssumption, FS_Interval DEF Workers
<1>2. IsFiniteSet(Pushers)
  BY PoolAssumption, FS_AddElement DEF Pushers
<1> QED
  BY <1>1, <1>2

\* The counts of the properties as counts of program counters.
LEMMA Counted ==
  /\ Cardinality(Sleepers) = Count(Workers, pc, {"counted", "asleep"})
  /\ Cardinality(Seekers) = Count(Workers, pc, {"lock", "woken", "check"})
  /\ Cardinality(Owing) = Count(Pushers, pushPc, {"signal", "release"})
  /\ Cardinality(Releasing) = Count(Pushers, pushPc, {"decrement"})
<1>1. Releasing = {p \in Pushers : pushPc[p] \in {"decrement"}}
  BY DEF Releasing
<1> QED
  BY <1>1 DEF Sleepers, Seekers, Owing, Count

\* A step of worker w to v.
LEMMA WorkerMove ==
  ASSUME TypeOK, NEW w \in Workers, NEW v \in WorkerStates,
         pc' = [pc EXCEPT ![w] = v]
  PROVE  /\ Shifts(Cardinality(Sleepers), Cardinality(Sleepers)', pc[w], v, {"counted", "asleep"})
         /\ Shifts(Cardinality(Seekers), Cardinality(Seekers)', pc[w], v, {"lock", "woken", "check"})
<1>1. PICK f \in [Workers -> WorkerStates] : f = pc
  BY DEF TypeOK
<1>2. PICK g : g = pc' /\ g = [f EXCEPT ![w] = v]
  BY <1>1
<1>3. ASSUME NEW A
      PROVE  Shifts(Count(Workers, f, A), Count(Workers, g, A), f[w], v, A)
  BY <1>2, FiniteProcesses, CountMove
<1>4. /\ Cardinality(Sleepers)' = Count(Workers, pc', {"counted", "asleep"})
      /\ Cardinality(Seekers)' = Count(Workers, pc', {"lock", "woken", "check"})
  BY DEF Sleepers, Seekers, Count
<1> QED
  BY <1>1, <1>2, <1>3, <1>4, Counted

\* A step of a push() call to v.
LEMMA PusherMove ==
  ASSUME TypeOK, NEW p \in Pushers, NEW v \in PushStates,
         pushPc' = [pushPc EXCEPT ![p] = v]
  PROVE  /\ Shifts(Cardinality(Owing), Cardinality(Owing)', pushPc[p], v, {"signal", "release"})
         /\ Shifts(Cardinality(Releasing), Cardinality(Releasing)', pushPc[p], v, {"decrement"})
<1>1. PICK f \in [Pushers -> PushStates] : f = pushPc
  BY DEF TypeOK
<1>2. PICK g : g = pushPc' /\ g = [f EXCEPT ![p] = v]
  BY <1>1
<1>3. ASSUME NEW A
      PROVE  Shifts(Count(Pushers, f, A), Count(Pushers, g, A), f[p], v, A)
  BY <1>2, FiniteProcesses, CountMove
<1>4. /\ Cardinality(Owing)' = Count(Pushers, pushPc', {"signal", "release"})
      /\ Cardinality(Releasing)' = Count(Pushers, pushPc', {"decrement"})
  <2>1. Releasing' = {q \in Pushers : pushPc'[q] \in {"decrement"}}
    BY DEF Releasing
  <2> QED
    BY <2>1 DEF Owing, Count
<1> QED
  BY <1>1, <1>2, <1>3, <1>4, Counted

\* The counts are natural numbers.
LEMMA CountsNat ==
  ASSUME TypeOK
  PROVE  /\ Cardinality(Sleepers) \in Nat
         /\ Cardinality(Seekers) \in Nat
         /\ Cardinality(Owing) \in Nat
         /\ Cardinality(Releasing) \in Nat
  BY FiniteProcesses, FS_Subset, FS_CardinalityType
     DEF Sleepers, Seekers, Owing, Releasing

-----------------------------------------------------------------------------
(* Type correctness                                                        *)

\* The pool the constructor builds is well typed.
LEMMA TypeInit == Init => TypeOK
  BY PoolAssumption DEF Init, TypeOK, Workers, Pushers, PushStates, WorkerStates

\* Every step of push() and clear() preserves the types.
LEMMA TypePush ==
  ASSUME TypeOK, (\E p \in Pushers : Push(p)) \/ Clear
  PROVE  TypeOK'
<1>1. ASSUME NEW p \in Pushers, PushBack(p) PROVE TypeOK'
  <2>1. queue' \in Seq(Pushers)
    BY <1>1, AppendProperties DEF PushBack, TypeOK
  <2> QED
    BY <1>1, <2>1 DEF PushBack, TypeOK, condVars, stopVars, histVars, PushStates
<1>2. ASSUME NEW p \in Pushers, SignalCheck(p) PROVE TypeOK'
  BY <1>2 DEF SignalCheck, PushDone, TypeOK, condVars, stopVars, histVars, PushStates
<1>3. ASSUME NEW p \in Pushers, SignalRelease(p) PROVE TypeOK'
  BY <1>3 DEF SignalRelease, TypeOK, stopVars, histVars, PushStates
<1>4. ASSUME NEW p \in Pushers, SignalDecrement(p) PROVE TypeOK'
  BY <1>4 DEF SignalDecrement, PushDone, TypeOK, stopVars, histVars, PushStates
<1>5. CASE Clear
  <2>1. Range(queue) \subseteq Pushers
    BY DEF TypeOK, Range
  <2> QED
    BY <1>5, <2>1 DEF Clear, TypeOK, condVars, stopVars
<1> QED
  BY <1>1, <1>2, <1>3, <1>4, <1>5 DEF Push

\* Every step of a worker preserves the types.
LEMMA TypeWorker ==
  ASSUME TypeOK, NEW w \in Workers, Worker(w)
  PROVE  TypeOK'
<1> USE DEF WorkerStates, condVars, stopVars, histVars
<1>1. CASE PopLock(w)
  BY <1>1 DEF PopLock, TypeOK
<1>2. CASE PopTake(w)
  <2>1. Len(queue) > 0
    BY <1>2 DEF PopTake, TypeOK
  <2>2. Head(queue) \in Pushers /\ Tail(queue) \in Seq(Pushers)
    BY <2>1, HeadTailProperties DEF TypeOK
  <2> QED
    BY <1>2, <2>2 DEF PopTake, TypeOK
<1>3. CASE PopWait(w)
  BY <1>3 DEF PopWait, TypeOK
<1>4. CASE PopSleep(w)
  BY <1>4 DEF PopSleep, TypeOK
<1>5. CASE PopWake(w)
  BY <1>5 DEF PopWake, TypeOK
<1>6. CASE TaskBegin(w)
  <2>1. active' \in 0..(Word - 1)
    BY <1>6, PoolAssumption DEF TaskBegin, TypeOK
  <2> QED
    BY <1>6, <2>1 DEF TaskBegin, TypeOK
<1>7. CASE TaskEnd(w)
  <2>1. active' \in 0..(Word - 1)
    BY <1>7, PoolAssumption DEF TaskEnd, TypeOK
  <2> QED
    BY <1>7, <2>1 DEF TaskEnd, TypeOK
<1>8. CASE WorkerExit(w)
  BY <1>8 DEF WorkerExit, TypeOK
<1> QED
  BY <1>1, <1>2, <1>3, <1>4, <1>5, <1>6, <1>7, <1>8 DEF Worker

\* Every step of shutdown() preserves the types.
LEMMA TypeStop ==
  ASSUME TypeOK, StopBegin \/ StopNext \/ StopJoin
  PROVE  TypeOK'
<1> USE DEF condVars, histVars
<1>1. CASE StopBegin
  BY <1>1 DEF StopBegin, TypeOK, PushedTasks
<1>2. CASE StopNext
  <2>1. stopAt' \in Workers
    BY <1>2, PoolAssumption DEF StopNext, TypeOK, Workers
  <2> QED
    BY <1>2, <2>1 DEF StopNext, TypeOK, PushStates
<1>3. CASE StopJoin
  <2>1. stopAt' \in Workers
    BY <1>3, PoolAssumption DEF StopJoin, TypeOK, Workers
  <2> QED
    BY <1>3, <2>1 DEF StopJoin, TypeOK
<1> QED
  BY <1>1, <1>2, <1>3

\* Every step, stuttering included, preserves the types.
LEMMA TypeNext == TypeOK /\ [Next]_vars => TypeOK'
<1>1. ASSUME TypeOK, UNCHANGED vars PROVE TypeOK'
  BY <1>1 DEF vars, TypeOK
<1> QED
  BY <1>1, TypePush, TypeWorker, TypeStop DEF Next

\* Every reachable state of the pool is well typed: no counter leaves its word
\* and shutdown() never indexes a worker that does not exist.
THEOREM TypeCorrect == Spec => []TypeOK
  BY TypeInit, TypeNext, PTL DEF Spec

-----------------------------------------------------------------------------
(* The wakeups of condition_t                                              *)

WakeInv == WakeAccounting /\ NoStrandedTask

\* Nobody waits and nothing is queued at the start.
LEMMA WakeInit == Init => WakeInv
<1> SUFFICES ASSUME Init PROVE WakeInv
  OBVIOUS
<1>1. Sleepers = {} /\ Releasing = {} /\ Len(queue) = 0
  BY DEF Init, Sleepers, Releasing
<1>2. Cardinality(Sleepers) = 0 /\ Cardinality(Releasing) = 0
  BY <1>1, FS_EmptySet
<1> QED
  BY <1>1, <1>2 DEF Init, WakeInv, WakeAccounting, NoStrandedTask

\* A step that moves no process and touches none of the counters.
LEMMA WakeUnchanged ==
  ASSUME WakeInv, UNCHANGED <<queue, waitCount, sem, pushPc, pc>>
  PROVE  WakeInv'
  BY DEF WakeInv, WakeAccounting, NoStrandedTask, Sleepers, Seekers, Owing, Releasing

\* push() and clear().
LEMMA WakePush ==
  ASSUME TypeOK, WakeInv, (\E p \in Pushers : Push(p)) \/ Clear
  PROVE  WakeInv'
<1> DEFINE S == Cardinality(Sleepers)
           K == Cardinality(Seekers)
           O == Cardinality(Owing)
           R == Cardinality(Releasing)
<1>0. S \in Nat /\ K \in Nat /\ O \in Nat /\ R \in Nat /\ sem \in Nat
      /\ waitCount \in Int /\ Len(queue) \in Nat
  BY CountsNat DEF TypeOK
<1>1. ASSUME UNCHANGED pc
      PROVE  S' = S /\ K' = K
  BY <1>1 DEF Sleepers, Seekers
<1>2. ASSUME UNCHANGED pushPc
      PROVE  O' = O /\ R' = R
  BY <1>2 DEF Owing, Releasing
<1>3. ASSUME NEW p \in Pushers, PushBack(p) PROVE WakeInv'
  <2>1. O' = O + 1 /\ R' = R /\ S' = S /\ K' = K
    BY <1>0, <1>1, <1>3, PusherMove DEF PushBack, Shifts, PushStates
  <2>2. Len(queue)' = Len(queue) + 1 /\ waitCount' = waitCount /\ sem' = sem
    BY <1>3, AppendProperties DEF PushBack, TypeOK, condVars
  <2> QED
    BY <1>0, <2>1, <2>2 DEF WakeInv, WakeAccounting, NoStrandedTask
<1>4. ASSUME NEW p \in Pushers, SignalCheck(p), waitCount # 0 PROVE WakeInv'
  <2>1. O' = O /\ R' = R /\ S' = S /\ K' = K
    BY <1>0, <1>1, <1>4, PusherMove DEF SignalCheck, Shifts, PushStates
  <2>2. Len(queue)' = Len(queue) /\ waitCount' = waitCount /\ sem' = sem
    BY <1>4 DEF SignalCheck, condVars
  <2> QED
    BY <1>0, <2>1, <2>2 DEF WakeInv, WakeAccounting, NoStrandedTask
<1>5. ASSUME NEW p \in Pushers, SignalCheck(p), waitCount = 0 PROVE WakeInv'
  <2>1. O' = O - 1 /\ R' = R /\ S' = S /\ K' = K
    BY <1>0, <1>1, <1>5, PusherMove DEF SignalCheck, PushDone, Shifts, PushStates
  <2>2. Len(queue)' = Len(queue) /\ waitCount' = waitCount /\ sem' = sem
    BY <1>5 DEF SignalCheck, condVars
  <2>3. S <= sem
    BY <1>0, <1>5 DEF WakeInv, WakeAccounting
  <2> QED
    BY <1>0, <2>1, <2>2, <2>3 DEF WakeInv, WakeAccounting, NoStrandedTask
<1>6. ASSUME NEW p \in Pushers, SignalRelease(p) PROVE WakeInv'
  <2>1. O' = O - 1 /\ R' = R + 1 /\ S' = S /\ K' = K
    BY <1>0, <1>1, <1>6, PusherMove DEF SignalRelease, Shifts, PushStates
  <2>2. Len(queue)' = Len(queue) /\ waitCount' = waitCount /\ sem' = sem + 1
    BY <1>6 DEF SignalRelease
  <2> QED
    BY <1>0, <2>1, <2>2 DEF WakeInv, WakeAccounting, NoStrandedTask
<1>7. ASSUME NEW p \in Pushers, SignalDecrement(p) PROVE WakeInv'
  <2>1. O' = O /\ R' = R - 1 /\ S' = S /\ K' = K
    BY <1>0, <1>1, <1>7, PusherMove DEF SignalDecrement, PushDone, Shifts, PushStates
  <2>2. Len(queue)' = Len(queue) /\ waitCount' = waitCount - 1 /\ sem' = sem
    BY <1>7 DEF SignalDecrement
  <2> QED
    BY <1>0, <2>1, <2>2 DEF WakeInv, WakeAccounting, NoStrandedTask
<1>8. CASE Clear
  <2>1. O' = O /\ R' = R /\ S' = S /\ K' = K
    BY <1>1, <1>2, <1>8 DEF Clear
  <2>2. Len(queue)' = 0 /\ waitCount' = waitCount /\ sem' = sem
    BY <1>8 DEF Clear, condVars
  <2> QED
    BY <1>0, <2>1, <2>2 DEF WakeInv, WakeAccounting, NoStrandedTask
<1> QED
  BY <1>3, <1>4, <1>5, <1>6, <1>7, <1>8 DEF Push

\* exceute_task().
LEMMA WakeWorker ==
  ASSUME TypeOK, WakeInv, NEW w \in Workers, Worker(w)
  PROVE  WakeInv'
<1> DEFINE S == Cardinality(Sleepers)
           K == Cardinality(Seekers)
           O == Cardinality(Owing)
           R == Cardinality(Releasing)
<1> USE DEF WorkerStates, Shifts
<1>0. S \in Nat /\ K \in Nat /\ O \in Nat /\ R \in Nat /\ sem \in Nat
      /\ waitCount \in Int /\ Len(queue) \in Nat
  BY CountsNat DEF TypeOK
<1>1. O' = O /\ R' = R
  BY DEF Worker, PopLock, PopTake, PopWait, PopSleep, PopWake, TaskBegin, TaskEnd,
         WorkerExit, Owing, Releasing
<1>2. CASE PopLock(w) \/ PopSleep(w) \/ TaskBegin(w) \/ WorkerExit(w)
  <2>1. S' = S /\ K' = K
    BY <1>0, <1>2, WorkerMove DEF PopLock, PopSleep, TaskBegin, WorkerExit
  <2>2. Len(queue)' = Len(queue) /\ waitCount' = waitCount /\ sem' = sem
    BY <1>2 DEF PopLock, PopSleep, TaskBegin, WorkerExit, condVars
  <2> QED
    BY <1>0, <1>1, <2>1, <2>2 DEF WakeInv, WakeAccounting, NoStrandedTask
<1>3. CASE PopTake(w)
  <2>1. S' = S /\ K' = K - 1
    BY <1>0, <1>3, WorkerMove DEF PopTake
  <2>2. Len(queue) > 0
    BY <1>3 DEF PopTake, TypeOK
  <2>3. Len(queue)' = Len(queue) - 1 /\ waitCount' = waitCount /\ sem' = sem
    BY <1>3, <2>2, HeadTailProperties DEF PopTake, TypeOK, condVars
  <2> QED
    BY <1>0, <1>1, <2>1, <2>3 DEF WakeInv, WakeAccounting, NoStrandedTask
<1>4. CASE PopWait(w)
  <2>1. S' = S + 1 /\ K' = K - 1
    BY <1>0, <1>4, WorkerMove DEF PopWait
  <2>2. Len(queue)' = 0 /\ waitCount' = waitCount + 1 /\ sem' = sem
    BY <1>4 DEF PopWait
  <2>3. K' \in Nat
    BY FiniteProcesses, FS_Subset, FS_CardinalityType DEF Seekers
  <2> QED
    BY <1>0, <1>1, <2>1, <2>2, <2>3 DEF WakeInv, WakeAccounting, NoStrandedTask
<1>5. CASE PopWake(w)
  <2>1. S' = S - 1 /\ K' = K + 1
    BY <1>0, <1>5, WorkerMove DEF PopWake
  <2>2. Len(queue)' = Len(queue) /\ waitCount' = waitCount /\ sem' = sem - 1
    BY <1>5 DEF PopWake
  <2> QED
    BY <1>0, <1>1, <2>1, <2>2 DEF WakeInv, WakeAccounting, NoStrandedTask
<1>6. CASE TaskEnd(w)
  <2>1. S' = S /\ K' = K + 1
    BY <1>0, <1>6, WorkerMove DEF TaskEnd
  <2>2. Len(queue)' = Len(queue) /\ waitCount' = waitCount /\ sem' = sem
    BY <1>6 DEF TaskEnd, condVars
  <2> QED
    BY <1>0, <1>1, <2>1, <2>2 DEF WakeInv, WakeAccounting, NoStrandedTask
<1> QED
  BY <1>2, <1>3, <1>4, <1>5, <1>6 DEF Worker

\* shutdown(): only the program counter of its own push() calls moves.
LEMMA WakeStop ==
  ASSUME TypeOK, WakeInv, StopBegin \/ StopNext \/ StopJoin
  PROVE  WakeInv'
<1>1. CASE StopBegin \/ StopJoin
  BY <1>1, WakeUnchanged DEF StopBegin, StopJoin, condVars
<1>2. CASE StopNext
  <2>1. /\ Cardinality(Owing)' = Cardinality(Owing)
        /\ Cardinality(Releasing)' = Cardinality(Releasing)
    BY <1>2, CountsNat, PusherMove DEF StopNext, Shifts, PushStates, Pushers
  <2>2. UNCHANGED <<queue, waitCount, sem, Sleepers, Seekers>>
    BY <1>2 DEF StopNext, condVars, Sleepers, Seekers
  <2> QED
    BY <2>1, <2>2 DEF WakeInv, WakeAccounting, NoStrandedTask
<1> QED
  BY <1>1, <1>2

\* Every step preserves the accounting.
LEMMA WakeNext == TypeOK /\ WakeInv /\ [Next]_vars => WakeInv'
<1>1. ASSUME WakeInv, UNCHANGED vars PROVE WakeInv'
  BY <1>1, WakeUnchanged DEF vars
<1> QED
  BY <1>1, WakePush, WakeWorker, WakeStop DEF Next

\* waitCount_ and the semaphore of condition_t account for the waiting workers
\* in every reachable state, although signal() runs outside the mutex.
THEOREM WakeupsAccounted == Spec => []WakeAccounting
<1>1. TypeOK /\ WakeInv /\ [Next]_vars => (TypeOK /\ WakeInv)'
  BY TypeNext, WakeNext
<1>2. WakeInv => WakeAccounting
  BY DEF WakeInv
<1> QED
  BY TypeInit, WakeInit, <1>1, <1>2, PTL DEF Spec

\* No wakeup is lost: an item is never left in the queue of scheduler.hpp with
\* nobody coming for it while a worker sleeps without a token.
THEOREM NoTaskStranded == Spec => []NoStrandedTask
<1>1. TypeOK /\ WakeInv /\ [Next]_vars => (TypeOK /\ WakeInv)'
  BY TypeNext, WakeNext
<1>2. WakeInv => NoStrandedTask
  BY DEF WakeInv
<1> QED
  BY TypeInit, WakeInit, <1>1, <1>2, PTL DEF Spec

-----------------------------------------------------------------------------
(* shutdown() drains the queue                                             *)

Queued(t) == \E i \in 1..Len(queue) : queue[i] = t
Holds(w, t) == pc[w] \in {"got", "run"} /\ task[w] = t

\* Worker w has got its empty task.
Ended(w) == pc[w] = "exited" \/ (pc[w] = "got" /\ task[w] = Stopper)

\* A task that was pushed is somewhere.
TaskSomewhere ==
  \A t \in Tasks : pushPc[t] # "idle" =>
    Queued(t) \/ (\E w \in Workers : Holds(w, t)) \/ t \in finished \cup dropped

\* No empty task is ahead of a task pushed before shutdown() began, and no
\* worker ends while such a task is queued.
EmptyBehindEarly ==
  \A j \in 1..Len(queue) : queue[j] \in early =>
    /\ \A i \in 1..Len(queue) : i < j => queue[i] # Stopper
    /\ \A w \in Workers : ~Ended(w)

EarlyPushed == \A t \in early : t \in Tasks /\ pushPc[t] # "idle"

\* Before shutdown() nothing of it is to be seen.
NotBegun ==
  /\ stopPc = "running" => early = {} /\ ~Queued(Stopper) /\ \A w \in Workers : ~Ended(w)
  /\ stopPc # "pushing" => pushPc[Stopper] = "idle"

\* shutdown() has joined the workers it has passed, and returns after the last.
Joined ==
  /\ stopPc = "joining" => \A w \in Workers : w < stopAt => pc[w] = "exited"
  /\ stopPc = "down" => \A w \in Workers : pc[w] = "exited"

DrainInv == TypeOK /\ TaskSomewhere /\ EmptyBehindEarly /\ EarlyPushed /\ NotBegun /\ Joined

\* Nothing is queued and no worker has ended at the start.
LEMMA DrainInit == Init => DrainInv
<1> SUFFICES ASSUME Init PROVE DrainInv
  OBVIOUS
<1>1. TypeOK
  BY TypeInit
<1>2. TaskSomewhere /\ EmptyBehindEarly /\ EarlyPushed /\ NotBegun /\ Joined
  BY DEF Init, TaskSomewhere, EmptyBehindEarly, EarlyPushed, NotBegun, Joined,
         Queued, Ended, Pushers
<1> QED
  BY <1>1, <1>2 DEF DrainInv

\* push() and clear().
LEMMA DrainPush ==
  ASSUME DrainInv, (\E p \in Pushers : Push(p)) \/ Clear
  PROVE  DrainInv'
<1>0. TypeOK'
  BY TypePush DEF DrainInv
<1>1. ASSUME NEW p \in Pushers, PushBack(p) PROVE DrainInv'
  <2>1. /\ Len(queue') = Len(queue) + 1
        /\ \A i \in 1..Len(queue) : queue'[i] = queue[i]
        /\ queue'[Len(queue) + 1] = p
        /\ Len(queue) \in Nat
    BY <1>1, AppendProperties DEF PushBack, DrainInv, TypeOK
  <2>2. /\ UNCHANGED <<pc, task, early, finished, dropped, stopPc, stopAt>>
        /\ pushPc[p] = "idle" /\ (p = Stopper => stopPc = "pushing")
        /\ \A q \in Pushers : pushPc'[q] = IF q = p THEN "signal" ELSE pushPc[q]
    BY <1>1 DEF PushBack, stopVars, histVars, DrainInv, TypeOK
  <2>3. Stopper \notin Tasks /\ Tasks \subseteq Pushers /\ Stopper \in Pushers
    BY PoolAssumption DEF Pushers
  <2>4. \A t \in Pushers : Queued(t)' <=> Queued(t) \/ t = p
    BY <2>1 DEF Queued
  <2>5. TaskSomewhere'
    BY <2>2, <2>3, <2>4 DEF DrainInv, TaskSomewhere, Holds
  <2>6. p \notin early
    BY <2>2 DEF DrainInv, EarlyPushed
  <2>7. EmptyBehindEarly'
    BY <2>1, <2>2, <2>6 DEF DrainInv, EmptyBehindEarly, Ended
  <2>8. EarlyPushed'
    BY <2>2, <2>3 DEF DrainInv, EarlyPushed
  <2>9. NotBegun'
    BY <2>2, <2>3, <2>4 DEF DrainInv, NotBegun, Ended
  <2>10. Joined'
    BY <2>2 DEF DrainInv, Joined
  <2> QED
    BY <1>0, <2>5, <2>7, <2>8, <2>9, <2>10 DEF DrainInv
<1>2. ASSUME NEW p \in Pushers, SignalCheck(p) \/ SignalRelease(p) \/ SignalDecrement(p)
      PROVE  DrainInv'
  <2>1. UNCHANGED <<queue, pc, task, early, finished, dropped, stopPc, stopAt>>
    BY <1>2 DEF SignalCheck, SignalRelease, SignalDecrement, stopVars, histVars
  <2>2. \A q \in Pushers : pushPc'[q] = "idle" <=> pushPc[q] = "idle"
    BY <1>2 DEF SignalCheck, SignalRelease, SignalDecrement, PushDone, DrainInv, TypeOK
  <2>3. Tasks \subseteq Pushers /\ Stopper \in Pushers
    BY DEF Pushers
  <2>4. TaskSomewhere' /\ EmptyBehindEarly' /\ EarlyPushed'
    BY <2>1, <2>2, <2>3 DEF DrainInv, TaskSomewhere, EmptyBehindEarly, EarlyPushed,
                            Queued, Holds, Ended
  <2>5. NotBegun' /\ Joined'
    BY <2>1, <2>2, <2>3 DEF DrainInv, NotBegun, Joined, Queued, Ended
  <2> QED
    BY <1>0, <2>4, <2>5 DEF DrainInv
<1>3. CASE Clear
  <2>1. /\ UNCHANGED <<pushPc, pc, task, early, finished, stopPc, stopAt>>
        /\ queue' = <<>> /\ dropped' = dropped \cup Range(queue)
        /\ queue \in Seq(Pushers)
    BY <1>3 DEF Clear, stopVars, DrainInv, TypeOK
  <2>2. \A t : Queued(t) => t \in Range(queue)
    BY <2>1 DEF Queued, Range
  <2>3. TaskSomewhere'
    BY <2>1, <2>2 DEF DrainInv, TaskSomewhere, Holds
  <2>4. EmptyBehindEarly' /\ EarlyPushed' /\ NotBegun' /\ Joined'
    BY <2>1 DEF DrainInv, EmptyBehindEarly, EarlyPushed, NotBegun, Joined, Queued, Ended
  <2> QED
    BY <1>0, <2>3, <2>4 DEF DrainInv
<1> QED
  BY <1>1, <1>2, <1>3 DEF Push

\* A step of worker w that leaves the queue, and what w holds, alone.
LEMMA DrainMove ==
  ASSUME DrainInv, NEW w \in Workers, NEW v \in WorkerStates, TypeOK',
         UNCHANGED <<queue, pushPc, task, stopPc, stopAt, early, finished, dropped>>,
         pc' = [pc EXCEPT ![w] = v],
         pc[w] # "exited",
         v = "exited" => pc[w] = "got" /\ task[w] = Stopper,
         pc[w] \in {"got", "run"} <=> v \in {"got", "run", "exited"},
         pc[w] = "got" /\ task[w] = Stopper => v = "exited",
         v # "got"
  PROVE  DrainInv'
<1>1. \A u \in Workers : pc'[u] = IF u = w THEN v ELSE pc[u]
  BY DEF DrainInv, TypeOK
<1>2. \A u \in Workers : (Ended(u)' <=> Ended(u)) /\ (pc[u] = "exited" => pc'[u] = "exited")
  BY <1>1 DEF Ended
<1>3. \A u \in Workers, t \in Tasks : Holds(u, t) => Holds(u, t)'
  BY <1>1, PoolAssumption DEF Holds
<1>4. TaskSomewhere'
  BY <1>3 DEF DrainInv, TaskSomewhere, Queued
<1>5. EmptyBehindEarly' /\ EarlyPushed' /\ NotBegun' /\ Joined'
  BY <1>2 DEF DrainInv, EmptyBehindEarly, EarlyPushed, NotBegun, Joined, Queued
<1> QED
  BY <1>4, <1>5 DEF DrainInv

\* exceute_task().
LEMMA DrainWorker ==
  ASSUME DrainInv, NEW w \in Workers, Worker(w)
  PROVE  DrainInv'
<1>0. TypeOK'
  BY TypeWorker DEF DrainInv
<1>1. CASE PopLock(w)
  BY <1>0, <1>1, DrainMove DEF PopLock, stopVars, histVars, WorkerStates
<1>2. CASE PopWait(w)
  BY <1>0, <1>2, DrainMove DEF PopWait, stopVars, histVars, WorkerStates
<1>3. CASE PopSleep(w)
  BY <1>0, <1>3, DrainMove DEF PopSleep, stopVars, histVars, WorkerStates
<1>4. CASE PopWake(w)
  BY <1>0, <1>4, DrainMove DEF PopWake, stopVars, histVars, WorkerStates
<1>5. CASE TaskBegin(w)
  BY <1>0, <1>5, DrainMove DEF TaskBegin, stopVars, histVars, WorkerStates
<1>6. CASE WorkerExit(w)
  BY <1>0, <1>6, DrainMove DEF WorkerExit, stopVars, histVars, WorkerStates
<1>7. CASE TaskEnd(w)
  <2>1. /\ UNCHANGED <<queue, pushPc, task, early, stopPc, stopAt, dropped>>
        /\ finished' = finished \cup {task[w]} /\ pc[w] = "run"
        /\ \A u \in Workers : pc'[u] = IF u = w THEN "lock" ELSE pc[u]
    BY <1>7 DEF TaskEnd, stopVars, DrainInv, TypeOK
  <2>2. TaskSomewhere'
    BY <2>1 DEF DrainInv, TaskSomewhere, Queued, Holds
  <2>3. EmptyBehindEarly' /\ EarlyPushed' /\ NotBegun' /\ Joined'
    BY <2>1 DEF DrainInv, EmptyBehindEarly, EarlyPushed, NotBegun, Joined, Queued, Ended
  <2> QED
    BY <1>0, <2>2, <2>3 DEF DrainInv
<1>8. CASE PopTake(w)
  <2>1. /\ Len(queue) \in Nat /\ Len(queue) > 0
        /\ Len(queue') = Len(queue) - 1
        /\ \A i \in 1..(Len(queue) - 1) : queue'[i] = queue[i + 1]
        /\ task'[w] = queue[1] /\ queue[1] \in Pushers
    BY <1>8, HeadTailProperties DEF PopTake, DrainInv, TypeOK
  <2>2. /\ UNCHANGED <<pushPc, early, stopPc, stopAt, finished, dropped>>
        /\ pc[w] = "check"
        /\ \A u \in Workers : /\ pc'[u] = IF u = w THEN "got" ELSE pc[u]
                              /\ u # w => task'[u] = task[u]
    BY <1>8 DEF PopTake, stopVars, histVars, DrainInv, TypeOK
  <2>3. \A t : Queued(t)' => Queued(t)
    BY <2>1 DEF Queued
  <2>4. \A t : Queued(t) => Queued(t)' \/ t = queue[1]
    <3> SUFFICES ASSUME NEW i \in 1..Len(queue), i # 1
                 PROVE  \E j \in 1..Len(queue') : queue'[j] = queue[i]
      BY DEF Queued
    <3>1. i - 1 \in 1..Len(queue') /\ queue'[i - 1] = queue[i]
      BY <2>1
    <3> QED
      BY <3>1
  <2>5. \A u \in Workers, t \in Tasks : Holds(u, t) => Holds(u, t)'
    BY <2>2 DEF Holds
  <2>6. \A t \in Tasks : t = queue[1] => Holds(w, t)'
    BY <2>1, <2>2 DEF Holds
  <2>7. TaskSomewhere'
    BY <2>2, <2>4, <2>5, <2>6 DEF DrainInv, TaskSomewhere
  <2>8. \A u \in Workers : Ended(u)' <=> Ended(u) \/ (u = w /\ queue[1] = Stopper)
    BY <2>1, <2>2 DEF Ended
  <2>9. EmptyBehindEarly'
    <3> SUFFICES ASSUME NEW j \in 1..Len(queue'), queue'[j] \in early'
                 PROVE  /\ \A i \in 1..Len(queue') : i < j => queue'[i] # Stopper
                        /\ \A u \in Workers : ~Ended(u)'
      BY DEF EmptyBehindEarly
    <3>1. j + 1 \in 1..Len(queue) /\ queue[j + 1] \in early /\ 1 \in 1..Len(queue) /\ 1 < j + 1
      BY <2>1, <2>2
    <3>2. /\ \A i \in 1..Len(queue) : i < j + 1 => queue[i] # Stopper
          /\ \A u \in Workers : ~Ended(u)
      BY <3>1 DEF DrainInv, EmptyBehindEarly
    <3>3. \A i \in 1..Len(queue') : i < j => queue'[i] # Stopper
      BY <2>1, <3>2
    <3> QED
      BY <2>8, <3>1, <3>2, <3>3
  <2>10. NotBegun'
    <3>1. Queued(queue[1])
      BY <2>1 DEF Queued
    <3> QED
      BY <2>2, <2>3, <2>8, <3>1 DEF DrainInv, NotBegun
  <2>11. EarlyPushed' /\ Joined'
    BY <2>2 DEF DrainInv, EarlyPushed, Joined
  <2> QED
    BY <1>0, <2>7, <2>9, <2>10, <2>11 DEF DrainInv
<1> QED
  BY <1>1, <1>2, <1>3, <1>4, <1>5, <1>6, <1>7, <1>8 DEF Worker

\* shutdown().
LEMMA DrainStop ==
  ASSUME DrainInv, StopBegin \/ StopNext \/ StopJoin
  PROVE  DrainInv'
<1>0. TypeOK' /\ Stopper \notin Tasks /\ Tasks \subseteq Pushers /\ Stopper \in Pushers
  BY TypeStop, PoolAssumption DEF DrainInv, Pushers
<1>1. CASE StopBegin
  <2>1. /\ UNCHANGED <<queue, pushPc, pc, task, stopAt, finished, dropped>>
        /\ stopPc = "running" /\ stopPc' = "pushing" /\ early' = PushedTasks
    BY <1>1 DEF StopBegin, histVars
  <2>2. TaskSomewhere'
    BY <2>1 DEF DrainInv, TaskSomewhere, Queued, Holds
  <2>3. EmptyBehindEarly' /\ EarlyPushed'
    BY <2>1 DEF DrainInv, EmptyBehindEarly, EarlyPushed, NotBegun, Queued, Ended, PushedTasks
  <2>4. NotBegun' /\ Joined'
    BY <2>1 DEF DrainInv, NotBegun, Joined
  <2> QED
    BY <1>0, <2>2, <2>3, <2>4 DEF DrainInv
<1>2. CASE StopNext
  <2>1. /\ UNCHANGED <<queue, pc, task, early, finished, dropped>>
        /\ stopPc = "pushing" /\ stopPc' \in {"pushing", "joining"}
        /\ stopPc' = "joining" => stopAt' = 1
        /\ \A q \in Pushers : pushPc'[q] = IF q = Stopper THEN "idle" ELSE pushPc[q]
    BY <1>2 DEF StopNext, histVars, DrainInv, NotBegun, TypeOK
  <2>2. TaskSomewhere' /\ EmptyBehindEarly' /\ EarlyPushed'
    BY <1>0, <2>1 DEF DrainInv, TaskSomewhere, EmptyBehindEarly, EarlyPushed, Queued, Holds, Ended
  <2>3. NotBegun' /\ Joined'
    BY <1>0, <2>1 DEF NotBegun, Joined, Workers
  <2> QED
    BY <1>0, <2>2, <2>3 DEF DrainInv
<1>3. CASE StopJoin
  <2>1. UNCHANGED <<queue, pushPc, pc, task, early, finished, dropped>>
    BY <1>3 DEF StopJoin, histVars
  <2>2. TaskSomewhere' /\ EmptyBehindEarly' /\ EarlyPushed'
    BY <2>1 DEF DrainInv, TaskSomewhere, EmptyBehindEarly, EarlyPushed, Queued, Holds, Ended
  <2>3. NotBegun'
    BY <1>3, <2>1 DEF StopJoin, DrainInv, NotBegun
  <2>4. Joined'
    BY <1>3, <2>1, PoolAssumption DEF StopJoin, DrainInv, Joined, TypeOK, Workers
  <2> QED
    BY <1>0, <2>2, <2>3, <2>4 DEF DrainInv
<1> QED
  BY <1>1, <1>2, <1>3

\* Every step preserves the invariant.
LEMMA DrainNext == DrainInv /\ [Next]_vars => DrainInv'
<1>1. ASSUME DrainInv, UNCHANGED vars PROVE DrainInv'
  <2>1. TypeOK'
    BY <1>1, TypeNext DEF DrainInv
  <2>2. TaskSomewhere' /\ EmptyBehindEarly' /\ EarlyPushed' /\ NotBegun' /\ Joined'
    BY <1>1 DEF vars, DrainInv, TaskSomewhere, EmptyBehindEarly, EarlyPushed, NotBegun,
                Joined, Queued, Holds, Ended
  <2> QED
    BY <2>1, <2>2 DEF DrainInv
<1> QED
  BY <1>1, DrainPush, DrainWorker, DrainStop DEF Next

\* When shutdown() returns, every worker has ended and every task pushed before
\* it was called has been executed or cleared: the empty tasks of terminate()
\* queue up behind them.
THEOREM ShutdownComplete == Spec => []ShutdownDrains
<1>1. DrainInv => ShutdownDrains
  <2> SUFFICES ASSUME DrainInv, stopPc = "down" PROVE
        (\A t \in early : t \in finished \cup dropped) /\ \A w \in Workers : pc[w] = "exited"
    BY DEF ShutdownDrains
  <2>1. \A w \in Workers : pc[w] = "exited"
    BY DEF DrainInv, Joined
  <2>2. 1 \in Workers
    BY PoolAssumption DEF Workers
  <2>3. \A t \in early : ~Queued(t) /\ \A w \in Workers : ~Holds(w, t)
    BY <2>1, <2>2 DEF DrainInv, EmptyBehindEarly, Queued, Ended, Holds
  <2> QED
    BY <2>1, <2>3 DEF DrainInv, TaskSomewhere, EarlyPushed
<1> QED
  BY DrainInit, DrainNext, <1>1, PTL DEF Spec

-----------------------------------------------------------------------------
(* A task is in one place                                                  *)

\* A task stands once in the queue, is held by one worker, never both, and
\* neither once it was executed or cleared.
QueuedOnce ==
  \A i, j \in 1..Len(queue) : queue[i] \in Tasks /\ queue[i] = queue[j] => i = j
HeldOnce == \A u, w \in Workers, t \in Tasks : Holds(u, t) /\ Holds(w, t) => u = w
Held(t) == \E w \in Workers : Holds(w, t)
NotBoth == \A t \in Tasks : ~(Queued(t) /\ Held(t))
NotOver ==
  \A t \in Tasks : Queued(t) \/ Held(t) => pushPc[t] # "idle" /\ t \notin finished \cup dropped

\* Only tasks that were pushed are executed or cleared, and not both.
OverOnce ==
  /\ finished \cap dropped = {}
  /\ \A t \in finished \cup dropped : t \in Tasks /\ pushPc[t] # "idle"

\* `if( task )` keeps the empty task from being run.
RunsTask == \A w \in Workers : pc[w] = "run" => task[w] \in Tasks

OnceInv == QueuedOnce /\ HeldOnce /\ NotBoth /\ NotOver /\ OverOnce /\ RunsTask

\* Nothing was pushed at the start.
LEMMA OnceInit == Init => OnceInv
  BY DEF Init, OnceInv, QueuedOnce, HeldOnce, NotBoth, NotOver, OverOnce, RunsTask,
         Queued, Held, Holds

\* Steps that move neither a task nor the record of what became of it.
LEMMA OnceUnchanged ==
  ASSUME OnceInv, UNCHANGED <<queue, task, finished, dropped>>,
         \A t \in Tasks : pushPc[t] # "idle" => pushPc'[t] # "idle",
         \A u \in Workers : pc'[u] \in {"got", "run"} => pc[u] \in {"got", "run"},
         \A u \in Workers : pc'[u] = "run" => task[u] \in Tasks
  PROVE  OnceInv'
<1>1. \A u \in Workers, t \in Tasks : Holds(u, t)' => Holds(u, t)
  BY DEF Holds
<1>2. \A t \in Tasks : (Held(t)' => Held(t)) /\ (Queued(t)' <=> Queued(t))
  BY <1>1 DEF Held, Queued
<1>3. QueuedOnce' /\ HeldOnce' /\ NotBoth' /\ NotOver' /\ OverOnce' /\ RunsTask'
  BY <1>1, <1>2 DEF OnceInv, QueuedOnce, HeldOnce, NotBoth, NotOver, OverOnce, RunsTask
<1> QED
  BY <1>3 DEF OnceInv

\* push() and clear().
LEMMA OncePush ==
  ASSUME DrainInv, OnceInv, (\E p \in Pushers : Push(p)) \/ Clear
  PROVE  OnceInv'
<1>0. Tasks \subseteq Pushers /\ Stopper \notin Tasks
  BY PoolAssumption DEF Pushers
<1>1. ASSUME NEW p \in Pushers, PushBack(p) PROVE OnceInv'
  <2>1. /\ Len(queue') = Len(queue) + 1
        /\ \A i \in 1..Len(queue) : queue'[i] = queue[i]
        /\ queue'[Len(queue) + 1] = p
        /\ Len(queue) \in Nat
    BY <1>1, AppendProperties DEF PushBack, DrainInv, TypeOK
  <2>2. /\ UNCHANGED <<pc, task, finished, dropped>> /\ pushPc[p] = "idle"
        /\ \A q \in Pushers : pushPc'[q] = IF q = p THEN "signal" ELSE pushPc[q]
    BY <1>1 DEF PushBack, histVars, DrainInv, TypeOK
  <2>3. \A t \in Tasks : (Queued(t)' <=> Queued(t) \/ t = p) /\ (Held(t)' <=> Held(t))
    BY <2>1, <2>2 DEF Queued, Held, Holds
  <2>4. p \in Tasks => ~Queued(p) /\ ~Held(p) /\ p \notin finished \cup dropped
    BY <2>2 DEF OnceInv, NotOver, OverOnce
  <2>5. QueuedOnce'
    <3> SUFFICES ASSUME NEW i \in 1..Len(queue'), NEW j \in 1..Len(queue'),
                        queue'[i] \in Tasks, queue'[i] = queue'[j], i # j
                 PROVE  FALSE
      BY DEF QueuedOnce
    <3>1. CASE i \in 1..Len(queue) /\ j \in 1..Len(queue)
      BY <2>1, <3>1 DEF OnceInv, QueuedOnce
    <3>2. CASE i = Len(queue) + 1 \/ j = Len(queue) + 1
      BY <2>1, <2>4, <3>2 DEF Queued
    <3> QED
      BY <2>1, <3>1, <3>2
  <2>6. HeldOnce' /\ RunsTask'
    BY <2>2 DEF OnceInv, HeldOnce, RunsTask, Holds
  <2>7. NotBoth' /\ NotOver' /\ OverOnce'
    BY <1>0, <2>2, <2>3, <2>4 DEF OnceInv, NotBoth, NotOver, OverOnce
  <2> QED
    BY <2>5, <2>6, <2>7 DEF OnceInv
<1>2. ASSUME NEW p \in Pushers, SignalCheck(p) \/ SignalRelease(p) \/ SignalDecrement(p)
      PROVE  OnceInv'
  <2>1. /\ UNCHANGED <<queue, pc, task, finished, dropped>>
        /\ \A t \in Tasks : pushPc[t] # "idle" => pushPc'[t] # "idle"
    BY <1>0, <1>2 DEF SignalCheck, SignalRelease, SignalDecrement, PushDone, histVars, DrainInv, TypeOK
  <2>2. \A u \in Workers : pc'[u] = "run" => task[u] \in Tasks
    BY <2>1 DEF OnceInv, RunsTask
  <2> QED
    BY <2>1, <2>2, OnceUnchanged
<1>3. CASE Clear
  <2>1. /\ UNCHANGED <<pushPc, pc, task, finished>>
        /\ queue' = <<>> /\ dropped' = dropped \cup Range(queue)
        /\ queue \in Seq(Pushers) /\ stopPc = "running"
    BY <1>3 DEF Clear, DrainInv, TypeOK
  <2>2. \A t : t \in Range(queue) <=> Queued(t)
    BY <2>1, LenProperties DEF Queued, Range
  <2>3. \A t \in Range(queue) : t \in Tasks /\ Queued(t)
    <3>1. \A t \in Range(queue) : t \in Pushers
      BY <2>1, LenProperties, ElementOfSeq DEF Range
    <3> QED
      BY <2>1, <2>2, <3>1 DEF DrainInv, NotBegun, Pushers
  <2>4. \A t \in Tasks : ~Queued(t)' /\ (Held(t)' <=> Held(t))
    BY <2>1 DEF Queued, Held, Holds
  <2>5. QueuedOnce' /\ HeldOnce' /\ RunsTask'
    BY <2>1 DEF OnceInv, QueuedOnce, HeldOnce, RunsTask, Holds
  <2>6. NotBoth' /\ NotOver'
    BY <2>1, <2>3, <2>4 DEF OnceInv, NotBoth, NotOver
  <2>7. OverOnce'
    BY <2>1, <2>3 DEF OnceInv, NotOver, OverOnce
  <2> QED
    BY <2>5, <2>6, <2>7 DEF OnceInv
<1> QED
  BY <1>1, <1>2, <1>3 DEF Push

\* exceute_task().
LEMMA OnceWorker ==
  ASSUME DrainInv, OnceInv, NEW w \in Workers, Worker(w)
  PROVE  OnceInv'
<1>0. pc \in [Workers -> WorkerStates] /\ task \in [Workers -> Pushers]
  BY DEF DrainInv, TypeOK
<1>1. CASE PopLock(w) \/ PopWait(w) \/ PopSleep(w) \/ PopWake(w) \/ TaskBegin(w) \/ WorkerExit(w)
  <2>1. UNCHANGED <<queue, task, finished, dropped, pushPc>>
    BY <1>1 DEF PopLock, PopWait, PopSleep, PopWake, TaskBegin, WorkerExit, histVars
  <2>2. \A u \in Workers : pc'[u] \in {"got", "run"} => pc[u] \in {"got", "run"}
    BY <1>0, <1>1 DEF PopLock, PopWait, PopSleep, PopWake, TaskBegin, WorkerExit
  <2>3. \A u \in Workers : pc'[u] = "run" => task[u] \in Tasks
    BY <1>0, <1>1 DEF PopLock, PopWait, PopSleep, PopWake, TaskBegin, WorkerExit,
                      OnceInv, RunsTask, Pushers
  <2> QED
    BY <2>1, <2>2, <2>3, OnceUnchanged
<1>2. CASE TaskEnd(w)
  <2>1. /\ UNCHANGED <<queue, task, dropped, pushPc>>
        /\ finished' = finished \cup {task[w]} /\ pc[w] = "run"
        /\ \A u \in Workers : pc'[u] = IF u = w THEN "lock" ELSE pc[u]
    BY <1>0, <1>2 DEF TaskEnd
  <2>2. task[w] \in Tasks /\ Holds(w, task[w]) /\ Held(task[w])
    BY <2>1 DEF OnceInv, RunsTask, Holds, Held
  <2>3. \A u \in Workers, t \in Tasks : Holds(u, t)' <=> Holds(u, t) /\ u # w
    BY <2>1 DEF Holds
  <2>4. \A t \in Tasks : (Queued(t)' <=> Queued(t)) /\ (Held(t)' => Held(t) /\ t # task[w])
    <3>1. \A t \in Tasks : Held(t)' => t # task[w]
      BY <2>2, <2>3 DEF Held, OnceInv, HeldOnce
    <3> QED
      BY <2>1, <2>3, <3>1 DEF Queued, Held
  <2>5. QueuedOnce' /\ HeldOnce' /\ RunsTask'
    BY <2>1, <2>3 DEF OnceInv, QueuedOnce, HeldOnce, RunsTask
  <2>6. NotBoth' /\ NotOver' /\ OverOnce'
    BY <2>1, <2>2, <2>4 DEF OnceInv, NotBoth, NotOver, OverOnce
  <2> QED
    BY <2>5, <2>6 DEF OnceInv
<1>3. CASE PopTake(w)
  <2>1. /\ Len(queue) \in Nat /\ Len(queue) > 0
        /\ Len(queue') = Len(queue) - 1
        /\ \A i \in 1..(Len(queue) - 1) : queue'[i] = queue[i + 1]
        /\ task'[w] = queue[1] /\ queue[1] \in Pushers
    BY <1>3, HeadTailProperties DEF PopTake, DrainInv, TypeOK
  <2>2. /\ UNCHANGED <<pushPc, finished, dropped>> /\ pc[w] = "check"
        /\ \A u \in Workers : /\ pc'[u] = IF u = w THEN "got" ELSE pc[u]
                              /\ u # w => task'[u] = task[u]
    BY <1>0, <1>3 DEF PopTake, histVars
  <2>3. Queued(queue[1]) /\ \A t : Queued(t)' => Queued(t)
    BY <2>1 DEF Queued
  <2>4. \A t \in Tasks : t = queue[1] => ~Queued(t)'
    <3> SUFFICES ASSUME queue[1] \in Tasks, NEW i \in 1..Len(queue'), queue'[i] = queue[1]
                 PROVE  FALSE
      BY DEF Queued
    <3>1. i + 1 \in 1..Len(queue) /\ queue[i + 1] = queue[1] /\ 1 \in 1..Len(queue) /\ i + 1 # 1
      BY <2>1
    <3> QED
      BY <3>1 DEF OnceInv, QueuedOnce
  <2>5. \A u \in Workers, t \in Tasks :
          Holds(u, t)' <=> (u # w /\ Holds(u, t)) \/ (u = w /\ t = queue[1])
    BY <2>1, <2>2 DEF Holds
  <2>6. queue[1] \in Tasks => ~Held(queue[1])
    BY <2>3 DEF OnceInv, NotBoth
  <2>7. \A t \in Tasks : Held(t)' => Held(t) \/ t = queue[1]
    BY <2>5 DEF Held
  <2>8. QueuedOnce'
    <3> SUFFICES ASSUME NEW i \in 1..Len(queue'), NEW j \in 1..Len(queue'),
                        queue'[i] \in Tasks, queue'[i] = queue'[j]
                 PROVE  i = j
      BY DEF QueuedOnce
    <3>1. /\ i + 1 \in 1..Len(queue) /\ j + 1 \in 1..Len(queue)
          /\ queue[i + 1] = queue'[i] /\ queue[j + 1] = queue'[j]
      BY <2>1
    <3>2. i + 1 = j + 1
      BY <3>1 DEF OnceInv, QueuedOnce
    <3> QED
      BY <2>1, <3>2
  <2>9. HeldOnce' /\ RunsTask'
    BY <2>2, <2>5, <2>6 DEF OnceInv, HeldOnce, RunsTask, Held
  <2>10. NotBoth' /\ NotOver' /\ OverOnce'
    BY <2>2, <2>3, <2>4, <2>7 DEF OnceInv, NotBoth, NotOver, OverOnce
  <2> QED
    BY <2>8, <2>9, <2>10 DEF OnceInv
<1> QED
  BY <1>1, <1>2, <1>3 DEF Worker

\* Every step preserves the invariant; shutdown() touches no task.
LEMMA OnceNext == DrainInv /\ OnceInv /\ [Next]_vars => OnceInv'
<1>1. ASSUME DrainInv, OnceInv, StopBegin \/ StopNext \/ StopJoin \/ UNCHANGED vars PROVE OnceInv'
  <2>1. /\ UNCHANGED <<queue, pc, task, finished, dropped>>
        /\ \A t \in Tasks : pushPc[t] # "idle" => pushPc'[t] # "idle"
    BY <1>1, PoolAssumption DEF StopBegin, StopNext, StopJoin, vars, histVars, DrainInv, TypeOK, Pushers
  <2>2. \A u \in Workers : pc'[u] = "run" => task[u] \in Tasks
    BY <1>1, <2>1 DEF OnceInv, RunsTask
  <2> QED
    BY <1>1, <2>1, <2>2, OnceUnchanged
<1> QED
  BY <1>1, OncePush, OnceWorker DEF Next

\* A set that holds exactly what satisfies a condition met by at most one.
LEMMA AtMostOne ==
  ASSUME NEW S, \A x, y \in S : x = y
  PROVE  Cardinality(S) = IF S = {} THEN 0 ELSE 1
<1>1. CASE S = {}
  BY <1>1, FS_EmptySet
<1>2. CASE S # {}
  <2>1. PICK x \in S : TRUE
    BY <1>2
  <2>2. S = {x}
    BY <2>1
  <2> QED
    BY <1>2, <2>2, FS_Singleton
<1> QED
  BY <1>1, <1>2

\* A task that was pushed is in exactly one place: queued, with one worker,
\* executed or cleared; no interleaving runs it twice or loses it.
THEOREM TaskRunsOnce == Spec => []RunOnce
<1>1. DrainInv /\ OnceInv => RunOnce
  <2> SUFFICES ASSUME DrainInv, OnceInv, NEW t \in Tasks
               PROVE  Copies(t) = IF t \in PushedTasks \ (finished \cup dropped) THEN 1 ELSE 0
    BY DEF RunOnce, OnceInv, OverOnce
  <2> DEFINE Q == {i \in DOMAIN queue : queue[i] = t}
             H == {w \in Workers : pc[w] \in {"got", "run"} /\ task[w] = t}
  <2>1. DOMAIN queue = 1..Len(queue)
    BY LenProperties DEF DrainInv, TypeOK
  <2>2. /\ (Q # {}) <=> Queued(t)
        /\ (H # {}) <=> Held(t)
    BY <2>1 DEF Queued, Held, Holds
  <2>3. Cardinality(Q) = IF Q = {} THEN 0 ELSE 1
    <3>1. \A x, y \in Q : x = y
      BY <2>1 DEF OnceInv, QueuedOnce
    <3> QED
      BY <3>1, AtMostOne
  <2>4. Cardinality(H) = IF H = {} THEN 0 ELSE 1
    <3>1. \A x, y \in H : x = y
      BY DEF OnceInv, HeldOnce, Holds
    <3> QED
      BY <3>1, AtMostOne
  <2>5. t \in PushedTasks \ (finished \cup dropped) => Queued(t) \/ Held(t)
    BY DEF DrainInv, TaskSomewhere, PushedTasks, Held
  <2>6. Queued(t) \/ Held(t) => t \in PushedTasks \ (finished \cup dropped)
    BY DEF OnceInv, NotOver, PushedTasks
  <2>7. ~(Queued(t) /\ Held(t))
    BY DEF OnceInv, NotBoth
  <2>8. Copies(t) = Cardinality(Q) + Cardinality(H)
    BY DEF Copies
  <2> HIDE DEF Q, H
  <2> QED
    BY <2>2, <2>3, <2>4, <2>5, <2>6, <2>7, <2>8
<1> QED
  BY DrainInit, DrainNext, OnceInit, OnceNext, <1>1, PTL DEF Spec
=============================================================================
