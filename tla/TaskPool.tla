------------------------------ MODULE TaskPool ------------------------------
(***************************************************************************)
(* The thread pool `static_fifo_pool` (multi_thread/thread_pool) with the  *)
(* condition variable its scheduler waits on: condition_t<semaphore>       *)
(* (multi_thread/lock.hpp), built from a Win32 semaphore and a counter     *)
(* that signal() reads and decrements without holding the queue's mutex.   *)
(*                                                                         *)
(* Every call of push() is a process: one per task (thread_pool_t::call)   *)
(* and one, repeated, for the empty tasks that terminate() pushes.  The    *)
(* item a process pushes is named like the process.                        *)
(***************************************************************************)
EXTENDS Integers, Sequences, FiniteSets, Functions

CONSTANTS
  Tasks,         \* the tasks handed to call(), each once
  Stopper,       \* the thread in shutdown(); also the empty task it pushes
  NumWorkers,    \* size of work_threads_
  Word           \* values of size_t: active_num_ is counted modulo Word

ASSUME PoolAssumption ==
  /\ IsFiniteSet(Tasks)
  /\ Stopper \notin Tasks
  /\ NumWorkers \in Nat \ {0}
  /\ Word \in Nat /\ Word > NumWorkers

Workers == 1..NumWorkers
Pushers == Tasks \cup {Stopper}
Nobody == 0      \* mutex_ is free

PushStates == {"idle", "signal", "release", "decrement", "pushed", "done"}
WorkerStates ==
  {"lock", "check", "counted", "asleep", "woken", "got", "run", "exited"}

VARIABLES
  queue,         \* queue_ of the fifo scheduler
  mutex,         \* the worker that holds mutex_ across two steps, or Nobody
  waitCount,     \* condition_t::waitCount_
  sem,           \* count of the semaphore object
  pushPc,        \* where each push() call stands
  pc,            \* where each worker stands in exceute_task()
  task,          \* the item a worker popped last
  active,        \* active_num_
  stopPc,        \* where shutdown() stands
  stopAt,        \* its loop index, first pushing, then destroying workers
  early,         \* tasks pushed before shutdown() began (history)
  finished,      \* tasks executed to the end (history)
  dropped        \* tasks removed by clear() (history)

condVars == <<waitCount, sem>>
stopVars == <<stopPc, stopAt, early>>
histVars == <<finished, dropped>>
vars == <<queue, mutex, waitCount, sem, pushPc, pc, task, active, stopPc,
          stopAt, early, finished, dropped>>

\* thread_pool_t(cnt): the queue is empty and every worker is started.
Init ==
  /\ queue = <<>>
  /\ mutex = Nobody
  /\ waitCount = 0
  /\ sem = 0
  /\ pushPc = [p \in Pushers |-> "idle"]
  /\ pc = [w \in Workers |-> "lock"]
  /\ task = [w \in Workers |-> Stopper]
  /\ active = 0
  /\ stopPc = "running"
  /\ stopAt = 1
  /\ early = {}
  /\ finished = {}
  /\ dropped = {}

-----------------------------------------------------------------------------
(* fifo_scheduler_t::push                                                  *)

\* Mutant: the item goes to the front, as in the lifo scheduler.
PushFront(p) ==
  /\ pushPc[p] = "idle"
  /\ p = Stopper => stopPc = "pushing"
  /\ mutex = Nobody
  /\ queue' = <<p>> \o queue
  /\ pushPc' = [pushPc EXCEPT ![p] = "signal"]
  /\ UNCHANGED <<mutex, condVars, pc, task, active, stopVars, histVars>>

\* Lock, push_back, unlock.
PushBack(p) ==
  /\ pushPc[p] = "idle"
  /\ p = Stopper => stopPc = "pushing"
  /\ mutex = Nobody
  /\ queue' = Append(queue, p)
  /\ pushPc' = [pushPc EXCEPT ![p] = "signal"]
  /\ UNCHANGED <<mutex, condVars, pc, task, active, stopVars, histVars>>

\* What a push() call does when it returns.
PushDone(p) == IF p = Stopper THEN "pushed" ELSE "done"

\* Mutant: a single waiter is not counted.
SignalCheckOffByOne(p) ==
  /\ pushPc[p] = "signal"
  /\ pushPc' = [pushPc EXCEPT ![p] =
                  IF waitCount > 1 THEN "release" ELSE PushDone(p)]
  /\ UNCHANGED <<queue, mutex, condVars, pc, task, active, stopVars, histVars>>

\* condition_t::signal, without the mutex: read waitCount_ ...
SignalCheck(p) ==
  /\ pushPc[p] = "signal"
  /\ pushPc' = [pushPc EXCEPT ![p] =
                  IF waitCount # 0 THEN "release" ELSE PushDone(p)]
  /\ UNCHANGED <<queue, mutex, condVars, pc, task, active, stopVars, histVars>>

\* ... ReleaseSemaphore ...
SignalRelease(p) ==
  /\ pushPc[p] = "release"
  /\ sem' = sem + 1
  /\ pushPc' = [pushPc EXCEPT ![p] = "decrement"]
  /\ UNCHANGED <<queue, mutex, waitCount, pc, task, active, stopVars, histVars>>

\* ... InterlockedDecrement.
SignalDecrement(p) ==
  /\ pushPc[p] = "decrement"
  /\ waitCount' = waitCount - 1
  /\ pushPc' = [pushPc EXCEPT ![p] = PushDone(p)]
  /\ UNCHANGED <<queue, mutex, sem, pc, task, active, stopVars, histVars>>

\* thread_pool_t::clear empties the queue under the mutex.  Calling it during
\* shutdown() would remove the empty tasks; callers must not.
Clear ==
  /\ stopPc = "running"
  /\ mutex = Nobody
  /\ dropped' = dropped \cup Range(queue)
  /\ queue' = <<>>
  /\ UNCHANGED <<mutex, condVars, pushPc, pc, task, active, stopVars, finished>>

-----------------------------------------------------------------------------
(* exceute_task() of worker w                                              *)

\* AutoLock in pop(), or the mutex.lock() at the end of semaphore::wait.
PopLock(w) ==
  /\ pc[w] \in {"lock", "woken"}
  /\ mutex = Nobody
  /\ mutex' = w
  /\ pc' = [pc EXCEPT ![w] = "check"]
  /\ UNCHANGED <<queue, condVars, pushPc, task, active, stopVars, histVars>>

\* The queue is not empty: take the front and unlock.
PopTake(w) ==
  /\ pc[w] = "check"
  /\ queue # <<>>
  /\ task' = [task EXCEPT ![w] = Head(queue)]
  /\ queue' = Tail(queue)
  /\ mutex' = Nobody
  /\ pc' = [pc EXCEPT ![w] = "got"]
  /\ UNCHANGED <<condVars, pushPc, active, stopVars, histVars>>

\* Mutant: the waiter is not counted.
PopWaitUncounted(w) ==
  /\ pc[w] = "check"
  /\ queue = <<>>
  /\ pc' = [pc EXCEPT ![w] = "counted"]
  /\ UNCHANGED <<queue, mutex, condVars, pushPc, task, active, stopVars, histVars>>

\* The queue is empty: condition_t::wait counts the waiter ...
PopWait(w) ==
  /\ pc[w] = "check"
  /\ queue = <<>>
  /\ waitCount' = waitCount + 1
  /\ pc' = [pc EXCEPT ![w] = "counted"]
  /\ UNCHANGED <<queue, mutex, sem, pushPc, task, active, stopVars, histVars>>

\* ... semaphore::wait unlocks the mutex ...
PopSleep(w) ==
  /\ pc[w] = "counted"
  /\ mutex' = Nobody
  /\ pc' = [pc EXCEPT ![w] = "asleep"]
  /\ UNCHANGED <<queue, condVars, pushPc, task, active, stopVars, histVars>>

\* ... and WaitForSingleObject takes one from the semaphore.
PopWake(w) ==
  /\ pc[w] = "asleep"
  /\ sem > 0
  /\ sem' = sem - 1
  /\ pc' = [pc EXCEPT ![w] = "woken"]
  /\ UNCHANGED <<queue, mutex, waitCount, pushPc, task, active, stopVars, histVars>>

\* `if( task )`: --active_num_ and the task starts.
TaskBegin(w) ==
  /\ pc[w] = "got"
  /\ task[w] # Stopper
  /\ active' = (active + Word - 1) % Word
  /\ pc' = [pc EXCEPT ![w] = "run"]
  /\ UNCHANGED <<queue, mutex, condVars, pushPc, task, stopVars, histVars>>

\* The task returns and ++active_num_; run() loops.
TaskEnd(w) ==
  /\ pc[w] = "run"
  /\ active' = (active + 1) % Word
  /\ finished' = finished \cup {task[w]}
  /\ pc' = [pc EXCEPT ![w] = "lock"]
  /\ UNCHANGED <<queue, mutex, condVars, pushPc, task, stopVars, dropped>>

\* An empty task: run() returns and the thread ends.
WorkerExit(w) ==
  /\ pc[w] = "got"
  /\ task[w] = Stopper
  /\ pc' = [pc EXCEPT ![w] = "exited"]
  /\ UNCHANGED <<queue, mutex, condVars, pushPc, task, active, stopVars, histVars>>

Worker(w) ==
  \/ PopLock(w) \/ PopTake(w) \/ PopWait(w) \/ PopSleep(w) \/ PopWake(w)
  \/ TaskBegin(w) \/ TaskEnd(w) \/ WorkerExit(w)

-----------------------------------------------------------------------------
(* shutdown() -> terminate()                                               *)

\* The tasks handed to call() so far.
PushedTasks == {t \in Tasks : pushPc[t] # "idle"}

\* shutdown() is called (once).
StopBegin ==
  /\ stopPc = "running"
  /\ stopPc' = "pushing"
  /\ early' = PushedTasks
  /\ UNCHANGED <<queue, mutex, condVars, pushPc, pc, task, active, stopAt, histVars>>

\* Mutant: one empty task too few.
StopNextShort ==
  /\ pushPc[Stopper] = "pushed"
  /\ pushPc' = [pushPc EXCEPT ![Stopper] = "idle"]
  /\ IF stopAt >= NumWorkers - 1
       THEN stopPc' = "joining" /\ stopAt' = 1
       ELSE stopPc' = stopPc /\ stopAt' = stopAt + 1
  /\ UNCHANGED <<queue, mutex, condVars, pc, task, active, early, histVars>>

\* The for loop pushes one empty task per worker, then the workers are
\* destroyed (work_threads_.clear()).
StopNext ==
  /\ pushPc[Stopper] = "pushed"
  /\ pushPc' = [pushPc EXCEPT ![Stopper] = "idle"]
  /\ IF stopAt = NumWorkers
       THEN stopPc' = "joining" /\ stopAt' = 1
       ELSE stopPc' = stopPc /\ stopAt' = stopAt + 1
  /\ UNCHANGED <<queue, mutex, condVars, pc, task, active, early, histVars>>

\* ~worker_thread_t waits for its thread; then the next one.
StopJoin ==
  /\ stopPc = "joining"
  /\ pc[stopAt] = "exited"
  /\ IF stopAt = NumWorkers
       THEN stopPc' = "down" /\ stopAt' = stopAt
       ELSE stopPc' = stopPc /\ stopAt' = stopAt + 1
  /\ UNCHANGED <<queue, mutex, condVars, pushPc, pc, task, active, early, histVars>>

Push(p) == PushBack(p) \/ SignalCheck(p) \/ SignalRelease(p) \/ SignalDecrement(p)

Next ==
  \/ \E p \in Pushers : Push(p)
  \/ Clear
  \/ \E w \in Workers : Worker(w)
  \/ StopBegin \/ StopNext \/ StopJoin

Spec == Init /\ [][Next]_vars

\* Threads are scheduled and tasks return.  The critical section is not fair,
\* but it is held for a few instructions only: a thread that keeps trying to
\* enter it gets in.  A push() that has begun is carried through; nobody has to
\* call call(), clear() or shutdown().
Signalling(p) == SignalCheck(p) \/ SignalRelease(p) \/ SignalDecrement(p)

Fairness ==
  /\ \A w \in Workers : SF_vars(PopLock(w)) /\ WF_vars(Worker(w))
  /\ \A p \in Pushers : WF_vars(Signalling(p))
  /\ SF_vars(PushBack(Stopper))
  /\ WF_vars(StopNext \/ StopJoin)

FairSpec == Spec /\ Fairness

-----------------------------------------------------------------------------
(* Properties                                                              *)

\* The value domains of the variables: every counter in its word, every
\* process at a step of its code, every index inside work_threads_.
TypeOK ==
  /\ queue \in Seq(Pushers)
  /\ mutex \in Workers \cup {Nobody}
  /\ waitCount \in Int
  /\ sem \in Nat
  /\ pushPc \in [Pushers -> PushStates]
  /\ pc \in [Workers -> WorkerStates]
  /\ task \in [Workers -> Pushers]
  /\ active \in 0..(Word - 1)
  /\ stopPc \in {"running", "pushing", "joining", "down"}
  /\ stopAt \in Workers
  /\ early \subseteq Tasks
  /\ finished \subseteq Pushers
  /\ dropped \subseteq Pushers

Sleepers == {w \in Workers : pc[w] \in {"counted", "asleep"}}
Seekers == {w \in Workers : pc[w] \in {"lock", "woken", "check"}}
Owing == {p \in Pushers : pushPc[p] \in {"signal", "release"}}
Releasing == {p \in Pushers : pushPc[p] = "decrement"}

\* The counter and the semaphore of condition_t together always account for
\* the waiters, although signal() updates them in two steps outside the mutex
\* (and waitCount_ may even become negative).
WakeAccounting ==
  waitCount + sem = Cardinality(Sleepers) + Cardinality(Releasing)

\* No lost wakeup: while a waiter has no token to wake on, every queued item
\* has somebody coming for it - a push() that has not signalled yet, a token,
\* or a worker on its way to the queue.
NoStrandedTask ==
  Cardinality(Sleepers) > sem =>
    Len(queue) <= Cardinality(Owing) + sem + Cardinality(Seekers)

\* A task that was pushed is in one place, and stays one: in the queue once,
\* or with one worker (got from pop(), perhaps running), or executed, or
\* removed by clear().
Copies(t) ==
  Cardinality({i \in DOMAIN queue : queue[i] = t})
    + Cardinality({w \in Workers : pc[w] \in {"got", "run"} /\ task[w] = t})

RunOnce ==
  /\ finished \cap dropped = {}
  /\ \A t \in Tasks :
       Copies(t) = IF t \in PushedTasks \ (finished \cup dropped) THEN 1 ELSE 0

\* When shutdown() returns, every task accepted before it was called has been
\* executed (or cleared): the empty tasks queue up behind them.
ShutdownDrains ==
  stopPc = "down" =>
    /\ early \subseteq finished \cup dropped
    /\ \A w \in Workers : pc[w] = "exited"

\* A task is executed unless it is cleared or the pool is shut down before it
\* was pushed.
TaskExecuted ==
  \A t \in Tasks :
    pushPc[t] = "signal" /\ stopPc = "running" ~> t \in finished \cup dropped

\* shutdown() returns.
ShutdownReturns == stopPc = "pushing" ~> stopPc = "down"
=============================================================================
