----------------------------- MODULE Conditions -----------------------------
(***************************************************************************)
(* The locks and condition variables of multi_thread/lock.hpp.             *)
(*                                                                         *)
(* condition_t counts its waiters in waitCount_ and leaves sleeping to one *)
(* of three classes: semaphore, multiple_event_t (manual-reset events) and *)
(* ms_condition (CONDITION_VARIABLE).  Threads take the lock, wait, for    *)
(* ever or for a time, and call signal(), broadcast() and reset() with or  *)
(* without the lock: the code asks for neither.  Every Win32 or            *)
(* interlocked call is a step.                                             *)
(***************************************************************************)
EXTENDS Integers, FiniteSets

CONSTANTS
  Threads,       \* the threads that use the condition
  Classes,       \* the classes behind condition_t to be checked
  Locks,         \* the lock classes to be checked
  NumEvents,     \* _Size of multiple_event_t
  MaxCalls       \* bound: calls of wait, signal, broadcast, reset in all

ASSUME ConditionAssumption ==
  /\ IsFiniteSet(Threads)
  /\ Classes \subseteq {"semaphore", "event", "ms"}
  /\ Locks \subseteq {"null", "cs", "mutex", "shared", "exclusive"}
  /\ NumEvents \in Nat \ {0} /\ MaxCalls \in Nat

VARIABLES
  class, lock,   \* the classes in use
  holders,       \* threads that hold the lock
  jammed,        \* the lock was released in the wrong mode and stays held
  pc,            \* where each thread stands
  timed,         \* the wait of the thread has a time limit
  held,          \* the thread called signal, broadcast or reset with the lock
  waitCount,     \* condition_t::waitCount_
  sem,           \* count of the semaphore object
  signalCount,   \* semaphore::signal_count_
  pos,           \* multiple_event_t::pos_
  sleepers,      \* threads in SleepConditionVariable
  count,         \* what broadcast() read and passed to signal(), per thread
  lost,          \* waiters whose count or permit was taken away (history)
  bare,          \* a call was made that the lock did not protect (history)
  calls          \* calls made so far

lockVars == <<class, lock, holders, jammed>>
condVars == <<waitCount, sem, signalCount, pos, sleepers>>
callVars == <<timed, held, count, lost, bare, calls>>
vars == <<class, lock, holders, jammed, pc, timed, held, waitCount, sem,
          signalCount, pos, sleepers, count, lost, bare, calls>>

\* ms_condition is used with a CRITICAL_SECTION.
Init ==
  /\ class \in Classes /\ lock \in Locks
  /\ class = "ms" => lock = "cs"
  /\ holders = {} /\ jammed = FALSE
  /\ pc = [t \in Threads |-> "out"]
  /\ timed = [t \in Threads |-> FALSE]
  /\ held = [t \in Threads |-> FALSE]
  /\ waitCount = 0 /\ sem = 0 /\ signalCount = 0 /\ pos = -1
  /\ sleepers = {}
  /\ count = [t \in Threads |-> 0]
  /\ lost = 0 /\ bare = FALSE
  /\ calls = 0

Goes(t, from, to) == pc[t] = from /\ pc' = [pc EXCEPT ![t] = to]

-----------------------------------------------------------------------------
(* lock() and unlock() of the lock classes                                 *)

\* spin_lock and critical_section: EnterCriticalSection
CsFree == lock = "cs" /\ holders = {}

\* mutex: WaitForSingleObject(mutex_, INFINITE)
MutexFree == lock = "mutex" /\ holders = {}

\* rd_lock_t: AcquireSRWLockShared or AcquireSRWLockExclusive
SrwFree == lock = "shared" \/ (lock = "exclusive" /\ holders = {} /\ ~jammed)

Acquire(t) ==
  /\ lock = "null" \/ CsFree \/ MutexFree \/ SrwFree
  /\ holders' = holders \cup {t}
  /\ UNCHANGED <<class, lock, jammed>>

\* Both r_unlock() and w_unlock() call ReleaseSRWLockShared.  On a lock that
\* was acquired exclusively this can release it or leave it as it is.
SrwReleased == IF lock = "exclusive" THEN BOOLEAN ELSE {FALSE}

ReleaseLock(t) ==
  /\ holders' = holders \ {t}
  /\ jammed' \in SrwReleased
  /\ UNCHANGED <<class, lock>>

\* The thread keeps others out.
Protected(t) == t \in holders /\ lock \in {"cs", "mutex", "exclusive"}

\* auto_lock_t
Enter(t) ==
  /\ Goes(t, "out", "in")
  /\ Acquire(t)
  /\ UNCHANGED <<condVars, callVars>>

Leave(t) ==
  /\ Goes(t, "in", "out")
  /\ ReleaseLock(t)
  /\ UNCHANGED <<condVars, callVars>>

-----------------------------------------------------------------------------
(* condition_t::wait                                                       *)

\* InterlockedIncrement(&waitCount_), with the lock still held.
Wait(t, limit) ==
  /\ calls < MaxCalls
  /\ Goes(t, "in", "counted")
  /\ waitCount' = waitCount + 1
  /\ calls' = calls + 1
  /\ timed' = [timed EXCEPT ![t] = limit]
  /\ UNCHANGED <<lockVars, held, count, lost, bare, sem, signalCount, pos, sleepers>>

\* mutex.unlock(); the thread goes to sleep on the semaphore or to the events.
\* SleepConditionVariable unlocks and sleeps at once.
WaitUnlock(t) ==
  /\ Goes(t, "counted", IF class = "event" THEN "unlocked" ELSE "asleep")
  /\ ReleaseLock(t)
  /\ sleepers' = IF class = "ms" THEN sleepers \cup {t} ELSE sleepers
  /\ UNCHANGED <<waitCount, sem, signalCount, pos, callVars>>

\* SignalObjectAndWait of multiple_event_t signals the very event it then waits
\* for, and returns at once; mutex_ keeps other waiters and signals out.
WaitEvent(t) ==
  /\ Goes(t, "unlocked", "relock")
  /\ pos' = IF pos > 0 THEN pos - 1 ELSE pos
  /\ UNCHANGED <<lockVars, waitCount, sem, signalCount, sleepers, callVars>>

\* WaitForSingleObject takes a permit of the semaphore.
WakeBySemaphore(t) ==
  /\ class = "semaphore" /\ sem > 0
  /\ Goes(t, "asleep", "taken")
  /\ sem' = sem - 1
  /\ UNCHANGED <<lockVars, waitCount, signalCount, pos, sleepers, callVars>>

\* SleepConditionVariable returns after a wake.
WakeByVariable(t) ==
  /\ class = "ms" /\ t \notin sleepers
  /\ Goes(t, "asleep", "relock")
  /\ UNCHANGED <<lockVars, condVars, callVars>>

\* Either wait times out; the waiter stays in waitCount_.
WaitTimesOut(t) ==
  /\ timed[t] /\ sem = 0
  /\ class = "ms" => t \in sleepers
  /\ Goes(t, "asleep", IF class = "ms" THEN "relock" ELSE "taken")
  /\ sleepers' = sleepers \ {t}
  /\ UNCHANGED <<lockVars, waitCount, sem, signalCount, pos, callVars>>

\* InterlockedDecrement(&signal_count_), timed out or not.
WaitDecrement(t) ==
  /\ Goes(t, "taken", "relock")
  /\ signalCount' = signalCount - 1
  /\ UNCHANGED <<lockVars, waitCount, sem, pos, sleepers, callVars>>

Relock(t) ==
  /\ Goes(t, "relock", "in")
  /\ Acquire(t)
  /\ UNCHANGED <<condVars, callVars>>

-----------------------------------------------------------------------------
(* signal, broadcast, reset; a call returns to where it was made           *)

Return(t) == IF held[t] THEN "in" ELSE "out"

CallBegin(t, to) ==
  /\ calls < MaxCalls
  /\ pc[t] \in {"in", "out"}
  /\ pc' = [pc EXCEPT ![t] = to]
  /\ held' = [held EXCEPT ![t] = pc[t] = "in"]
  /\ calls' = calls + 1
  /\ bare' = (bare \/ ~Protected(t))
  /\ UNCHANGED <<lockVars, condVars, timed, lost>>

\* condition_t::signal and broadcast do nothing when nobody is counted.
SignalBegin(t) ==
  /\ waitCount # 0
  /\ count' = [count EXCEPT ![t] = 1]
  /\ CallBegin(t, "signal")

\* broadcast() reads waitCount_ once more for the number of signals.
BroadcastBegin(t) ==
  /\ waitCount # 0
  /\ count' = [count EXCEPT ![t] = 0]
  /\ CallBegin(t, "broadcast")

BroadcastRead(t) ==
  /\ Goes(t, "broadcast", "signalAll")
  /\ count' = [count EXCEPT ![t] = waitCount]
  /\ UNCHANGED <<lockVars, condVars, timed, held, lost, bare, calls>>

\* Events signalled by multiple_event_t::signal(n).
EventPos(n) == IF pos + n >= NumEvents THEN NumEvents - 1 ELSE pos + n

\* Mutant: one permit whatever the count.
SignalImplOne(t) ==
  /\ \/ Goes(t, "signal", IF class = "semaphore" THEN "add" ELSE "uncount")
     \/ Goes(t, "signalAll", IF class = "semaphore" THEN "addAll" ELSE "clear")
  /\ sem' = IF class = "semaphore" /\ count[t] > 0 THEN sem + 1 ELSE sem
  /\ \/ class = "ms" /\ sleepers # {} /\ \E u \in sleepers : sleepers' = sleepers \ {u}
     \/ ~(class = "ms" /\ sleepers # {}) /\ UNCHANGED sleepers
  /\ UNCHANGED <<lockVars, waitCount, signalCount, pos, callVars>>

\* signal(count) of the three classes.  semaphore and multiple_event_t ignore
\* a count below one; ms_condition wakes everybody unless the count is one.
SignalImpl(t) ==
  LET n == count[t] IN
  /\ \/ Goes(t, "signal", IF class = "semaphore" THEN "add" ELSE "uncount")
     \/ Goes(t, "signalAll", IF class = "semaphore" THEN "addAll" ELSE "clear")
  /\ sem' = IF class = "semaphore" /\ n > 0 THEN sem + n ELSE sem
  /\ pos' = IF class = "event" /\ n > 0 THEN EventPos(n) ELSE pos
  /\ IF class = "ms" /\ n = 1 /\ sleepers # {}
       THEN \E u \in sleepers : sleepers' = sleepers \ {u}
       ELSE sleepers' = IF class = "ms" /\ n # 1 THEN {} ELSE sleepers
  /\ UNCHANGED <<lockVars, waitCount, signalCount, callVars>>

\* InterlockedExchangeAdd(&signal_count_, count) after the release.
SignalAdd(t) ==
  /\ \/ Goes(t, "add", "uncount") \/ Goes(t, "addAll", "clear")
  /\ signalCount' = IF count[t] > 0 THEN signalCount + count[t] ELSE signalCount
  /\ UNCHANGED <<lockVars, waitCount, sem, pos, sleepers, callVars>>

\* InterlockedDecrement(&waitCount_) at the end of signal().
Uncount(t) ==
  /\ Goes(t, "uncount", Return(t))
  /\ waitCount' = waitCount - 1
  /\ UNCHANGED <<lockVars, sem, signalCount, pos, sleepers, callVars>>

\* InterlockedExchange(&waitCount_, 0) at the end of broadcast().  Waiters
\* that arrived since it was read are counted no more.
BroadcastClear(t) ==
  /\ Goes(t, "clear", Return(t))
  /\ waitCount' = 0
  /\ lost' = lost + IF waitCount > count[t] /\ ~Protected(t)
                      THEN waitCount - count[t] ELSE 0
  /\ UNCHANGED <<lockVars, sem, signalCount, pos, sleepers, timed, held, count, bare, calls>>

\* reset() takes signal_count_ permits, waiting for each.
ResetBegin(t) ==
  /\ class = "semaphore"
  /\ count' = [count EXCEPT ![t] = 0]
  /\ CallBegin(t, "reset")

ResetTake(t) ==
  /\ Goes(t, "reset", "reset")
  /\ count[t] < signalCount /\ sem > 0
  /\ sem' = sem - 1
  /\ count' = [count EXCEPT ![t] = @ + 1]
  /\ lost' = lost + 1
  /\ UNCHANGED <<lockVars, waitCount, signalCount, pos, sleepers, timed, held, bare, calls>>

ResetEnd(t) ==
  /\ Goes(t, "reset", Return(t))
  /\ count[t] >= signalCount
  /\ signalCount' = 0
  /\ UNCHANGED <<lockVars, waitCount, sem, pos, sleepers, callVars>>

\* reset() of the events clears the position, of ms_condition nothing.
ResetOther(t) ==
  /\ class = "event" /\ calls < MaxCalls
  /\ pc[t] \in {"in", "out"}
  /\ pos' = -1
  /\ calls' = calls + 1
  /\ UNCHANGED <<lockVars, pc, waitCount, sem, signalCount, sleepers, timed, held,
                 count, lost, bare>>

Waiting(t) ==
  \/ WaitUnlock(t) \/ WaitEvent(t) \/ WakeBySemaphore(t) \/ WakeByVariable(t) \/ WaitTimesOut(t)
  \/ WaitDecrement(t) \/ Relock(t)

Signalling(t) ==
  \/ BroadcastRead(t) \/ SignalImpl(t) \/ SignalAdd(t) \/ Uncount(t) \/ BroadcastClear(t)
  \/ ResetTake(t) \/ ResetEnd(t)

Next ==
  \E t \in Threads :
    \/ Enter(t) \/ Leave(t)
    \/ \E limit \in BOOLEAN : Wait(t, limit)
    \/ SignalBegin(t) \/ BroadcastBegin(t) \/ ResetBegin(t) \/ ResetOther(t)
    \/ Waiting(t) \/ Signalling(t)

Spec == Init /\ [][Next]_vars

-----------------------------------------------------------------------------
(* Properties                                                              *)

InState(S) == Cardinality({t \in Threads : pc[t] \in S})

\* Where a thread is from the moment it is counted until it is woken.
InWait == {"counted", "asleep"}

\* No waiter goes deaf: a thread in wait() on the semaphore is still counted, so
\* that the next signal() or broadcast() finds it, or has a permit, timeouts
\* and signals without the lock included.  Waiters are lost only where a
\* broadcast() outside the lock stores zero over one that came after its read,
\* or reset() takes a permit.  CONDITION_VARIABLE keeps no permits: there it
\* takes calls made under the lock throughout.
NoDeafWaiter ==
  /\ class = "semaphore" => InState(InWait) <= sem + waitCount + lost
  /\ class = "ms" /\ ~bare => Cardinality(sleepers) <= waitCount

\* Once nobody holds the lock it can be acquired: unlock() releases what
\* lock() acquired, in the mode the comments on rd_lock_t name.
Released == holders = {} => ~jammed
=============================================================================
