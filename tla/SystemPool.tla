----------------------------- MODULE SystemPool -----------------------------
(***************************************************************************)
(* The wrappers of the Windows thread pool (multi_thread/                  *)
(* system_thread_pool.hpp): queue_work_item_pool, queue_timer_pool and     *)
(* wait_object_pool.  An object owns one callback object and gives the     *)
(* system a bare pointer to it with every call(); the system queues the    *)
(* callback when a work item, a timer or a wait is due, and one of its     *)
(* threads runs it.  Destroying the object deletes the callback object,    *)
(* whatever the system still holds.                                        *)
(*                                                                         *)
(* The call() overloads of timers and waits that take a handler compare    *)
(* the callback object with 0, which does not compile, so the handler is   *)
(* the constructor's.                                                      *)
(***************************************************************************)
EXTENDS Naturals, FiniteSets

CONSTANTS
  MaxRegs,       \* bound: successful calls of call()
  MaxFires       \* bound: times a registration falls due

ASSUME SystemAssumption == MaxRegs \in Nat /\ MaxFires \in Nat

Regs == 1..MaxRegs
NoReg == 0

VARIABLES
  wrapper,       \* "work", "timer" or "wait"
  exists,        \* the object, and with it the callback object
  made,          \* registrations made
  reg,           \* the registration newTimer_ or waitObject_ names
  armed,         \* registration: "none", "once", "often", "spent", "deleted"
  fires,         \* times it fell due
  queued,        \* callbacks waiting for a thread
  running,       \* callbacks in a thread
  overwritten,   \* registrations whose handle was stored over (history)
  cancelled,     \* registrations cancel() was called for (history)
  late,          \* those that fell due after the destruction or their cancel() (history)
  pending,       \* callbacks queued or running at the destruction (history)
  again          \* registrations deleted once more after their deletion (history)

systemVars == <<wrapper, exists, made, reg, armed, fires, queued, running,
                overwritten, cancelled, late, pending, again>>

Zero == [r \in Regs |-> 0]

SystemInit ==
  /\ wrapper \in {"work", "timer", "wait"}
  /\ exists = TRUE
  /\ made = 0 /\ reg = NoReg
  /\ armed = [r \in Regs |-> "none"]
  /\ fires = Zero /\ queued = Zero /\ running = Zero
  /\ overwritten = {} /\ cancelled = {} /\ late = {} /\ pending = Zero /\ again = {}

\* call(): the handle of an earlier call() is stored over, not deleted.  The
\* work item is due at once; a timer or a wait is good for once or for more.
Call ==
  LET r == made + 1 IN
  /\ exists /\ r \in Regs
  /\ made' = r
  /\ IF wrapper = "work"
       THEN /\ queued' = [queued EXCEPT ![r] = 1]
            /\ UNCHANGED <<reg, armed, overwritten>>
       ELSE /\ reg' = r
            /\ \E how \in {"once", "often"} : armed' = [armed EXCEPT ![r] = how]
            /\ overwritten' = IF reg = NoReg THEN overwritten ELSE overwritten \cup {reg}
            /\ UNCHANGED queued
  /\ UNCHANGED <<wrapper, exists, fires, running, cancelled, late, pending, again>>

\* change(): the timer behind the handle gets another due time and period.
Change ==
  /\ wrapper = "timer" /\ exists /\ reg # NoReg
  /\ armed[reg] \in {"once", "often"}
  /\ \E how \in {"once", "often"} : armed' = [armed EXCEPT ![reg] = how]
  /\ UNCHANGED <<wrapper, exists, made, reg, fires, queued, running, overwritten,
                 cancelled, late, pending, again>>

\* The system finds a timer or a wait due and queues its callback.
Due(r) ==
  /\ armed[r] \in {"once", "often"} /\ fires[r] < MaxFires
  /\ fires' = [fires EXCEPT ![r] = @ + 1]
  /\ queued' = [queued EXCEPT ![r] = @ + 1]
  /\ armed' = [armed EXCEPT ![r] = IF @ = "once" THEN "spent" ELSE @]
  /\ late' = IF exists /\ r \notin cancelled THEN late ELSE late \cup {r}
  /\ UNCHANGED <<wrapper, exists, made, reg, running, overwritten, cancelled, pending, again>>

\* proc_impl: invoke() on the bare pointer, every exception is caught.
ProcBegins(r) ==
  /\ queued[r] > 0
  /\ queued' = [queued EXCEPT ![r] = @ - 1]
  /\ running' = [running EXCEPT ![r] = @ + 1]
  /\ UNCHANGED <<wrapper, exists, made, reg, armed, fires, overwritten, cancelled,
                 late, pending, again>>

ProcEnds(r) ==
  /\ running[r] > 0
  /\ running' = [running EXCEPT ![r] = @ - 1]
  /\ UNCHANGED <<wrapper, exists, made, reg, armed, fires, queued, overwritten, cancelled,
                 late, pending, again>>

Outstanding(r) == queued[r] + running[r] > 0

\* The system forgets what the handle names; callbacks already queued stay.
Delete ==
  /\ armed' = [armed EXCEPT ![reg] = "deleted"]
  /\ again' = IF armed[reg] = "deleted" THEN again \cup {reg} ELSE again
  /\ cancelled' = cancelled \cup {reg}

\* cancel() of a timer.  DeleteTimerQueueTimer() deletes it in any case, but
\* reports failure (ERROR_IO_PENDING) while callbacks are outstanding, and the
\* handle is then kept.
DeleteTimer ==
  /\ Delete
  /\ reg' = IF Outstanding(reg) THEN reg ELSE NoReg

CancelTimer ==
  /\ wrapper = "timer" /\ exists /\ reg # NoReg
  /\ DeleteTimer
  /\ UNCHANGED <<wrapper, exists, made, fires, queued, running, overwritten, late, pending>>

\* cancel() of a wait: UnregisterWaitEx(); the handle is kept, and the next
\* cancel() hands it to the system again.
CancelWait ==
  /\ wrapper = "wait" /\ exists /\ reg # NoReg
  /\ Delete
  /\ UNCHANGED <<wrapper, exists, made, reg, fires, queued, running, overwritten, late, pending>>

\* Mutant: the destructor of a timer does not cancel.
DestroyPoolOnly ==
  /\ exists
  /\ exists' = FALSE
  /\ pending' = [r \in Regs |-> queued[r] + running[r]]
  /\ UNCHANGED <<armed, again, cancelled, reg>>
  /\ UNCHANGED <<wrapper, made, fires, queued, running, overwritten, late>>

\* ~queue_timer_pool cancels the timer it has the handle of and does not wait;
\* the destructors of the others do nothing.  callback_ is deleted.
DestroyPool ==
  /\ exists
  /\ exists' = FALSE
  /\ pending' = [r \in Regs |-> queued[r] + running[r]]
  /\ IF wrapper = "timer" /\ reg # NoReg THEN DeleteTimer ELSE UNCHANGED <<armed, again, cancelled, reg>>
  /\ UNCHANGED <<wrapper, made, fires, queued, running, overwritten, late>>

SystemNext ==
  \/ Call \/ Change \/ CancelTimer \/ CancelWait \/ DestroyPool
  \/ \E r \in Regs : Due(r) \/ ProcBegins(r) \/ ProcEnds(r)

SystemSpec == SystemInit /\ [][SystemNext]_systemVars

-----------------------------------------------------------------------------
(* Properties                                                              *)

\* What calls back an object that is gone, or was told to stop.  After cancel()
\* the registration it named never falls due again, with the object or without;
\* after the destruction only a wait nobody cancelled does, or a timer whose
\* handle a second call() stored over.  Otherwise the callbacks on the deleted
\* callback object are no more than those that were queued or running when it
\* went, which no destructor waits for: work items, and callbacks that fell due
\* before.  A timer is deleted twice only if it has fired (cancel() keeps the
\* handle while callbacks are outstanding); a wait, whose handle cancel() never
\* clears, at any time.
LateNeedsHandleLost ==
  /\ \A r \in late : r \notin cancelled /\ (wrapper = "wait" \/ r \in overwritten)
  /\ ~exists => \A r \in Regs \ late : queued[r] + running[r] <= pending[r]
  /\ \A r \in again : wrapper = "wait" \/ fires[r] > 0
=============================================================================
