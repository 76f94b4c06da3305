--------------------------- MODULE BlockingQueues ---------------------------
(***************************************************************************)
(* blocking_queue_t and bounded_block_queue_t (extend_stl/container): a    *)
(* deque, one mutex, and a condition variable for "not empty" and, in the  *)
(* bounded queue, one for "not full".  A call holds the mutex up to a wait *)
(* or to its end, so that much of it is one step; the notification comes   *)
(* after the mutex was released and is a step of its own.  A woken thread  *)
(* has to take the mutex again and finds what others left.                 *)
(***************************************************************************)
EXTENDS Naturals, FiniteSets

CONSTANTS
  QueueThreads,  \* threads that put and get
  Limits,        \* max_size_ of the queues checked; Unbounded for blocking_queue_t
  Unbounded,
  MaxPuts        \* bound: calls of put()

\* max_size_ is a size_type; threads are finitely many.
ASSUME QueueAssumption ==
  /\ Limits \subseteq Nat /\ Unbounded \in Nat /\ MaxPuts \in Nat
  /\ IsFiniteSet(QueueThreads)

VARIABLES
  limit,         \* max_size_
  size,          \* queue_.size()
  doing,         \* where each thread stands
  notEmpty,      \* threads asleep on not_empty_
  notFull,       \* threads asleep on not_full_
  puts           \* calls of put() so far

queueVars == <<limit, size, doing, notEmpty, notFull, puts>>

QueueInit ==
  /\ limit \in Limits
  /\ size = 0
  /\ doing = [t \in QueueThreads |-> "out"]
  /\ notEmpty = {} /\ notFull = {}
  /\ puts = 0

Full == limit # Unbounded /\ size = limit
Goes(t, to) == doing' = [doing EXCEPT ![t] = to]
Asleep == notEmpty \cup notFull

CallPut(t) ==
  /\ doing[t] = "out" /\ puts < MaxPuts
  /\ puts' = puts + 1
  /\ Goes(t, "put")
  /\ UNCHANGED <<limit, size, notEmpty, notFull>>

CallGet(t) ==
  /\ doing[t] = "out"
  /\ Goes(t, "get")
  /\ UNCHANGED <<limit, size, notEmpty, notFull, puts>>

\* put() with the mutex: sleeps while the queue is full, else pushes.
PutWaits(t) ==
  /\ doing[t] = "put" /\ t \notin Asleep /\ Full
  /\ notFull' = notFull \cup {t}
  /\ UNCHANGED <<limit, size, doing, notEmpty, puts>>

\* Mutant: only the put into an empty queue notifies.
PutsIfEmpty(t) ==
  /\ doing[t] = "put" /\ t \notin Asleep /\ ~Full
  /\ size' = size + 1
  /\ Goes(t, IF size = 0 THEN "tellNotEmpty" ELSE "out")
  /\ UNCHANGED <<limit, notEmpty, notFull, puts>>

Puts(t) ==
  /\ doing[t] = "put" /\ t \notin Asleep /\ ~Full
  /\ size' = size + 1
  /\ Goes(t, "tellNotEmpty")
  /\ UNCHANGED <<limit, notEmpty, notFull, puts>>

\* get() with the mutex: sleeps while the queue is empty, else takes one.
GetWaits(t) ==
  /\ doing[t] = "get" /\ t \notin Asleep /\ size = 0
  /\ notEmpty' = notEmpty \cup {t}
  /\ UNCHANGED <<limit, size, doing, notFull, puts>>

Gets(t) ==
  /\ doing[t] = "get" /\ t \notin Asleep /\ size > 0
  /\ size' = size - 1
  /\ Goes(t, IF limit = Unbounded THEN "out" ELSE "tellNotFull")
  /\ UNCHANGED <<limit, notEmpty, notFull, puts>>

\* notify_one(), without the mutex: one sleeper wakes, if there is one.
NotifyNotEmpty(t) ==
  /\ doing[t] = "tellNotEmpty"
  /\ Goes(t, "out")
  /\ IF notEmpty = {} THEN UNCHANGED notEmpty
                      ELSE \E u \in notEmpty : notEmpty' = notEmpty \ {u}
  /\ UNCHANGED <<limit, size, notFull, puts>>

NotifyNotFull(t) ==
  /\ doing[t] = "tellNotFull"
  /\ Goes(t, "out")
  /\ IF notFull = {} THEN UNCHANGED notFull
                     ELSE \E u \in notFull : notFull' = notFull \ {u}
  /\ UNCHANGED <<limit, size, notEmpty, puts>>

\* A sleeper wakes unasked, or the time of wait_for() is over; the loop goes
\* round, so that the time limit of put() limits one sleep, not the call.
Wakes(t) ==
  /\ t \in Asleep
  /\ notEmpty' = notEmpty \ {t} /\ notFull' = notFull \ {t}
  /\ UNCHANGED <<limit, size, doing, puts>>

\* clear(), of blocking_queue_t only.
Clear ==
  /\ limit = Unbounded /\ size > 0
  /\ size' = 0
  /\ UNCHANGED <<limit, doing, notEmpty, notFull, puts>>

QueueNext ==
  \/ \E t \in QueueThreads :
       \/ CallPut(t) \/ CallGet(t) \/ PutWaits(t) \/ Puts(t) \/ GetWaits(t)
       \/ Gets(t) \/ NotifyNotEmpty(t) \/ NotifyNotFull(t) \/ Wakes(t)
  \/ Clear

QueueSpec == QueueInit /\ [][QueueNext]_queueVars

-----------------------------------------------------------------------------
(* Properties *)

At(where) == {t \in QueueThreads : doing[t] = where}

\* No lost wakeup, although the notification comes after the mutex was
\* released and one sleeper is woken per element: a consumer sleeps beside
\* elements, or a producer beside room, only while enough others are awake in
\* get() or put(), or about to notify, to use them up.
NoIdleWaiter ==
  /\ notEmpty # {} =>
       size <= Cardinality(At("get") \ notEmpty) + Cardinality(At("tellNotEmpty"))
  /\ notFull # {} =>
       limit - size <= Cardinality(At("put") \ notFull) + Cardinality(At("tellNotFull"))
=============================================================================
