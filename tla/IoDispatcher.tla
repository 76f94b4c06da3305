---------------------------- MODULE IoDispatcher ----------------------------
(***************************************************************************)
(* io_dispatcher_t (async_io/service/dispatcher.{hpp,cpp}) with the        *)
(* completion port it wraps (iocp.hpp) and the ownership of callback       *)
(* objects (async_result.hpp).                                             *)
(*                                                                         *)
(* A callback object is made by post(), handed to the port, taken by a     *)
(* worker in a batch of at most `Batch` entries (entrys[64]), called and   *)
(* deallocated.  Workers leave their loop only when their alertable wait   *)
(* is interrupted by the APC that stop() queued.                           *)
(*                                                                         *)
(* A handler may post further callbacks: every post() call is a process of *)
(* its own, so posts by handlers are among the interleavings.              *)
(***************************************************************************)
EXTENDS Naturals, Sequences, FiniteSets, Functions

CONSTANTS
  Callbacks,     \* callback objects, one per call of post()
  Throwing,      \* the callbacks whose handler may leave by an exception
  NumThreads,    \* numThreads of the constructor
  Batch          \* number of OVERLAPPED_ENTRYs a worker asks for (64)

ASSUME DispatcherAssumption ==
  /\ Throwing \subseteq Callbacks
  /\ NumThreads \in Nat
  /\ Batch \in Nat \ {0}

Threads == 1..NumThreads

VARIABLES
  poster,        \* where the post() call of each callback stands
  port,          \* completion packets queued in the port, oldest first
  portOpen,      \* iocp_ is a valid handle
  batch,         \* entries each worker took and has not finished yet
  pc,            \* where each worker stands in _thread_io()
  apc,           \* a user APC is pending on the worker
  stopPc,        \* where stop() (and then ~impl) stands
  stopAt,        \* the loop index of stop()'s two for_each
  invokes,       \* how often each callback's handler was entered
  frees,         \* how often each callback was deallocated
  lost,          \* entries taken from the port and never called (history)
  throws         \* how many handlers left by an exception (history)

postVars == <<poster, port, portOpen>>
workVars == <<batch, pc, apc>>
stopVars == <<stopPc, stopAt>>
histVars == <<invokes, frees, lost, throws>>
vars == <<poster, port, portOpen, batch, pc, apc, stopPc, stopAt,
          invokes, frees, lost, throws>>

\* impl::impl - the port is created and every thread is started.
Init ==
  /\ poster = [c \in Callbacks |-> "none"]
  /\ port = <<>>
  /\ portOpen = TRUE
  /\ batch = [t \in Threads |-> <<>>]
  /\ pc = [t \in Threads |-> "start"]
  /\ apc = [t \in Threads |-> FALSE]
  /\ stopPc = "idle"
  /\ stopAt = 1
  /\ invokes = [c \in Callbacks |-> 0]
  /\ frees = [c \in Callbacks |-> 0]
  /\ lost = {}
  /\ throws = 0

-----------------------------------------------------------------------------
(* post()                                                                  *)

\* make_async_callback: the unique_ptr `async` owns the new object.
MakeCallback(c) ==
  /\ portOpen
  /\ poster[c] = "none"
  /\ poster' = [poster EXCEPT ![c] = "made"]
  /\ UNCHANGED <<port, portOpen, workVars, stopVars, histVars>>

\* PostQueuedCompletionStatus succeeds; `async` still points at the object.
PostStatus(c) ==
  /\ poster[c] = "made"
  /\ port' = Append(port, c)
  /\ poster' = [poster EXCEPT ![c] = "posted"]
  /\ UNCHANGED <<portOpen, workVars, stopVars, histVars>>

\* It fails: post_impl throws and unwinding destroys `async`.
PostStatusFails(c) ==
  /\ poster[c] = "made"
  /\ poster' = [poster EXCEPT ![c] = "failed"]
  /\ frees' = [frees EXCEPT ![c] = @ + 1]
  /\ UNCHANGED <<port, portOpen, workVars, stopVars, invokes, lost, throws>>

\* async.release(); a worker may have called the object and freed it by now.
Release(c) ==
  /\ poster[c] = "posted"
  /\ poster' = [poster EXCEPT ![c] = "released"]
  /\ UNCHANGED <<port, portOpen, workVars, stopVars, histVars>>

-----------------------------------------------------------------------------
(* _thread_io() of worker t                                                *)

\* init_handler_(), then the first turn of the loop.
StartThread(t) ==
  /\ pc[t] = "start"
  /\ pc' = [pc EXCEPT ![t] = "wait"]
  /\ UNCHANGED <<postVars, batch, apc, stopVars, histVars>>

TakeEntries(t, n) ==
  /\ pc[t] = "wait"
  /\ n <= Len(port)
  /\ batch' = [batch EXCEPT ![t] = SubSeq(port, 1, n)]
  /\ port' = SubSeq(port, n + 1, Len(port))
  /\ pc' = [pc EXCEPT ![t] = "call"]
  /\ UNCHANGED <<poster, portOpen, apc, stopVars, histVars>>

\* Mutant: only full batches are taken.
GetStatusExFull(t) == TakeEntries(t, Batch)

\* get_status_ex returns between one and Batch entries.
GetStatusEx(t) == \E n \in 1..Batch : TakeEntries(t, n)

\* call(): the handler of the next entry is entered.
CallBegin(t) ==
  /\ pc[t] = "call"
  /\ pc' = [pc EXCEPT ![t] = "inside"]
  /\ invokes' = [invokes EXCEPT ![Head(batch[t])] = @ + 1]
  /\ UNCHANGED <<postVars, batch, apc, stopVars, frees, lost, throws>>

\* Mutant: the loop over the entries is left after the first one.
CallEndBreaks(t) ==
  /\ pc[t] = "inside"
  /\ frees' = [frees EXCEPT ![Head(batch[t])] = @ + 1]
  /\ batch' = [batch EXCEPT ![t] = <<>>]
  /\ pc' = [pc EXCEPT ![t] = "wait"]
  /\ UNCHANGED <<postVars, apc, stopVars, invokes, lost, throws>>

\* The handler returns, the unique_ptr in call() deallocates the object, and
\* the for loop goes on to the next entry or back to the wait.
CallEnd(t) ==
  /\ pc[t] = "inside"
  /\ frees' = [frees EXCEPT ![Head(batch[t])] = @ + 1]
  /\ batch' = [batch EXCEPT ![t] = Tail(@)]
  /\ pc' = [pc EXCEPT ![t] = IF Len(batch[t]) = 1 THEN "wait" ELSE "call"]
  /\ UNCHANGED <<postVars, apc, stopVars, invokes, lost, throws>>

\* The handler throws.  The object is deallocated by unwinding, but the
\* catch clauses are outside the for loop: the entries behind it are
\* neither called nor freed.
CallThrow(t) ==
  /\ pc[t] = "inside"
  /\ Head(batch[t]) \in Throwing
  /\ frees' = [frees EXCEPT ![Head(batch[t])] = @ + 1]
  /\ lost' = lost \cup Range(Tail(batch[t]))
  /\ throws' = throws + 1
  /\ batch' = [batch EXCEPT ![t] = <<>>]
  /\ pc' = [pc EXCEPT ![t] = "wait"]
  /\ UNCHANGED <<postVars, apc, stopVars, invokes>>

\* The alertable wait is interrupted (WAIT_IO_COMPLETION): leave the loop,
\* run uninit_handler_().  With packets queued as well Windows may do either.
WaitInterrupted(t) ==
  /\ pc[t] = "wait"
  /\ apc[t]
  /\ apc' = [apc EXCEPT ![t] = FALSE]
  /\ pc' = [pc EXCEPT ![t] = "leaving"]
  /\ UNCHANGED <<postVars, batch, stopVars, histVars>>

\* _thread_io() returns.
ExitThread(t) ==
  /\ pc[t] = "leaving"
  /\ pc' = [pc EXCEPT ![t] = "exited"]
  /\ UNCHANGED <<postVars, batch, apc, stopVars, histVars>>

Worker(t) ==
  \/ StartThread(t) \/ GetStatusEx(t)
  \/ CallBegin(t) \/ CallEnd(t) \/ CallThrow(t)
  \/ WaitInterrupted(t) \/ ExitThread(t)

-----------------------------------------------------------------------------
(* stop() and the destructor, called by a thread that is not a worker      *)

\* stop() is entered.
StopBegin ==
  /\ stopPc = "idle"
  /\ stopPc' = "apc"
  /\ UNCHANGED <<postVars, workVars, stopAt, histVars>>

\* Mutant: only a thread that is waiting right now is woken.
QueueApcWaiting ==
  /\ stopPc = "apc"
  /\ stopAt \in Threads
  /\ apc' = [apc EXCEPT ![stopAt] = (pc[stopAt] = "wait")]
  /\ stopAt' = stopAt + 1
  /\ UNCHANGED <<postVars, batch, pc, stopPc, histVars>>

\* First for_each: QueueUserAPC to one thread after the other.
QueueApc ==
  /\ stopPc = "apc"
  /\ stopAt \in Threads
  /\ apc' = [apc EXCEPT ![stopAt] = TRUE]
  /\ stopAt' = stopAt + 1
  /\ UNCHANGED <<postVars, batch, pc, stopPc, histVars>>

\* Mutant: the second for_each does not start at the first thread.
ApcsQueuedNoRewind ==
  /\ stopPc = "apc"
  /\ stopAt \notin Threads
  /\ stopPc' = "join"
  /\ UNCHANGED <<postVars, workVars, stopAt, histVars>>

\* The second for_each starts over at the first thread.
ApcsQueued ==
  /\ stopPc = "apc"
  /\ stopAt \notin Threads
  /\ stopPc' = "join"
  /\ stopAt' = 1
  /\ UNCHANGED <<postVars, workVars, histVars>>

\* Second for_each: join() blocks until the thread has exited.
Join ==
  /\ stopPc = "join"
  /\ stopAt \in Threads
  /\ pc[stopAt] = "exited"
  /\ stopAt' = stopAt + 1
  /\ UNCHANGED <<postVars, workVars, stopPc, histVars>>

\* threads_.clear() and return.
StopReturn ==
  /\ stopPc = "join"
  /\ stopAt \notin Threads
  /\ stopPc' = "stopped"
  /\ UNCHANGED <<postVars, workVars, stopAt, histVars>>

\* ~impl: its own stop() finds threads_ empty, then the port is closed.  The
\* object may only be destroyed once no post() on it is under way.
Destroy ==
  /\ stopPc = "stopped"
  /\ \A c \in Callbacks : poster[c] \notin {"made", "posted"}
  /\ stopPc' = "destroyed"
  /\ portOpen' = FALSE
  /\ UNCHANGED <<poster, port, workVars, stopAt, histVars>>

Stopper ==
  StopBegin \/ QueueApc \/ ApcsQueued \/ Join \/ StopReturn \/ Destroy

Next ==
  \/ \E c \in Callbacks :
       MakeCallback(c) \/ PostStatus(c) \/ PostStatusFails(c) \/ Release(c)
  \/ \E t \in Threads : Worker(t)
  \/ Stopper

Spec == Init /\ [][Next]_vars

\* Threads are scheduled and handlers return (or throw); once stop() was
\* called its thread keeps running.  Nobody has to post or to call stop().
StopRunning == QueueApc \/ ApcsQueued \/ Join \/ StopReturn

Fairness ==
  /\ \A t \in Threads : WF_vars(Worker(t))
  /\ WF_vars(StopRunning)

FairSpec == Spec /\ Fairness

-----------------------------------------------------------------------------
(* Properties                                                              *)

\* The value domains of the variables: every process at a step of its code,
\* and stop() at an index of threads_ or just past it.
TypeOK ==
  /\ poster \in [Callbacks -> {"none", "made", "posted", "released", "failed"}]
  /\ port \in Seq(Callbacks)
  /\ portOpen \in BOOLEAN
  /\ batch \in [Threads -> Seq(Callbacks)]
  /\ pc \in [Threads -> {"start", "wait", "call", "inside", "leaving", "exited"}]
  /\ apc \in [Threads -> BOOLEAN]
  /\ stopPc \in {"idle", "apc", "join", "stopped", "destroyed"}
  /\ stopAt \in 1..(NumThreads + 1)
  /\ invokes \in [Callbacks -> Nat]
  /\ frees \in [Callbacks -> Nat]
  /\ lost \subseteq Callbacks
  /\ throws \in Nat

\* Where a packet of the callback can still be.
InPort(c) == c \in Range(port)
InBatch(c) == \E t \in Threads : c \in Range(batch[t])

\* Ownership of a callback object (the release() in post(), the unique_ptr in
\* call()): it is deallocated at most once, its handler is entered at most
\* once, and while any packet or batch entry points at it it is not freed.
OwnedOnce ==
  \A c \in Callbacks :
    /\ frees[c] <= 1
    /\ invokes[c] <= 1
    /\ InPort(c) \/ InBatch(c) => frees[c] = 0

\* No accepted callback disappears silently: it is queued, or in a worker's
\* batch, or was called and freed, or an exception of another handler of
\* its batch discarded it.
Accounted ==
  \A c \in Callbacks :
    poster[c] \in {"posted", "released"} =>
      \/ InPort(c) \/ InBatch(c) \/ c \in lost
      \/ invokes[c] = 1 /\ frees[c] = 1

\* Through every path of post() and call() a callback object has one owner and
\* none disappears.
Ownership == OwnedOnce /\ Accounted

\* A handler's exception costs at most the rest of its own batch (the catch
\* clauses of _thread_io stand outside the loop over the entries).
LossBounded == Cardinality(lost) <= (Batch - 1) * throws

\* Workers leave only between batches, so stop() never abandons an entry that
\* was already taken from the port, and the port outlives the workers: one that
\* waited on a closed port would run its stale entries again (ret_number is
\* not reset).
OrderlyShutdown ==
  /\ \A t \in Threads : pc[t] \in {"leaving", "exited"} => batch[t] = <<>>
  /\ ~portOpen => \A t \in Threads : pc[t] = "exited"

\* Once stop() has returned no handler is running and none is ever entered,
\* whatever is still queued or posted later.
QuietAfterStop ==
  [][(stopPc \in {"stopped", "destroyed"}) =>
       /\ invokes' = invokes
       /\ \A t \in Threads : pc[t] # "inside"]_vars

\* A callback the port accepted is called, unless a handler of its batch
\* throws or stop() is called.
Delivered ==
  \A c \in Callbacks :
    poster[c] = "posted" ~> (invokes[c] = 1 \/ c \in lost \/ stopPc # "idle")

\* stop() returns, however the workers were doing when it was called.
StopReturns == stopPc = "apc" ~> stopPc = "stopped"

\* The promise to the caller, as an abstract specification.
StatusOf(c) ==
  IF poster[c] \in {"none", "made"} THEN "new"
  ELSE IF poster[c] = "failed" THEN "refused"
  ELSE IF invokes[c] > 0 THEN "called"
  ELSE IF c \in lost THEN "lost"
  ELSE "accepted"

Delivery == INSTANCE CallbackDelivery
  WITH status <- [c \in Callbacks |-> StatusOf(c)],
       stopped <- stopPc \in {"stopped", "destroyed"}

\* Every step of workers, posters and stop() is a step of the abstract
\* delivery service, or invisible to it.
ImplementsDelivery == Delivery!AbsSpec
=============================================================================
