---------------------------- MODULE TimerService ----------------------------
(***************************************************************************)
(* timer_service_t (async_io/timer/impl/timer_service.hpp): client threads *)
(* register, arm and erase waitable timers in a map under a mutex; the     *)
(* service thread waits on its own copy of their handles, refreshed when   *)
(* the update event is set, and posts the callback of the timer that       *)
(* fired.                                                                  *)
(*                                                                         *)
(* A timer object is one basic_timer_t with its kernel timer; the id of    *)
(* the map is the value of the kernel handle, which Windows reuses once it *)
(* is closed.  _Copy fills the handle array from a std::map, so the array  *)
(* is the update event followed by an ascending list without repetition:   *)
(* `handles` is its set and Index gives the position.                      *)
(***************************************************************************)
EXTENDS Integers, FiniteSets

CONSTANTS
  Timers,        \* timer objects, each registered at most once
  Periodic,      \* those created with a period
  Handles,       \* values a handle can have
  MaxWait,       \* MAXIMUM_WAIT_OBJECTS
  MaxTicks,      \* bound: how often a periodic timer fires
  Nothing        \* no timer

ASSUME ServiceAssumption ==
  /\ IsFiniteSet(Timers) /\ Periodic \subseteq Timers
  /\ Handles \subseteq Nat \ {0} /\ IsFiniteSet(Handles)
  /\ MaxWait \in Nat \ {0}
  /\ MaxTicks \in Nat
  /\ Nothing \notin Timers

VARIABLES
  registered,    \* timers_: the set of registered timers ...
  handleOf,      \* ... and the id each of them has (or had, or 0)
  client,        \* where the owner of each timer stands
  armed,         \* kernel timers that are set
  signalled,     \* kernel timers in the signalled state
  ticks,         \* how often each timer has fired
  update,        \* update_ is set
  apc,           \* an APC is queued to the service thread
  stopPc,        \* the thread that destroys the service
  pc,            \* the service thread in _ThreadCallback
  handles,       \* its copy of the ids
  watched,       \* the kernel timers it is waiting on
  res,           \* the id at the index that the wait returned
  callback,      \* the timer whose handler it has copied, or Nothing
  posts,         \* callbacks posted, per timer (history)
  late,          \* callbacks posted after erase_timer() returned (history)
  restarted      \* ticks wiped out by setting the timer again (history)

mapVars == <<registered, handleOf, client>>
kernelVars == <<armed, signalled, ticks>>
stopVars == <<apc, stopPc>>
loopVars == <<handles, watched, res, callback>>
histVars == <<posts, late, restarted>>
vars == <<registered, handleOf, client, armed, signalled, ticks, update, apc,
          stopPc, pc, handles, watched, res, callback, posts, late, restarted>>

\* The ids in the map, and the timer an id stands for.
Ids == {handleOf[t] : t \in registered}
TimerAt(h) == {t \in registered : handleOf[t] = h}

Init ==
  /\ registered = {}
  /\ handleOf = [t \in Timers |-> 0]
  /\ client = [t \in Timers |-> "new"]
  /\ armed = {}
  /\ signalled = {}
  /\ ticks = [t \in Timers |-> 0]
  /\ update = FALSE
  /\ apc = FALSE
  /\ stopPc = "running"
  /\ pc = "loop"
  /\ handles = {}
  /\ watched = {}
  /\ res = 0
  /\ callback = Nothing
  /\ posts = [t \in Timers |-> 0]
  /\ late = [t \in Timers |-> 0]
  /\ restarted = [t \in Timers |-> 0]

-----------------------------------------------------------------------------
(* Clients                                                                 *)

\* add_timer: a kernel timer is created (it gets a handle value that is not in
\* use) and inserted under the lock.
AddTimer(t, h) ==
  /\ client[t] = "new" /\ stopPc # "down"
  /\ h \notin Ids
  /\ Cardinality(registered) <= MaxWait
  /\ registered' = registered \cup {t}
  /\ handleOf' = [handleOf EXCEPT ![t] = h]
  /\ client' = [client EXCEPT ![t] = "adding"]
  /\ UNCHANGED <<kernelVars, update, stopVars, pc, loopVars, histVars>>

\* add_timer throws out_of_range; the new kernel timer is destroyed.
AddThrows(t) ==
  /\ client[t] = "new" /\ stopPc # "down"
  /\ Cardinality(registered) > MaxWait
  /\ client' = [client EXCEPT ![t] = "refused"]
  /\ UNCHANGED <<registered, handleOf, kernelVars, update, stopVars, pc, loopVars, histVars>>

\* async_wait: SetWaitableTimer under the lock, for the first time or again;
\* it clears the signalled state.
AsyncWait(t) ==
  /\ client[t] = "added" /\ stopPc # "down"
  /\ ticks[t] < MaxTicks
  /\ armed' = armed \cup {t}
  /\ signalled' = signalled \ {t}
  /\ restarted' = [restarted EXCEPT ![t] = IF t \in signalled THEN @ + 1 ELSE @]
  /\ UNCHANGED <<mapVars, ticks, update, stopVars, pc, loopVars, posts, late>>

\* erase_timer: cancel, erase and close the handle under the lock.  A wait in
\* progress keeps the kernel timer, in the state it is in.
EraseTimer(t) ==
  /\ client[t] = "added" /\ stopPc # "down"
  /\ registered' = registered \ {t}
  /\ armed' = armed \ {t}
  /\ client' = [client EXCEPT ![t] = "erasing"]
  /\ UNCHANGED <<handleOf, signalled, ticks, update, stopVars, pc, loopVars, histVars>>

\* Mutant: add_timer does not set the event.
SetEventOnEraseOnly(t) ==
  /\ client[t] \in {"adding", "erasing"}
  /\ update' = (update \/ client[t] = "erasing")
  /\ client' = [client EXCEPT ![t] = IF @ = "adding" THEN "added" ELSE "gone"]
  /\ UNCHANGED <<registered, handleOf, kernelVars, stopVars, pc, loopVars, histVars>>

\* update_.set_event() at the end of add_timer and erase_timer.
SetEvent(t) ==
  /\ client[t] \in {"adding", "erasing"}
  /\ update' = TRUE
  /\ client' = [client EXCEPT ![t] = IF @ = "adding" THEN "added" ELSE "gone"]
  /\ UNCHANGED <<registered, handleOf, kernelVars, stopVars, pc, loopVars, histVars>>

\* The kernel: a timer that is set fires; without a period only once.
Tick(t) ==
  /\ t \in armed
  /\ ticks[t] < MaxTicks
  /\ ticks' = [ticks EXCEPT ![t] = @ + 1]
  /\ signalled' = signalled \cup {t}
  /\ armed' = IF t \in Periodic THEN armed ELSE armed \ {t}
  /\ UNCHANGED <<mapVars, update, stopVars, pc, loopVars, histVars>>

\* ~timer_service_t: stop() queues the APC ...
Stop ==
  /\ stopPc = "running"
  /\ stopPc' = "stopping"
  /\ apc' = TRUE
  /\ UNCHANGED <<mapVars, kernelVars, update, pc, loopVars, histVars>>

\* ... and join() waits for the service thread.
Join ==
  /\ stopPc = "stopping"
  /\ pc = "exited"
  /\ stopPc' = "down"
  /\ UNCHANGED <<mapVars, kernelVars, update, apc, pc, loopVars, histVars>>

-----------------------------------------------------------------------------
(* _ThreadCallback                                                         *)

\* The position of an id in the handle array; update_ is at 0.
Index(h) == Cardinality({x \in handles : x <= h})

\* WaitForMultipleObjectsEx refuses too many handles or a closed one ...
Waitable == handles \subseteq Ids /\ Cardinality(handles) + 1 <= MaxWait

\* Mutant: the copy is not refreshed.
WaitFailsNoCopy ==
  /\ pc = "loop"
  /\ ~Waitable
  /\ UNCHANGED vars

WaitFails ==
  /\ pc = "loop"
  /\ ~Waitable
  /\ pc' = "copy"
  /\ UNCHANGED <<mapVars, kernelVars, update, stopVars, loopVars, histVars>>

\* ... or waits on the kernel objects that the handles denote now.
WaitBegins ==
  /\ pc = "loop"
  /\ Waitable
  /\ watched' = {t \in registered : handleOf[t] \in handles}
  /\ pc' = "waiting"
  /\ UNCHANGED <<mapVars, kernelVars, update, stopVars, handles, res, callback, histVars>>

\* The wait ends with the update event, which is at the lowest index ...
WaitUpdate ==
  /\ pc = "waiting"
  /\ update
  /\ update' = FALSE
  /\ watched' = {}
  /\ pc' = "copy"
  /\ UNCHANGED <<mapVars, kernelVars, stopVars, handles, res, callback, histVars>>

\* Mutant: the timer was created with manual reset.
WaitTimerManualReset(t) ==
  /\ pc = "waiting"
  /\ ~update
  /\ t \in watched \cap signalled
  /\ posts[t] <= MaxTicks
  /\ res' = handleOf[t]
  /\ watched' = {}
  /\ pc' = "check"
  /\ UNCHANGED <<mapVars, kernelVars, update, stopVars, handles, callback, histVars>>

\* ... or with the signalled timer of the lowest index; auto-reset ...
WaitTimer(t) ==
  /\ pc = "waiting"
  /\ ~update
  /\ t \in watched \cap signalled
  /\ \A u \in watched \cap signalled : handleOf[t] <= handleOf[u]
  /\ signalled' = signalled \ {t}
  /\ res' = handleOf[t]
  /\ watched' = {}
  /\ pc' = "check"
  /\ UNCHANGED <<mapVars, armed, ticks, update, stopVars, handles, callback, histVars>>

\* Mutant: the loop goes on.
WaitApcIgnored ==
  /\ pc = "waiting"
  /\ apc
  /\ apc' = FALSE
  /\ watched' = {}
  /\ pc' = "loop"
  /\ UNCHANGED <<mapVars, kernelVars, update, stopPc, handles, res, callback, histVars>>

\* ... or with the APC of stop(): the loop is left.
WaitApc ==
  /\ pc = "waiting"
  /\ apc
  /\ apc' = FALSE
  /\ watched' = {}
  /\ pc' = "exited"
  /\ UNCHANGED <<mapVars, kernelVars, update, stopPc, handles, res, callback, histVars>>

\* _Copy: the ids of the map, under the lock.
Copy ==
  /\ pc = "copy"
  /\ handles' = Ids
  /\ pc' = "loop"
  /\ UNCHANGED <<mapVars, kernelVars, update, stopVars, watched, res, callback, histVars>>

\* Mutant: the bound is off by one.
CheckSizeOffByOne ==
  /\ pc = "check"
  /\ pc' = IF Index(res) >= Cardinality(registered) THEN "loop" ELSE "find"
  /\ UNCHANGED <<mapVars, kernelVars, update, stopVars, loopVars, histVars>>

\* The index is compared with the size of the map, without the lock.
CheckSize ==
  /\ pc = "check"
  /\ pc' = IF Index(res) > Cardinality(registered) THEN "loop" ELSE "find"
  /\ UNCHANGED <<mapVars, kernelVars, update, stopVars, loopVars, histVars>>

\* Under the lock the id is looked up and its handler copied.
Find ==
  /\ pc = "find"
  /\ IF TimerAt(res) = {}
       THEN pc' = "loop" /\ callback' = callback
       ELSE pc' = "post" /\ callback' \in TimerAt(res)
  /\ UNCHANGED <<mapVars, kernelVars, update, stopVars, handles, watched, res, histVars>>

\* After unlock() the copy is handed to io_.post().
Post ==
  /\ pc = "post"
  /\ posts' = [posts EXCEPT ![callback] = @ + 1]
  /\ late' = [late EXCEPT ![callback] = IF client[callback] = "gone" THEN @ + 1 ELSE @]
  /\ callback' = Nothing
  /\ pc' = "loop"
  /\ UNCHANGED <<mapVars, kernelVars, update, stopVars, handles, watched, res, restarted>>

Service ==
  \/ WaitFails \/ WaitBegins \/ WaitUpdate \/ WaitApc
  \/ \E t \in Timers : WaitTimer(t)
  \/ Copy \/ CheckSize \/ Find \/ Post

Next ==
  \/ \E t \in Timers :
       \/ \E h \in Handles : AddTimer(t, h)
       \/ AddThrows(t) \/ AsyncWait(t) \/ EraseTimer(t) \/ SetEvent(t) \/ Tick(t)
  \/ Stop \/ Join
  \/ Service

Spec == Init /\ [][Next]_vars

\* The service thread and clients inside a call are scheduled.  Timers need
\* not fire, and nobody has to call anything.
Fairness ==
  /\ WF_vars(Service)
  /\ WF_vars(Join)
  /\ \A t \in Timers : WF_vars(SetEvent(t))

FairSpec == Spec /\ Fairness

-----------------------------------------------------------------------------
(* Properties                                                              *)

\* The value domains of the variables.
TypeOK ==
  /\ registered \subseteq Timers
  /\ handleOf \in [Timers -> Handles \cup {0}]
  /\ client \in [Timers -> {"new", "adding", "added", "erasing", "gone", "refused"}]
  /\ armed \subseteq Timers /\ signalled \subseteq Timers
  /\ ticks \in [Timers -> 0..MaxTicks]
  /\ update \in BOOLEAN /\ apc \in BOOLEAN
  /\ stopPc \in {"running", "stopping", "down"}
  /\ pc \in {"loop", "waiting", "copy", "check", "find", "post", "exited"}
  /\ handles \subseteq Handles
  /\ watched \subseteq Timers
  /\ res \in Handles \cup {0}
  /\ callback \in Timers \cup {Nothing}
  /\ posts \in [Timers -> Nat] /\ late \in [Timers -> Nat]
  /\ restarted \in [Timers -> Nat]

\* No registered timer is forgotten: the service thread waits on it (or will
\* when it waits next), or it is about to take a fresh copy of the map: the
\* update event is set, or the add_timer() call is about to set it.
NoTimerForgotten ==
  \A t \in registered :
    \/ IF pc = "waiting" THEN t \in watched ELSE handleOf[t] \in handles
    \/ update \/ pc \in {"copy", "exited"}
    \/ client[t] = "adding"

\* The comparison with timers_.size(), made without the lock on an index into
\* a stale copy, throws a tick away only if a timer has been erased since the
\* copy was made.
TickDropped == pc = "check" /\ pc' = "loop"
DropNeedsErase == [][TickDropped => ~(handles \subseteq Ids)]_vars

\* After erase_timer() has returned at most one more callback of the timer is
\* posted: the one whose handler was copied before.
OneLatePost == \A t \in Timers : late[t] <= 1

\* A callback of a timer that has not fired is posted only if the handle value
\* was reused: the tick was one of an erased timer with the same id.
GhostNeedsReuse ==
  \A t \in Timers : posts[t] > ticks[t] =>
    \E u \in Timers \ {t} :
      /\ client[u] \in {"erasing", "gone"}
      /\ handleOf[u] = handleOf[t]
      /\ ticks[u] > posts[u]

\* Every callback the service posts answers a tick, but for the one already
\* under way in erase_timer() and for one of a reused handle value.
PostsJustified == OneLatePost /\ GhostNeedsReuse

\* There are not more timers than one wait can take.  add_timer() does not see
\* to it: it tests the size of the map before it inserts and with >.
Fits == Cardinality(registered) + 1 <= MaxWait

\* Ticks of t that were answered, or whose answer is under way, or that were
\* wiped out by setting the timer again.
Answered(t) ==
  posts[t] + restarted[t] +
    (IF callback = t \/ (pc \in {"check", "find"} /\ res = handleOf[t]) THEN 1 ELSE 0)

\* The service thread is about to compare an index into a stale copy.
StaleIndex == pc = "check" /\ ~(handles \subseteq Ids)

\* Every tick is answered: whenever a timer is signalled a callback of it is
\* posted after those already under way.  The ways out are, tick by tick: its
\* owner sets the timer again or erases it, the service is stopped, some timer
\* was erased since the copy of the handles was made (the index may then be
\* thrown away), or there are too many timers for one wait; when these fit
\* again the tick is owed again.
TickPosted ==
  \A t \in Timers : \A n \in 0..2 * MaxTicks :
    (t \in signalled /\ Answered(t) = n)
      ~> \/ posts[t] + restarted[t] > n
         \/ client[t] \in {"erasing", "gone"} \/ stopPc # "running"
         \/ StaleIndex \/ ~Fits

\* The destructor returns, unless there are too many timers for one wait: then
\* every wait fails, at once and without running the APC.
DestructorReturns == stopPc = "stopping" ~> stopPc = "down" \/ ~Fits

\* When there were too many timers for one wait and enough of them have been
\* erased, the service thread waits again instead of spinning.
WaitsWhenFits == Fits ~> (pc \in {"waiting", "exited"} \/ ~Fits)
=============================================================================
