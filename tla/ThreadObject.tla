---------------------------- MODULE ThreadObject ----------------------------
(***************************************************************************)
(* A thread object (multi_thread/thread.hpp): thread_t owns the handle;    *)
(* thread_impl_t, thread_implex_t and the message threads start, stop and  *)
(* run it, under the stop policies stop_bool and stop_event, which keep    *)
(* one flag each.                                                          *)
(*                                                                         *)
(* One owner calls the object's methods.  Each start() makes a system      *)
(* thread, numbered in the order of creation; the number stands for its    *)
(* handle and its id.  The handler polls is_aborted(), as the sample loop  *)
(* in the code does, and may return by itself; that of a message thread    *)
(* also waits for messages.  MaxStarts and MaxPosts bound the run.         *)
(***************************************************************************)
EXTENDS Naturals, Sequences

CONSTANTS
  MaxStarts,     \* bound: calls of start()
  MaxPosts       \* bound: messages waiting for a thread

ASSUME ThreadAssumption == MaxStarts \in Nat /\ MaxPosts \in Nat

Ids == 1..MaxStarts
NoThread == 0

VARIABLES
  threadKind,          \* "plain": thread_impl(ex)_t; "msg": msg_impl_t
  alive,         \* the object has not been destroyed
  handle,        \* thread_
  threadId,      \* thread_id_
  suspended,     \* suspended_
  stopped,       \* stopped_, or the state of stop_event_
  autoCleanup,   \* auto_cleanup_
  owner,         \* where the owner stands
  starts,        \* threads made so far
  thr,           \* where each system thread stands
  paused,        \* threads the system holds suspended
  posted,        \* message queue of each thread
  quitSent,      \* threads that were sent WM_QUIT (history)
  detached,      \* handles the owner took with detach()
  attached,      \* thread_ was set by attach() (history)
  abandoned      \* threads given up while they ran (history)

objVars == <<threadKind, autoCleanup>>
flagVars == <<suspended, stopped>>
msgVars == <<posted, quitSent>>
sysVars == <<starts, thr, paused>>
histVars == <<detached, attached, abandoned>>
threadVars == <<threadKind, alive, handle, threadId, suspended, stopped, autoCleanup,
                owner, starts, thr, paused, posted, quitSent, detached, attached,
                abandoned>>

OwnerStates == {"idle", "resume", "wait", "timed", "destroy", "gone"}

\* The constructors: no thread, auto_cleanup_ set.
ThreadInit ==
  /\ threadKind \in {"plain", "msg"}
  /\ alive = TRUE
  /\ handle = NoThread /\ threadId = NoThread
  /\ suspended = FALSE /\ stopped = FALSE
  /\ autoCleanup = TRUE
  /\ owner = "idle"
  /\ starts = 0
  /\ thr = [i \in Ids |-> "none"]
  /\ paused = {}
  /\ posted = [i \in Ids |-> <<>>]
  /\ quitSent = {}
  /\ detached = {} /\ attached = FALSE
  /\ abandoned = {}

Exists(i) == thr[i] \in {"new", "peek", "check", "get"}
Idle == owner = "idle"
HasThread == handle # NoThread

-----------------------------------------------------------------------------
(* start(): clear the flag, create the thread suspended, resume it.        *)
(* Only an assertion, which a release build does not have, keeps create()  *)
(* and attach() from storing over the handle of a thread.                  *)

\* The thread behind the handle is given up, if it runs.
Abandoned == IF HasThread /\ Exists(handle) THEN abandoned \cup {handle} ELSE abandoned

StartCreate ==
  /\ Idle /\ starts < MaxStarts
  /\ stopped' = FALSE
  /\ starts' = starts + 1
  /\ handle' = starts' /\ threadId' = starts'
  /\ attached' = FALSE
  /\ thr' = [thr EXCEPT ![starts'] = "new"]
  /\ owner' = "resume"
  /\ abandoned' = Abandoned
  /\ UNCHANGED <<objVars, alive, suspended, paused, msgVars, detached>>

\* _beginthreadex fails: start() returns false with the flag cleared and no
\* handle.
CreateFails ==
  /\ Idle
  /\ stopped' = FALSE
  /\ handle' = NoThread
  /\ abandoned' = Abandoned
  /\ UNCHANGED <<objVars, alive, threadId, suspended, owner, sysVars,
                 msgVars, detached, attached>>

\* ResumeThread at the end of create().
StartResume ==
  /\ owner = "resume"
  /\ thr' = [thr EXCEPT ![handle] = IF threadKind = "msg" THEN "peek" ELSE "check"]
  /\ owner' = "idle"
  /\ UNCHANGED <<objVars, alive, handle, threadId, flagVars, starts, paused,
                 msgVars, histVars>>

-----------------------------------------------------------------------------
(* suspend() and resume() ask suspended_ whether there is anything to do;  *)
(* the system refuses to suspend a thread that has exited.                 *)

Suspend ==
  /\ Idle /\ HasThread
  /\ ~suspended /\ Exists(handle)
  /\ paused' = paused \cup {handle}
  /\ suspended' = TRUE
  /\ UNCHANGED <<objVars, alive, handle, threadId, stopped, owner, starts, thr,
                 msgVars, histVars>>

\* resume(), alone or in abort().
ResumeStep ==
  /\ paused' = IF suspended THEN paused \ {handle} ELSE paused
  /\ suspended' = FALSE

Resume ==
  /\ Idle /\ HasThread
  /\ ResumeStep
  /\ UNCHANGED <<objVars, alive, handle, threadId, stopped, owner, starts, thr,
                 msgVars, histVars>>

-----------------------------------------------------------------------------
(* Stopping and giving up the thread                                       *)

\* Mutant: abort() leaves a suspended thread suspended.
AbortKeepsSuspended ==
  /\ stopped' = TRUE
  /\ UNCHANGED <<paused, suspended>>

\* abort(): set the flag; a suspended thread is resumed so that it sees it.
Abort ==
  /\ stopped' = TRUE
  /\ ResumeStep

CallAbort ==
  /\ Idle /\ HasThread
  /\ Abort
  /\ UNCHANGED <<objVars, alive, handle, threadId, owner, starts, thr, msgVars,
                 histVars>>

\* stop(): abort(), then wait for the thread, for ever or for a time.
StopBegin ==
  /\ Idle /\ HasThread
  /\ Abort
  /\ owner' \in {"wait", "timed"}
  /\ UNCHANGED <<objVars, alive, handle, threadId, starts, thr, msgVars, histVars>>

\* release() closes the handle; suspended_ stays as it is.
Release ==
  /\ handle' = NoThread /\ threadId' = NoThread
  /\ UNCHANGED <<suspended, detached, attached>>

\* Mutant: stop() does not wait for the thread.
StopReturnAtOnce ==
  /\ owner \in {"wait", "timed", "destroy"}
  /\ Release
  /\ owner' = IF owner = "destroy" THEN "gone" ELSE "idle"
  /\ alive' = (owner # "destroy")
  /\ UNCHANGED <<objVars, stopped, sysVars, msgVars, abandoned>>

\* The wait succeeds and release() follows.  In between thread_implex_t calls
\* terminate(), which the system refuses: the thread has exited.
StopReturn ==
  /\ owner \in {"wait", "timed", "destroy"}
  /\ thr[handle] = "exited"
  /\ Release
  /\ owner' = IF owner = "destroy" THEN "gone" ELSE "idle"
  /\ alive' = (owner # "destroy")
  /\ UNCHANGED <<objVars, stopped, sysVars, msgVars, abandoned>>

\* The wait times out: terminate() is not called, release() is.
StopTimeout ==
  /\ owner = "timed" /\ Exists(handle)
  /\ Release
  /\ abandoned' = Abandoned
  /\ owner' = "idle"
  /\ UNCHANGED <<objVars, alive, stopped, sysVars, msgVars>>

\* A call of release() by itself.
CallRelease ==
  /\ Idle /\ HasThread
  /\ Release
  /\ abandoned' = Abandoned
  /\ UNCHANGED <<objVars, alive, stopped, owner, sysVars, msgVars>>

\* detach() hands the handle over and forgets nothing else.
Detach ==
  /\ Idle /\ HasThread
  /\ handle' = NoThread
  /\ detached' = detached \cup {handle}
  /\ abandoned' = Abandoned
  /\ UNCHANGED <<objVars, alive, threadId, flagVars, owner, sysVars, msgVars, attached>>

\* attach() takes a handle, but not the thread's id or its state.
Attach(i) ==
  /\ Idle /\ i \in detached
  /\ handle' = i
  /\ detached' = detached \ {i}
  /\ attached' = TRUE
  /\ abandoned' = Abandoned \ {i}
  /\ UNCHANGED <<objVars, alive, threadId, flagVars, owner, sysVars, msgVars>>

\* terminate(): the system ends the thread wherever it stands.
Terminate ==
  /\ Idle /\ HasThread /\ Exists(handle)
  /\ thr' = [thr EXCEPT ![handle] = "exited"]
  /\ UNCHANGED <<objVars, alive, handle, threadId, flagVars, owner, starts, paused,
                 msgVars, histVars>>

\* set_auto_clean(b), set_delete_on_exit(!b)
SetAutoClean(b) ==
  /\ Idle
  /\ autoCleanup' = b
  /\ UNCHANGED <<threadKind, alive, handle, threadId, flagVars, owner, sysVars, msgVars,
                 histVars>>

\* ~thread_implex_t calls stop() if auto_cleanup_, which returns at once when
\* there is no thread; ~thread_t releases the handle.
Destroy ==
  /\ Idle
  /\ IF autoCleanup /\ HasThread
       THEN /\ Abort
            /\ owner' = "destroy"
            /\ UNCHANGED <<alive, handle, threadId, detached, attached, abandoned>>
       ELSE /\ Release
            /\ abandoned' = IF autoCleanup THEN abandoned ELSE Abandoned
            /\ owner' = "gone" /\ alive' = FALSE
            /\ UNCHANGED <<stopped, paused>>
  /\ UNCHANGED <<objVars, starts, thr, msgVars>>

\* post_msg(), post_quit_msg(): by the thread's id, and only to a thread that
\* has a message queue.
Post(m) ==
  /\ Idle /\ threadKind = "msg" /\ HasThread
  /\ threadId # NoThread /\ thr[threadId] \in {"check", "get"}
  /\ Len(posted[threadId]) < MaxPosts
  /\ posted' = [posted EXCEPT ![threadId] = Append(@, m)]
  /\ quitSent' = IF m = "quit" THEN quitSent \cup {threadId} ELSE quitSent
  /\ UNCHANGED <<objVars, alive, handle, threadId, flagVars, owner, sysVars, histVars>>

-----------------------------------------------------------------------------
(* The thread                                                              *)

ThreadGoes(i, from, to) ==
  /\ thr[i] = from /\ i \notin paused
  /\ thr' = [thr EXCEPT ![i] = to]
  /\ UNCHANGED <<objVars, alive, handle, threadId, flagVars, owner, starts, paused,
                 quitSent, histVars>>

\* PeekMessage makes the message queue; init_queue().
MakeQueue(i) == ThreadGoes(i, "peek", "check") /\ UNCHANGED posted

\* is_aborted(): a destroyed object can hold anything.
IsAborted == IF alive THEN {stopped} ELSE BOOLEAN

\* The loop ends.  _endthreadex ends the thread, so the `delete' behind it is
\* never reached.
SeeAbort(i) ==
  /\ TRUE \in IsAborted
  /\ ThreadGoes(i, "check", "exited")
  /\ UNCHANGED posted

\* The handler returns before it is asked to.
HandlerReturns(i) ==
  /\ threadKind = "plain"
  /\ ThreadGoes(i, "check", "exited")
  /\ UNCHANGED posted

EnterGetMessage(i) ==
  /\ threadKind = "msg" /\ FALSE \in IsAborted
  /\ ThreadGoes(i, "check", "get")
  /\ UNCHANGED posted

\* GetMessage returns: WM_QUIT ends the loop, another message is processed.
\* While the queue is empty the thread sleeps here and sees no abort.
GotMessage(i) ==
  /\ posted[i] # <<>>
  /\ posted' = [posted EXCEPT ![i] = Tail(@)]
  /\ ThreadGoes(i, "get", IF Head(posted[i]) = "quit" THEN "exited" ELSE "check")

ThreadStep(i) ==
  MakeQueue(i) \/ SeeAbort(i) \/ EnterGetMessage(i) \/ GotMessage(i)

ThreadNext ==
  \/ StartCreate \/ CreateFails \/ StartResume
  \/ Suspend \/ Resume \/ CallAbort
  \/ StopBegin \/ StopReturn \/ StopTimeout
  \/ CallRelease \/ Detach \/ \E i \in Ids : Attach(i)
  \/ Terminate \/ \E b \in BOOLEAN : SetAutoClean(b)
  \/ Destroy
  \/ \E m \in {"quit", "msg"} : Post(m)
  \/ \E i \in Ids : ThreadStep(i) \/ HandlerReturns(i)

ThreadSpec == ThreadInit /\ [][ThreadNext]_threadVars

\* Threads that are not suspended are scheduled, and a call that can go on
\* does.
Fairness ==
  /\ WF_threadVars(StartResume) /\ WF_threadVars(StopReturn)
  /\ \A i \in Ids : WF_threadVars(ThreadStep(i))

-----------------------------------------------------------------------------
(* Properties                                                              *)

\* Every thread that still runs is the one the object refers to, unless its
\* handle was given up by release(), detach(), a destructor without
\* auto_cleanup_, a stop() that timed out, or a start() or attach() that stored
\* over it: stop() does not return normally and a destructor with auto_cleanup_
\* does not finish while the thread runs.
NoOrphan == \A i \in Ids : Exists(i) => handle = i \/ i \in abandoned

\* stop() without a time limit returns, for a suspended thread too, provided
\* that the handle was not attach()ed, so suspended_ tells the truth, and
\* that a message thread got WM_QUIT before: abort() does not wake it.
StopReturns ==
  \A i \in Ids :
    owner \in {"wait", "destroy"} /\ handle = i /\ ~attached
      /\ (threadKind = "msg" => i \in quitSent)
    ~> handle # i
=============================================================================
