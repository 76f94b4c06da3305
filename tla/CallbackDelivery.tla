-------------------------- MODULE CallbackDelivery --------------------------
(***************************************************************************)
(* What the dispatcher promises to whoever hands it a callback, without    *)
(* queues, batches or threads: every callback is accepted or refused; an   *)
(* accepted one is called at most once, or is lost; once the dispatcher    *)
(* has stopped nothing is called any more.                                 *)
(***************************************************************************)
CONSTANT Callbacks     \* the callback objects, one per call of post()

VARIABLES
  status,              \* what happened to each callback so far
  stopped              \* stop() has returned

absVars == <<status, stopped>>

Statuses == {"new", "refused", "accepted", "called", "lost"}

AbsInit ==
  /\ status = [c \in Callbacks |-> "new"]
  /\ stopped = FALSE

Accept(c) ==
  /\ status[c] = "new"
  /\ status' = [status EXCEPT ![c] = "accepted"]
  /\ UNCHANGED stopped

\* post() throws and takes the callback back.
Refuse(c) ==
  /\ status[c] = "new"
  /\ status' = [status EXCEPT ![c] = "refused"]
  /\ UNCHANGED stopped

Deliver(c) ==
  /\ ~stopped
  /\ status[c] = "accepted"
  /\ status' = [status EXCEPT ![c] = "called"]
  /\ UNCHANGED stopped

\* Several callbacks can be lost at one step, but only callbacks that were
\* accepted and not yet called.
Lose(S) ==
  /\ ~stopped
  /\ \A c \in S : status[c] = "accepted"
  /\ status' = [c \in Callbacks |-> IF c \in S THEN "lost" ELSE status[c]]
  /\ UNCHANGED stopped

Stop ==
  /\ stopped' = TRUE
  /\ UNCHANGED status

AbsNext ==
  \/ \E c \in Callbacks : Accept(c) \/ Refuse(c) \/ Deliver(c)
  \/ \E S \in SUBSET Callbacks : Lose(S)
  \/ Stop

AbsSpec == AbsInit /\ [][AbsNext]_absVars
=============================================================================
