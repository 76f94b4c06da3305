----------------------------- MODULE MCAsyncIo -----------------------------
(***************************************************************************)
(* What runs in threads of its own, for TLC: a run is about a composed     *)
(* transfer, transfers of a file, the directory monitor, a client or a     *)
(* thread object.  The others stay as they were constructed; a transfer    *)
(* the run is not about could not be started.                              *)
(***************************************************************************)
EXTENDS ComposedTransfer, FileTransfer, Client, FileMonitor, ThreadObject

VARIABLE focus   \* "transfer", "file", "monitor", "client" or "thread"

TransferRests == Fresh /\ kind = "read" /\ total = 0 /\ least = 0 /\ pc = "refused"

FileRests ==
  /\ FileFresh
  /\ ~forOverlapped /\ len = 0 /\ \A c \in Callers : access[c] = "read"
  /\ \A c \in Callers : at[c] = 0 /\ length[c] = 1 /\ wanted[c] = 0
  /\ stage = [c \in Callers |-> "thrown"]

MCInit ==
  /\ focus \in {"transfer", "file", "monitor", "client", "thread"}
  /\ IF focus = "transfer" THEN Init ELSE TransferRests
  /\ IF focus = "file" THEN FileInit ELSE FileRests
  /\ ClientInit /\ MonitorInit /\ ThreadInit
  /\ focus # "monitor" => ~isOpen
  /\ focus # "thread" => threadKind = "plain"

MCNext ==
  \/ /\ focus = "transfer" /\ Next
     /\ UNCHANGED <<focus, fileVars, clientVars, monitorVars, threadVars>>
  \/ /\ focus = "file" /\ FileNext
     /\ UNCHANGED <<focus, vars, clientVars, monitorVars, threadVars>>
  \/ /\ focus = "client" /\ ClientNext
     /\ UNCHANGED <<focus, vars, fileVars, monitorVars, threadVars>>
  \/ /\ focus = "monitor" /\ MonitorNext
     /\ UNCHANGED <<focus, vars, fileVars, clientVars, threadVars>>
  \/ /\ focus = "thread" /\ ThreadNext
     /\ UNCHANGED <<focus, vars, fileVars, clientVars, monitorVars>>

\* Fairness is assumed of the transfers and of the thread object; it asks
\* nothing of those that rest.
MCSpec ==
  /\ MCInit
  /\ [][MCNext]_<<focus, vars, fileVars, clientVars, monitorVars, threadVars>>
  /\ WF_vars(Next) /\ FileFairness /\ Fairness
=============================================================================
