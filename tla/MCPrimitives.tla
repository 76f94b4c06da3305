---------------------------- MODULE MCPrimitives ----------------------------
(***************************************************************************)
(* What is built directly on objects of the system, for TLC: a run is      *)
(* about a condition and its lock, a wrapper of the system's thread pool,  *)
(* or sockets and files.  The ones it is not about stay as they were       *)
(* constructed.  Two sockets and a file share two handle values, so that a *)
(* value is given out again while its last owner still has it.             *)
(***************************************************************************)
EXTENDS Conditions, SystemPool, OverlappedIo, TLC

VARIABLE focus   \* "condition", "system" or "handles"

MCInit ==
  /\ focus \in {"condition", "system", "handles"}
  /\ Init /\ SystemInit /\ HandlesInit
  /\ focus # "condition" => class = "semaphore" /\ lock = "cs"
  /\ focus # "system" => wrapper = "work"

MCNext ==
  \/ focus = "condition" /\ Next /\ UNCHANGED <<focus, systemVars, handleVars>>
  \/ focus = "system" /\ SystemNext /\ UNCHANGED <<focus, vars, handleVars>>
  \/ focus = "handles" /\ HandlesNext /\ UNCHANGED <<focus, vars, systemVars>>

MCSpec == MCInit /\ [][MCNext]_<<focus, vars, systemVars, handleVars>>

\* Sockets are interchangeable, and so are handle values.
HandlesSymmetry == Permutations(Sockets) \cup Permutations(Values)
=============================================================================
