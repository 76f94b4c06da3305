----------------------------- MODULE MCTaskPool -----------------------------
(***************************************************************************)
(* TaskPool for TLC.  Three workers wait while the signal() calls of a     *)
(* task and of the stopping thread overlap, and the task can be pushed     *)
(* between the empty tasks of shutdown().                                  *)
(***************************************************************************)
EXTENDS TaskPool, TLC
=============================================================================
