--------------------------- MODULE MCTimerService ---------------------------
(***************************************************************************)
(* TimerService for TLC.  With more timers than handle values a handle is  *)
(* reused; with MaxWait = 3 two timers and the update event fill a wait;   *)
(* with MaxWait = 1 the first timer is one too many for a wait, and the    *)
(* third one is refused.                                                   *)
(***************************************************************************)
EXTENDS TimerService, TLC
=============================================================================
