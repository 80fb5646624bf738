------------------------------- MODULE MCProbe -------------------------------
(***************************************************************************)
(* TLC instance of Probe: two child requests, so that one is sent while     *)
(* another is executed; two timers, so that one is set by the callback of   *)
(* the other; one promise job queued at a time and one log entry allowed.   *)
(***************************************************************************)
EXTENDS Probe
=============================================================================
