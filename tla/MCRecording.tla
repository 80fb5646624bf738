---------------------------- MODULE MCRecording ----------------------------
(***************************************************************************)
(* TLC instance of Recording: two recorders and one replay on one path, and *)
(* a configuration that is edited between two states.                       *)
(***************************************************************************)
EXTENDS Recording
=============================================================================
