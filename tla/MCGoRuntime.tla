----------------------------- MODULE MCGoRuntime -----------------------------
(***************************************************************************)
(* TLC instance of GoRuntime: two documents of at most four items and three *)
(* steps, so that the slice of steps is moved twice.                        *)
(***************************************************************************)
EXTENDS GoRuntime
=============================================================================
