--------------------------- MODULE MCCommandRunner ---------------------------
(***************************************************************************)
(* TLC instance of CommandRunner.  A limit of two bytes and up to two bytes *)
(* per stream let one reader fill the budget, both meet at it, and the      *)
(* output fit it exactly.                                                   *)
(***************************************************************************)
EXTENDS CommandRunner
=============================================================================
