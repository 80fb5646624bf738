--------------------------- MODULE MCRunScheduler ---------------------------
(***************************************************************************)
(* TLC instance of RunScheduler: three documents and up to two threads, so  *)
(* that threads overtake each other, wait for documents, and meet at the    *)
(* artifact file.                                                           *)
(***************************************************************************)
EXTENDS RunScheduler
=============================================================================
