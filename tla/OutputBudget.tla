---------------------------- MODULE OutputBudget ----------------------------
(***************************************************************************)
(* What the shared output budget of a command step promises its two        *)
(* readers: bytes are retained in one indivisible step, the retained total *)
(* never passes the limit, and the budget is flagged as exceeded in the    *)
(* very step that turns bytes away.  CommandRunner implements this with an  *)
(* atomic counter, a compare-and-exchange loop and a separate flag store.   *)
(***************************************************************************)
EXTENDS Integers

CONSTANTS Limit,        \* CommandPolicy::max_output_bytes
          MaxOffer      \* most bytes a reader offers at once

VARIABLES retained,     \* bytes granted so far over all streams
          exceeded      \* some byte has been turned away

vars == <<retained, exceeded>>

Init ==
    /\ retained = 0
    /\ exceeded = FALSE

(* A reader offers n bytes and keeps as many of them as the budget allows. *)
Offer(n) ==
    LET room == Limit - retained
        kept == IF n <= room THEN n ELSE room
    IN /\ retained' = retained + kept
       /\ exceeded' = (exceeded \/ kept < n)

Next == \E n \in 1..MaxOffer : Offer(n)

Spec == Init /\ [][Next]_vars
=============================================================================
