---------------------------- MODULE RetryContract ----------------------------
(***************************************************************************)
(* What --retry promises of a transfer, whatever client sends it: at most   *)
(* one attempt more than the number of retries; another attempt only after  *)
(* one that failed or whose response is worth a retry; what the caller gets *)
(* is how the last attempt ended, and one worth a retry only when there is  *)
(* none left or retrying was cut off (the caller cancelled, a time limit    *)
(* passed).  A plan may be refused before anything is sent, and a transfer  *)
(* that is cut off may end with an error whatever came of its last attempt. *)
(***************************************************************************)
EXTENDS Integers

CONSTANT MaxRetries

VARIABLES retries,      \* --retry of the plan
          cutoff,       \* retrying was cut off
          tries,        \* attempts made
          last,         \* the attempt at hand: "none", "open", or how it ended
          outcome       \* what the caller got: "none" while it waits

vars == <<retries, cutoff, tries, last, outcome>>

Ends == {"final", "retryable", "error"}

Init ==
    /\ retries \in 0..MaxRetries
    /\ cutoff = FALSE /\ tries = 0 /\ last = "none" /\ outcome = "none"

Try ==
    /\ outcome = "none" /\ last = "none" /\ tries <= retries
    /\ tries' = tries + 1 /\ last' = "open"
    /\ UNCHANGED <<retries, cutoff, outcome>>

End(how) ==
    /\ last = "open" /\ last' = how
    /\ UNCHANGED <<retries, cutoff, tries, outcome>>

Again ==
    /\ last \in {"retryable", "error"} /\ tries <= retries
    /\ last' = "none"
    /\ UNCHANGED <<retries, cutoff, tries, outcome>>

CutOff ==
    /\ cutoff' = TRUE
    /\ UNCHANGED <<retries, tries, last, outcome>>

Exhausted == tries = retries + 1 \/ cutoff

Return(how) ==
    /\ outcome = "none"
    /\ \/ how = last /\ (how = "final" \/ Exhausted)
       \/ how = "error" /\ (tries = 0 \/ cutoff)
    /\ outcome' = how /\ last' = "none"
    /\ UNCHANGED <<retries, cutoff, tries>>

Next == Try \/ Again \/ CutOff \/ \E how \in Ends : End(how) \/ Return(how)

Spec == Init /\ [][Next]_vars
=============================================================================
