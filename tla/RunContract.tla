----------------------------- MODULE RunContract -----------------------------
(***************************************************************************)
(* What `mdok test` promises about a set of documents, whatever schedule it *)
(* uses: a document is processed at most once, and the final report lists   *)
(* processed documents in input order, either all of them or, when the run  *)
(* stops at the first failure, the ones up to and including it.             *)
(***************************************************************************)
EXTENDS Integers, Sequences

CONSTANTS Count,        \* number of documents
          Reports,      \* possible document reports
          None,         \* not processed
          Failing(_)    \* a document report is a failure

VARIABLES result,       \* document -> its report or None
          report        \* the final report, or None

vars == <<result, report>>

Init ==
    /\ result = [d \in 1..Count |-> None]
    /\ report = None

Complete(d, r) ==
    /\ report = None
    /\ result[d] = None
    /\ result' = [result EXCEPT ![d] = r]
    /\ UNCHANGED report

(* The report covers documents 1..n: all, or up to the first failure.       *)
Assemble(n) ==
    /\ report = None
    /\ \A d \in 1..n : result[d] # None
    /\ n < Count => n > 0 /\ Failing(result[n])
    /\ report' = [d \in 1..n |-> result[d]]
    /\ UNCHANGED result

Next ==
    \/ \E d \in 1..Count, r \in Reports : Complete(d, r)
    \/ \E n \in 0..Count : Assemble(n)

Spec == Init /\ [][Next]_vars
=============================================================================
