------------------------------- MODULE Report -------------------------------
(***************************************************************************)
(* crates/mdok-report: the report of a run while it is put together, and    *)
(* the forms it is given out in.                                            *)
(*                                                                         *)
(* Two parts of it are modelled, and a behaviour is about one of them:      *)
(*   "documents"  documents are added, counted in the summary and shown as  *)
(*                JUnit cases;                                              *)
(*   "events"     metadata is kept beside the events, in a vector sorted by *)
(*                sequence that callers may also push to as they like.      *)
(***************************************************************************)
EXTENDS Integers, Sequences, SequencesExt

CONSTANTS MaxDocuments,     \* bound: documents of a report
          MaxSteps,         \* bound: steps of a document
          MaxChecks,        \* bound: checks of a step
          SequenceNumbers,  \* sequence numbers of events
          Notes,            \* metadata that is not empty
          MaxRecords        \* bound: records of the metadata vector

Statuses == {"passed", "failed", "skipped", "planned", "error"}
Failing == {"failed", "error"}

(* What a report says of a document, reduced to statuses and the codes of    *)
(* the error diagnostics: an assertion's, or another one.                    *)
Steps ==
    [status : {"passed", "failed", "skipped"}, errors : SUBSET {"E502", "other"},
     checks : UNION {[1..n -> {"passed", "failed"}] : n \in 0..MaxChecks}]
Documents ==
    [status : Statuses, steps : UNION {[1..n -> Steps] : n \in 0..MaxSteps}, errors : 0..1]

VARIABLES
    part,
    documents, summary,
    event_metadata,     \* records of sequence and metadata
    latest              \* history: the metadata an event has, as a map

docVars == <<documents, summary>>
eventVars == <<event_metadata, latest>>
vars == <<part, docVars, eventVars>>

None == "none"
Init ==
    /\ part \in {"documents", "events"}
    /\ documents = <<>>
    /\ summary = [documents |-> 0, by |-> [s \in Statuses |-> 0], checks |-> 0,
                  checks_failed |-> 0]
    /\ event_metadata = <<>> /\ latest = [s \in SequenceNumbers |-> None]

-----------------------------------------------------------------------------
(* Iterator::sum and Iterator::count.                                        *)
Total(values) ==
    LET total[i \in 0..Len(values)] == IF i = 0 THEN 0 ELSE total[i - 1] + values[i]
    IN  total[Len(values)]
Count(flags) == Total([i \in DOMAIN flags |-> IF flags[i] THEN 1 ELSE 0])

CheckFails(step) == [i \in DOMAIN step.checks |-> step.checks[i] \in Failing]
HasFailedCheck(step) == \E i \in DOMAIN step.checks : step.checks[i] \in Failing
ChecksFailed(d) == Total([i \in DOMAIN d.steps |-> Count(CheckFails(d.steps[i]))])

(* Summary::absorb and Report::add_document.                                 *)
AddDocument(d) ==
    /\ part = "documents" /\ Len(documents) < MaxDocuments
    /\ documents' = Append(documents, d)
    /\ summary' = [documents |-> summary.documents + 1,
                   by |-> [summary.by EXCEPT ![d.status] = @ + 1],
                   checks |-> summary.checks + Total([i \in DOMAIN d.steps |-> Len(d.steps[i].checks)]),
                   checks_failed |-> summary.checks_failed + ChecksFailed(d)]
    /\ UNCHANGED <<part, eventVars>>

HasFailures == summary.by["failed"] > 0 \/ summary.by["error"] > 0 \/ summary.checks_failed > 0

(* Mutant of StepHasExecutionFailure: a step that fails is a failed case.    *)
StepHasFailure(step) == step.status \in Failing

(* A step with failed checks is no failed case of its own, unless something  *)
(* else went wrong as well.                                                  *)
StepHasExecutionFailure(step) ==
    "other" \in step.errors \/ (step.status \in Failing /\ ~HasFailedCheck(step))

(* junit_cases: of each case, whether it fails.                              *)
StepCases(step) == <<StepHasExecutionFailure(step)>> \o CheckFails(step)
StepsCases(steps) ==
    LET cases[i \in 0..Len(steps)] == IF i = 0 THEN <<>> ELSE cases[i - 1] \o StepCases(steps[i])
    IN  cases[Len(steps)]
JunitCases(d) ==
    LET cases == StepsCases(d.steps) \o [i \in 1..d.errors |-> TRUE]
    IN  IF d.status \in Failing /\ ~(\E i \in DOMAIN cases : cases[i])
          THEN Append(cases, TRUE) ELSE cases
Failures(d) == Count(JunitCases(d))

-----------------------------------------------------------------------------
Record(s, m) == [sequence |-> s, metadata |-> m]
EventMetadataIsSorted(records) ==
    \A i \in 1..(Len(records) - 1) : records[i].sequence <= records[i + 1].sequence

(* The sort of the standard library is stable: a record goes behind those    *)
(* before it that are not above it.                                          *)
Inserted(t, r) ==
    LET behind == CHOOSE p \in 1..(Len(t) + 1) :
            /\ \A k \in 1..(p - 1) : t[k].sequence <= r.sequence
            /\ \A k \in p..Len(t) : t[k].sequence > r.sequence
    IN  InsertAt(t, behind, r)
Sorted(records) ==
    LET sorted[i \in 0..Len(records)] ==
            IF i = 0 THEN <<>> ELSE Inserted(sorted[i - 1], records[i])
    IN  sorted[Len(records)]

(* Mutant of Halves: the upper half is taken for an equal sequence.          *)
HalvesUpper(records, sequence, middle) == records[middle + 1].sequence <= sequence

(* event_metadata_position: the binary search, from 0 and length.  What      *)
(* decides for the upper half.                                               *)
Halves(records, sequence, middle) == records[middle + 1].sequence < sequence
Halve(records, sequence, b) ==
    IF b.left >= b.right THEN b
    ELSE LET middle == b.left + (b.right - b.left) \div 2
         IN  IF Halves(records, sequence, middle) THEN [b EXCEPT !.left = middle + 1]
             ELSE [b EXCEPT !.right = middle]
EventMetadataPosition(records, sequence) ==
    LET bounds[i \in 0..Len(records)] ==
            IF i = 0 THEN [left |-> 0, right |-> Len(records)]
            ELSE Halve(records, sequence, bounds[i - 1])
    IN  bounds[Len(records)].left + 1

InOrder(records) == IF EventMetadataIsSorted(records) THEN records ELSE Sorted(records)
IsAt(records, i, sequence) == i \in DOMAIN records /\ records[i].sequence = sequence

(* EventMetadataLookup::get, over the vector or a sorted index of it.        *)
Lookup(records, sequence) ==
    LET ordered == InOrder(records)
        at == EventMetadataPosition(ordered, sequence)
    IN  IF IsAt(ordered, at, sequence) THEN ordered[at].metadata ELSE None

(* All records of a sequence, which stand together, are drained.             *)
Drained(records, at, sequence) ==
    LET end == CHOOSE e \in (at + 1)..(Len(records) + 1) :
            /\ ~IsAt(records, e, sequence)
            /\ \A k \in at..(e - 1) : IsAt(records, k, sequence)
    IN  SubSeq(records, 1, at - 1) \o SubSeq(records, end, Len(records))

(* Report::set_event_metadata; None stands for metadata that is empty.       *)
SetEventMetadata(s, m) ==
    /\ part = "events"
    /\ LET ordered == InOrder(event_metadata)
           at == EventMetadataPosition(ordered, s)
           there == IsAt(ordered, at, s)
       IN event_metadata' =
            IF m = None THEN IF there THEN Drained(ordered, at, s) ELSE ordered
            ELSE IF there THEN [ordered EXCEPT ![at] = Record(s, m)]
            ELSE InsertAt(ordered, at, Record(s, m))
    /\ Len(event_metadata') <= MaxRecords
    /\ latest' = [latest EXCEPT ![s] = m]
    /\ UNCHANGED <<part, docVars>>

(* A caller pushes to the public vector; an event that has metadata already  *)
(* keeps it.                                                                 *)
PushRecord(s, m) ==
    /\ part = "events" /\ Len(event_metadata) < MaxRecords
    /\ event_metadata' = Append(event_metadata, Record(s, m))
    /\ latest' = [latest EXCEPT ![s] = IF @ = None THEN m ELSE @]
    /\ UNCHANGED <<part, docVars>>

-----------------------------------------------------------------------------
(* The bound on documents is reached.                                        *)
Done == part = "documents" /\ Len(documents) = MaxDocuments /\ UNCHANGED vars

Next ==
    \/ Done
    \/ \E d \in Documents : AddDocument(d)
    \/ \E s \in SequenceNumbers, m \in Notes \cup {None} : SetEventMetadata(s, m)
    \/ \E s \in SequenceNumbers, m \in Notes : PushRecord(s, m)

Spec == Init /\ [][Next]_vars

-----------------------------------------------------------------------------
TypeOK ==
    /\ documents \in Seq(Documents) /\ summary.by \in [Statuses -> 0..MaxDocuments]
    /\ Len(documents) <= MaxDocuments /\ Len(event_metadata) <= MaxRecords
    /\ latest \in [SequenceNumbers -> Notes \cup {None}]

(* A document shows the errors of its diagnostics and of its steps.          *)
Honest(d) ==
    /\ d.errors > 0 => d.status \in Failing
    /\ \A i \in DOMAIN d.steps :
         d.steps[i].status \in Failing \/ "other" \in d.steps[i].errors => d.status \in Failing

(* Nothing but checks went wrong.                                            *)
Plain(d) ==
    /\ d.errors = 0
    /\ \A i \in DOMAIN d.steps :
         /\ "other" \notin d.steps[i].errors
         /\ d.steps[i].status \in Failing => HasFailedCheck(d.steps[i])
    /\ d.status \in Failing => \E i \in DOMAIN d.steps : HasFailedCheck(d.steps[i])

(* Whatever documents a report has, the JUnit form fails when the summary    *)
(* does, and the other way round unless a diagnostic or a step says an error *)
(* its document does not; each failed check is one failed case, and where    *)
(* only checks failed there is no other.                                     *)
(* (junit_cases, step_has_execution_failure, Summary::has_failures)          *)
JunitAgrees ==
    LET total == Total([i \in DOMAIN documents |-> Failures(documents[i])])
    IN /\ HasFailures => total > 0
       /\ total > 0 /\ (\A i \in DOMAIN documents : Honest(documents[i])) => HasFailures
       /\ total >= summary.checks_failed
       /\ (\A i \in DOMAIN documents : Plain(documents[i])) => total = summary.checks_failed

(* In whatever order metadata is set, replaced, emptied and pushed past the  *)
(* sorted vector, an event shows what was last set for it, and no other      *)
(* event's.  (set_event_metadata, event_metadata_position,                   *)
(* EventMetadataLookup)                                                      *)
MetadataFollowsEvent == \A s \in SequenceNumbers : Lookup(event_metadata, s) = latest[s]

=============================================================================
