------------------------------- MODULE Runtime -------------------------------
(***************************************************************************)
(* crates/mdok-runtime, DocumentPlan::execute_with_cancel: the library's    *)
(* execution of a document, one step after the other in one session.        *)
(*                                                                         *)
(* A step renders its arguments from the variables, transfers, evaluates    *)
(* its checks and captures in a context and commits what was captured.  The *)
(* context holds a JSON snapshot of the variables that is made when first   *)
(* needed, kept for later steps and dropped when a capture is committed.    *)
(*                                                                         *)
(* How many checks and captures a step has is chosen as it runs; servers    *)
(* and expressions give any answer.                                         *)
(***************************************************************************)
EXTENDS Integers, Sequences, FiniteSets, Functions

CONSTANTS Keys,         \* names of variables
          BadKey,       \* a capture key that is no name
          JsonValues,   \* their values
          MaxSteps,     \* bound: steps of a document
          MaxChecks,    \* bound: checks of a step
          MaxCaptures   \* bound: captures of a step

Maps(keys) == UNION {[k -> JsonValues] : k \in SUBSET keys}
Over(old, new) ==
    [k \in DOMAIN old \cup DOMAIN new |-> IF k \in DOMAIN new THEN new[k] ELSE old[k]]

VARIABLES
    fail_fast, override,    \* RuntimePolicy
    initial,        \* variables of the plan
    variables,      \* ExecutionState::variables
    variables_json, \* the snapshot: <<>> or one map
    step_summaries, \* whether the steps so far passed
    pc,
    seen,           \* the variables in the context of this step
    checks,         \* results of this step's checks
    check_failure,  \* code of the first failure
    evaluated,      \* values of this step's captures
    results,        \* StepResults: passed and captures
    result

vars == <<fail_fast, override, initial, variables, variables_json, step_summaries, pc, seen,
          checks, check_failure, evaluated, results, result>>
policy == <<fail_fast, override, initial>>
step == <<seen, checks, check_failure, evaluated>>

(* What a capture expression gives: an object, as a map, or another value.   *)
NotObject == [kind |-> "other"]
Object(map) == [kind |-> "object", map |-> map]

Init ==
    /\ fail_fast \in BOOLEAN /\ override \in BOOLEAN
    /\ initial \in Maps(Keys) /\ variables = initial /\ variables_json = <<>>
    /\ step_summaries = <<>> /\ pc = "step" /\ seen = initial
    /\ checks = <<>> /\ check_failure = "none" /\ evaluated = <<>>
    /\ results = <<>> /\ result = "none"

Return(answer) == pc' = "returned" /\ result' = answer
GoTo(label) == pc' = label /\ UNCHANGED result

(* ExecutionState::context_values.                                           *)
Snapshot == IF variables_json = <<>> THEN variables ELSE variables_json[1]

(* Arguments, plan, transfer and body: the first that fails ends the         *)
(* document with an error and no result.                                     *)
StartStep ==
    /\ pc = "step" /\ Len(results) < MaxSteps
    /\ \/ /\ \E code \in {"E505", "curl", "body"} : Return(code)
          /\ UNCHANGED <<variables_json, step>>
       \/ /\ seen' = Snapshot /\ variables_json' = <<Snapshot>>
          /\ checks' = <<>> /\ check_failure' = "none" /\ evaluated' = <<>> /\ GoTo("checks")
    /\ UNCHANGED <<policy, variables, step_summaries, results>>

(* One check: true, false, not a Boolean, or an evaluation error.            *)
Check ==
    /\ pc = "checks" /\ Len(checks) < MaxChecks
    /\ fail_fast => check_failure = "none"
    /\ \E code \in {"none", "E502", "E501"} :
          /\ checks' = Append(checks, code = "none")
          /\ check_failure' = IF check_failure = "none" THEN code ELSE check_failure
    /\ UNCHANGED <<policy, variables, variables_json, step_summaries, pc, seen, evaluated,
                   results, result>>

NoCaptures == [key \in {} |-> BadKey]
Result(passed, captures) == [passed |-> passed, captures |-> captures]

ChecksEnd ==
    /\ pc = "checks"
    /\ IF check_failure = "none"
         THEN GoTo("captures") /\ UNCHANGED <<step_summaries, results>>
         ELSE /\ step_summaries' = Append(step_summaries, FALSE)
              /\ results' = Append(results, Result(FALSE, NoCaptures))
              /\ Return("failed")
    /\ UNCHANGED <<policy, variables, variables_json, step>>

Evaluate ==
    /\ pc = "captures" /\ Len(evaluated) < MaxCaptures
    /\ \/ Return("E501") /\ UNCHANGED evaluated
       \/ \E v \in {NotObject} \cup {Object(f) : f \in Maps(Keys \cup {BadKey})} :
             evaluated' = Append(evaluated, v) /\ GoTo("captures")
    /\ UNCHANGED <<policy, variables, variables_json, step_summaries, seen, checks,
                   check_failure, results>>

(* collect_captures: every value must be an object; its keys are names that  *)
(* no variable and no earlier capture has, unless that is allowed.           *)
Last(positions) == CHOOSE i \in positions : \A j \in positions : j <= i
Holding(key) == {i \in DOMAIN evaluated : key \in DOMAIN evaluated[i].map}
Pending ==
    [key \in UNION {DOMAIN evaluated[i].map : i \in DOMAIN evaluated} |->
        evaluated[Last(Holding(key))].map[key]]
Refused ==
    {i \in DOMAIN evaluated :
        \/ evaluated[i] = NotObject
        \/ \E key \in DOMAIN evaluated[i].map :
              \/ key = BadKey
              \/ ~override /\ key \in DOMAIN variables
              \/ ~override /\ \E j \in 1..(i - 1) :
                    evaluated[j] # NotObject /\ key \in DOMAIN evaluated[j].map}
CollectError ==
    LET first == CHOOSE i \in Refused : \A j \in Refused : i <= j
    IN  IF evaluated[first] = NotObject THEN "E503" ELSE "E504"

(* Mutant of CommitCaptures: the snapshot is kept.                           *)
CommitKeepsSnapshot(pending) ==
    variables' = Over(variables, pending) /\ UNCHANGED variables_json

CommitCaptures(pending) ==
    variables' = Over(variables, pending) /\ variables_json' = <<>>

EndStep ==
    /\ pc = "captures"
    /\ IF Refused = {}
         THEN /\ CommitCaptures(Pending)
              /\ step_summaries' = Append(step_summaries, TRUE)
              /\ results' = Append(results, Result(TRUE, Pending))
              /\ GoTo("step")
         ELSE /\ Return(CollectError)
              /\ UNCHANGED <<variables, variables_json, step_summaries, results>>
    /\ UNCHANGED <<policy, step>>

EndDocument ==
    /\ pc = "step"
    /\ Return("passed")
    /\ UNCHANGED <<policy, variables, variables_json, step_summaries, step, results>>

Done == result # "none" /\ UNCHANGED vars

Next == StartStep \/ Check \/ ChecksEnd \/ Evaluate \/ EndStep \/ EndDocument \/ Done

Spec == Init /\ [][Next]_vars

-----------------------------------------------------------------------------
TypeOK ==
    /\ variables \in Maps(Keys) /\ seen \in Maps(Keys)
    /\ variables_json \in {<<>>} \cup {<<m>> : m \in Maps(Keys)}
    /\ pc \in {"step", "checks", "captures", "returned"}

(* The variables as the steps so far left them: of the steps that captured a *)
(* key the last one decides, and else the plan.                              *)
Writing(key) == {i \in DOMAIN results : key \in DOMAIN results[i].captures}
Left ==
    [key \in DOMAIN initial \cup UNION {DOMAIN results[i].captures : i \in DOMAIN results} |->
        IF Writing(key) = {} THEN initial[key] ELSE results[Last(Writing(key))].captures[key]]

(* The checks and captures of a step see the variables as every earlier step *)
(* left them, whatever the snapshot was made for; a step that fails changes  *)
(* no variable, is the last and alone in failing; and no variable changes    *)
(* its value unless captures may override.                                   *)
(* (context_values, commit_captures, execute_with_cancel)                    *)
ContextIsCurrent ==
    /\ pc \in {"checks", "captures"} => seen = Left
    /\ variables = Left
    /\ \A i \in DOMAIN step_summaries :
          step_summaries[i] <=> (result # "failed" \/ i < Len(results))
    /\ Len(step_summaries) = Len(results)
    /\ ~override => \A k \in DOMAIN initial : variables[k] = initial[k]
=============================================================================
