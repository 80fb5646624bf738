---------------------------- MODULE DocumentExec ----------------------------
(***************************************************************************)
(* crates/mdok-cli: one document from its plan to its report               *)
(* (process_document_with_hook, execute_plan_with_hook, publish_captures).  *)
(*                                                                         *)
(* What a server, a process or an expression answers is a choice of the     *)
(* action that asks.  The value of a variable is the step that captured it  *)
(* (0 for the variables the document started with): that is all the         *)
(* properties tell apart.  A JSON value weighs one byte and an object one   *)
(* byte more than its keys.                                                 *)
(***************************************************************************)
EXTENDS Integers, Sequences, FiniteSets, ExitCodes

CONSTANTS Names,            \* variable names and capture keys
          InvalidNames,     \* keys that valid_name refuses
          SecretNames,      \* names that is_secret_name recognises
          InitialNames,     \* variables of the configuration and the document
          Objects,          \* key sets of the objects that captures yield
          StepPlans,        \* the step plans documents are made of
          MaxSteps,         \* bound: steps of a document
          CaptureBudget     \* MAX_CAPTURE_TOTAL_BYTES

ASSUME DocumentAssumption ==
    /\ InvalidNames \subseteq Names /\ SecretNames \subseteq Names
    /\ InitialNames \subseteq Names \ InvalidNames
    /\ Objects \subseteq SUBSET Names /\ \A keys \in Objects : IsFiniteSet(keys)
    /\ IsFiniteSet(InitialNames)
    /\ StepPlans \subseteq [kind : {"curl", "exec"}, refs : SUBSET Names, tainted : BOOLEAN,
                            checks : Nat, captures : Nat]
    /\ MaxSteps \in Nat
    /\ CaptureBudget \in Nat

VARIABLES
    mode,           \* Mode: test, lint, plan or list
    opts,           \* fail_fast and offline
    plan,           \* DocumentPlan::steps
    pc,             \* position in the document's processing
    variables,      \* name -> captured value and taint
    cur,            \* the StepReport under construction
    left,           \* checks, then captures, of the step still to evaluate
    published,      \* publish_captures: the temporary map
    total,          \* publish_captures: total_capture_bytes
    steps,          \* finished StepReports
    summaries,      \* step_summaries: status shown to later steps
    hooked,         \* steps passed to the on_step hook, in order
    doc             \* status and own diagnostics of the DocumentReport

vars == <<mode, opts, plan, pc, variables, cur, left, published, total, steps,
          summaries, hooked, doc>>

Bounded(n) == UNION {[1..k -> StepPlans] : k \in 0..n}
Idx == Len(steps) + 1
Step == plan[Idx]
FreshReport == [status |-> "passed", codes |-> {}, checks |-> <<>>, captured |-> {}]
Value(step, secret) == [from |-> step, secret |-> secret]

Init ==
    /\ mode \in {"test", "lint", "plan", "list"}
    /\ opts \in [fail_fast : BOOLEAN, offline : BOOLEAN]
    /\ plan \in Bounded(MaxSteps)
    /\ pc = "plan"
    /\ variables = [n \in InitialNames |-> Value(0, n \in SecretNames)]
    /\ cur = FreshReport /\ left = 0 /\ published = <<>> /\ total = 0
    /\ steps = <<>> /\ summaries = <<>> /\ hooked = <<>>
    /\ doc = [status |-> "none", codes |-> {}]

-----------------------------------------------------------------------------
(* build_plan fails: the document has no steps; policy codes make it an     *)
(* error.                                                                   *)
PlanFails(codes) ==
    /\ pc = "plan"
    /\ doc' = [status |-> IF codes \cap PlanErrorCodes # {} THEN "error" ELSE "failed",
               codes  |-> codes]
    /\ pc' = "done"
    /\ UNCHANGED <<mode, opts, plan, variables, cur, left, published, total, steps,
                   summaries, hooked>>

(* Every step gets the same report and goes to the hook in order.           *)
ReportAll(status, codes, docStatus) ==
    /\ steps' = [i \in 1..Len(plan) |->
                  [status |-> status, codes |-> codes, checks |-> <<>>, captured |-> {}]]
    /\ hooked' = [i \in 1..Len(plan) |-> i]
    /\ doc' = [status |-> docStatus, codes |-> doc.codes]
    /\ pc' = "done"
    /\ UNCHANGED <<mode, opts, plan, variables, cur, left, published, total, summaries>>

(* plan_report for lint, plan and list.                                     *)
PlanReport ==
    LET status == IF mode = "lint" THEN "passed" ELSE "planned"
    IN /\ pc = "plan" /\ mode # "test"
       /\ ReportAll(status, {}, status)

(* --offline denies every step before the first one.                        *)
OfflineDenied ==
    /\ pc = "plan" /\ mode = "test" /\ opts.offline
    /\ ReportAll("skipped", {302}, "error")

StartDocument ==
    /\ pc = "plan" /\ mode = "test" /\ ~opts.offline
    /\ pc' = "next"
    /\ UNCHANGED <<mode, opts, plan, variables, cur, left, published, total, steps,
                   summaries, hooked, doc>>

-----------------------------------------------------------------------------
(* A finished step: its summary, its report, the hook, and whether the loop *)
(* goes on.                                                                 *)
EndStep(report) ==
    /\ steps' = Append(steps, report)
    /\ summaries' = Append(summaries, report.status)
    /\ hooked' = Append(hooked, Idx)
    /\ cur' = FreshReport
    /\ pc' = IF IsFailure(report.status) /\ opts.fail_fast THEN "finish" ELSE "next"
    /\ UNCHANGED <<mode, opts, plan, doc>>

Failed(report, codes) ==
    [status |-> "failed", codes |-> report.codes \cup codes, checks |-> report.checks,
     captured |-> report.captured]

(* Secrets in an exec argv and unresolved variables are found before        *)
(* anything runs; other template errors are the renderer's choice.          *)
RenderCodes ==
    {c \in {404} : Step.kind = "exec" /\ \E n \in Step.refs \cap DOMAIN variables :
                        variables[n].secret}
    \cup {c \in {401} : ~(Step.refs \subseteq DOMAIN variables)}

Render(error) ==
    /\ pc = "next" /\ Idx <= Len(plan)
    /\ IF RenderCodes \cup error # {}
         THEN EndStep(Failed(FreshReport, RenderCodes \cup error))
         ELSE /\ pc' = "run"
              /\ UNCHANGED <<mode, opts, plan, cur, steps, summaries, hooked, doc>>
    /\ UNCHANGED <<variables, left, published, total>>

RunFailureCodes(kind) == IF kind = "curl" THEN {304, 600} ELSE {308, 310}

(* transfer or execute_external_command: no result.                         *)
RunFails(code) ==
    /\ pc = "run"
    /\ code \in RunFailureCodes(Step.kind)
    /\ EndStep(Failed(cur, {code}))
    /\ UNCHANGED <<variables, left, published, total>>

(* A result to check.  An exec that did not succeed fails the step, its     *)
(* checks are evaluated all the same.                                       *)
RunReturns(exit) ==
    /\ pc = "run"
    /\ exit # {} => Step.kind = "exec"
    /\ cur' = IF exit = {} THEN cur ELSE Failed(cur, exit)
    /\ left' = Step.checks
    /\ pc' = "check"
    /\ UNCHANGED <<mode, opts, plan, variables, published, total, steps, summaries, hooked, doc>>

(* Bug: a check that cannot be evaluated is skipped.                        *)
CheckSkipsErrors(result) ==
    /\ pc = "check" /\ left > 0
    /\ cur' = CASE result = "true" -> [cur EXCEPT !.checks = Append(@, result)]
                [] result = "false" -> Failed([cur EXCEPT !.checks = Append(@, result)], {502})
                [] OTHER -> cur
    /\ left' = IF result = "false" /\ opts.fail_fast THEN 0 ELSE left - 1
    /\ UNCHANGED <<mode, opts, plan, pc, variables, published, total, steps, summaries,
                   hooked, doc>>

(* One check.  A false one and one that cannot be evaluated fail the step;  *)
(* only the former gets a CheckReport.                                      *)
Check(result) ==
    LET bad == result # "true"
        codes == IF result = "false" THEN {502} ELSE IF result = "error" THEN {501} ELSE {}
        checks == IF result = "error" THEN cur.checks ELSE Append(cur.checks, result)
    IN /\ pc = "check" /\ left > 0
       /\ cur' = [status |-> IF bad THEN "failed" ELSE cur.status,
                  codes |-> cur.codes \cup codes, checks |-> checks,
                  captured |-> cur.captured]
       /\ left' = IF bad /\ opts.fail_fast THEN 0 ELSE left - 1
       /\ UNCHANGED <<mode, opts, plan, pc, variables, published, total, steps, summaries,
                      hooked, doc>>

(* Checks are over: a failed step ends here, and so does one whose output   *)
(* is tainted and should be captured.                                       *)
EndChecks ==
    LET refused == Step.kind = "exec" /\ Step.tainted /\ Step.captures > 0
    IN /\ pc = "check" /\ left = 0
       /\ \/ /\ cur.status = "failed" \/ refused
             /\ EndStep(IF cur.status = "failed" THEN cur ELSE Failed(cur, {404}))
             /\ UNCHANGED <<variables, left, published, total>>
          \/ /\ cur.status = "passed" /\ ~refused
             /\ left' = Step.captures
             /\ published' = <<>>
             /\ total' = Cardinality(DOMAIN variables)
             /\ pc' = "capture"
             /\ UNCHANGED <<mode, opts, plan, variables, cur, steps, summaries, hooked, doc>>

(* One capture expression that yields no usable object.                     *)
CaptureFails(code) ==
    /\ pc = "capture" /\ left > 0
    /\ cur' = [status |-> cur.status, codes |-> cur.codes \cup {code},
               checks |-> cur.checks, captured |-> cur.captured]
    /\ left' = left - 1
    /\ UNCHANGED <<mode, opts, plan, pc, variables, published, total, steps, summaries,
                   hooked, doc>>

Weight(keys) == Cardinality(keys) + 1
Extend(f, g) == [n \in DOMAIN f \cup DOMAIN g |-> IF n \in DOMAIN g THEN g[n] ELSE f[n]]

(* A capture expression that yields an object: over the budget it adds       *)
(* nothing, otherwise its good keys are added to the temporary map.          *)
Captured(keys, tainted, good) ==
    LET over == total + Weight(keys) > CaptureBudget
        codes == IF over THEN {700} ELSE {c \in {504} : good # keys}
        new == [n \in good |-> Value(Idx, n \in SecretNames \/ tainted)]
    IN /\ pc = "capture" /\ left > 0
       /\ cur' = [status |-> cur.status, codes |-> cur.codes \cup codes,
                  checks |-> cur.checks, captured |-> cur.captured \cup keys]
       /\ left' = left - 1
       /\ total' = IF over THEN total ELSE total + Weight(keys)
       /\ published' = IF over THEN published ELSE Extend(published, new)
       /\ UNCHANGED <<mode, opts, plan, pc, variables, steps, summaries, hooked, doc>>

(* A key is good if it is a valid name that no variable and no earlier       *)
(* capture of the step has; tainted is the answer of                         *)
(* capture_result_is_secret for the whole object.                            *)
CaptureObject(keys, tainted) ==
    Captured(keys, tainted, keys \ (InvalidNames \cup DOMAIN variables \cup DOMAIN published))

(* Bug: captures that were fine are published although another one failed.  *)
PublishPartly ==
    /\ pc = "capture" /\ left = 0
    /\ variables' = Extend(variables, published)
    /\ EndStep(IF cur.codes = {} THEN cur ELSE Failed(cur, {}))
    /\ UNCHANGED <<left, published, total>>

(* The temporary map is merged only if no capture added a diagnostic.       *)
Publish ==
    /\ pc = "capture" /\ left = 0
    /\ variables' = IF cur.codes = {} THEN Extend(variables, published) ELSE variables
    /\ EndStep(IF cur.codes = {} THEN cur ELSE Failed(cur, {}))
    /\ UNCHANGED <<left, published, total>>

(* The loop ended: the document fails iff one of its steps did.             *)
FinishDocument ==
    /\ \/ pc = "finish"
       \/ pc = "next" /\ Idx > Len(plan)
    /\ doc' = [status |-> IF \E i \in DOMAIN steps : IsFailure(steps[i].status)
                            THEN "failed" ELSE "passed",
               codes  |-> doc.codes]
    /\ pc' = "done"
    /\ UNCHANGED <<mode, opts, plan, variables, cur, left, published, total, steps,
                   summaries, hooked>>

-----------------------------------------------------------------------------
Done == pc = "done" /\ UNCHANGED vars

Next ==
    \/ \E code \in {102, 201, 304, 312, 500, 700} : PlanFails({code})
    \/ PlanReport
    \/ OfflineDenied
    \/ StartDocument
    \/ \E error \in {{}, {402}} : Render(error)
    \/ \E code \in {304, 308, 310, 600} : RunFails(code)
    \/ \E exit \in {{}, {309}, {310}, {311}} : RunReturns(exit)
    \/ \E result \in {"true", "false", "error"} : Check(result)
    \/ EndChecks
    \/ \E code \in {501, 503, 700} : CaptureFails(code)
    \/ \E keys \in Objects, tainted \in BOOLEAN : CaptureObject(keys, tainted)
    \/ Publish
    \/ FinishDocument
    \/ Done

Spec == Init /\ [][Next]_vars

-----------------------------------------------------------------------------
Codes == doc.codes \cup UNION {steps[i].codes : i \in DOMAIN steps}
HasFailures ==
    \/ IsFailure(doc.status)
    \/ \E i \in DOMAIN steps : \E k \in DOMAIN steps[i].checks : steps[i].checks[k] = "false"
ExitCode == ReportExitCode(Codes, HasFailures)
Statuses == {"passed", "failed", "skipped", "planned", "error"}
StepReports == [status : Statuses, codes : SUBSET Nat,
                checks : Seq({"true", "false"}), captured : SUBSET Names]
Values == [from : 0..MaxSteps, secret : BOOLEAN]

(* Every variable has its type; variables and the temporary capture map are  *)
(* maps from names to values.                                               *)
TypeOK ==
    /\ mode \in {"test", "lint", "plan", "list"}
    /\ opts \in [fail_fast : BOOLEAN, offline : BOOLEAN]
    /\ plan \in Seq(StepPlans) /\ Len(plan) <= MaxSteps
    /\ pc \in {"plan", "next", "run", "check", "capture", "finish", "done"}
    /\ DOMAIN variables \subseteq Names /\ \A n \in DOMAIN variables : variables[n] \in Values
    /\ cur \in StepReports
    /\ left \in Nat /\ total \in Nat
    /\ DOMAIN published \subseteq Names /\ \A n \in DOMAIN published : published[n] \in Values
    /\ steps \in Seq(StepReports) /\ Len(steps) <= Len(plan)
    /\ summaries \in Seq(Statuses) /\ hooked \in Seq(1..MaxSteps)
    /\ doc \in [status : Statuses \cup {"none"}, codes : SUBSET Nat]

(* publish_captures is all or nothing: every key a passed step captured is a *)
(* variable that comes from it and that no later step redefines, a failed    *)
(* step has left no variable, whichever of its captures, checks or limits    *)
(* went wrong and when, and neither has a process that was given secrets.    *)
CapturesAllOrNothing ==
    /\ \A i \in DOMAIN steps :
        IF steps[i].status = "passed"
          THEN mode = "test" =>
               \A n \in steps[i].captured : n \in DOMAIN variables /\ variables[n].from = i
          ELSE \A n \in DOMAIN variables : variables[n].from # i
    /\ \A n \in DOMAIN variables :
          variables[n].from > 0 =>
              LET step == plan[variables[n].from] IN ~(step.kind = "exec" /\ step.tainted)

(* Exit status 0, of `mdok test` as of an invocation with its own mapping,   *)
(* means that every planned step ran and that every one of its checks was    *)
(* evaluated to true.                                                        *)
ExitZeroMeansVerified ==
    pc = "done" /\ mode = "test" /\ EXIT_OK \in {ExitCode, InvocationExitCode(Codes, doc.status)} =>
        /\ Len(steps) = Len(plan)
        /\ \A i \in DOMAIN steps : /\ steps[i].status = "passed"
                                   /\ steps[i].checks = [k \in 1..plan[i].checks |-> "true"]
=============================================================================
