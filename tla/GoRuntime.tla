------------------------------ MODULE GoRuntime ------------------------------
(***************************************************************************)
(* go/: the Go port's `mdok lint|test PATH...`, from the parsed items of    *)
(* each document to the exit code of the process.                           *)
(*                                                                         *)
(* Documents are handled one after the other.  A document is parsed into    *)
(* items, all of them are validated before the first request, then they run *)
(* in document order: a check or a capture may come after requests that     *)
(* follow the one it belongs to.  Steps are numbered in document order.     *)
(* One variable stands for the variables of a document; its value is what   *)
(* the policy says of the host a templated URL names with it.  result.Steps *)
(* is a Go slice: arrays are the backing arrays it has had, and stepByName  *)
(* points into the one that was current when the step was appended.         *)
(***************************************************************************)
EXTENDS Integers, SequencesExt

CONSTANTS Paths,        \* number of documents on the command line
          MaxItems,     \* bound: executable fences of a document
          MaxSteps      \* markdown.MaxSteps

VARIABLES
    mode,           \* "lint" or "test"
    path,           \* number of the document
    pc,             \* phase of the document
    items,          \* Document.Items
    host,           \* vars: host the variable names, or "unset"
    k,              \* item the loop of Test is at
    arrays,         \* backing arrays of result.Steps, the current one last
    stepByName,     \* for each step, the element its pointer points at
    transfers,      \* steps that have a transfer
    result,         \* Status, ExitClass and whether there are Diagnostics
    exit,           \* exit code so far
    severity,       \* history: worst class of what went wrong so far
    owners,         \* history: steps of this document's failed checks and captures
    sent            \* history: hosts requests were sent to

docVars == <<items, host, k, arrays, stepByName, transfers, result, owners>>
vars == <<mode, path, pc, docVars, exit, severity, sent>>

Hosts == {"allowed", "denied"}
Bigger(a, b) == IF a > b THEN a ELSE b
Array(cap, elems) == [cap |-> cap, elems |-> elems]
Outcome(status, class, diags) == [status |-> status, class |-> class, diags |-> diags]

Init ==
    /\ mode \in {"lint", "test"} /\ path = 1 /\ pc = "parse"
    /\ items = <<>> /\ host \in Hosts \cup {"unset"} /\ k = 1
    /\ arrays = <<Array(0, <<>>)>> /\ stepByName = <<>> /\ transfers = {}
    /\ result = Outcome("passed", 0, FALSE)
    /\ exit = 0 /\ severity = 0 /\ owners = {} /\ sent = {}

-----------------------------------------------------------------------------
(* markdown.Parse.  `bad` is what static validation will say of the source: *)
(* nothing, a planning failure, or one that brings a policy error with it.  *)
Request(url, bad) == [kind |-> "curl", url |-> url, bad |-> bad]
CheckOf(step, bad) == [kind |-> "check", step |-> step, bad |-> bad]
CaptureOf(step, sets, bad) == [kind |-> "capture", step |-> step, sets |-> sets, bad |-> bad]

Requests == {i \in 1..Len(items) : items[i].kind = "curl"}
StepOf(i) == Cardinality({j \in Requests : j <= i})

AddItem(item) ==
    /\ pc = "parse" /\ Len(items) < MaxItems
    /\ items' = Append(items, item)
    /\ UNCHANGED <<mode, path, pc, host, k, arrays, stepByName, transfers, result, owners,
                   exit, severity, sent>>

AddRequest ==
    /\ Cardinality(Requests) < MaxSteps
    /\ \/ \E url \in Hosts \cup {"templated"} : AddItem(Request(url, "none"))
       \/ \E bad \in {"failed", "error"} : AddItem(Request("allowed", bad))

AddCheck ==
    \E s \in 1..Cardinality(Requests), bad \in {"none", "failed"} : AddItem(CheckOf(s, bad))

AddCapture ==
    \E s \in 1..Cardinality(Requests) :
        \/ \E sets \in BOOLEAN : AddItem(CaptureOf(s, sets, "none"))
        \/ AddItem(CaptureOf(s, FALSE, "failed"))

(* The file cannot be read, a fence is invalid, or a limit is exceeded; an  *)
(* invalid document that names a denied host counts as a policy error.      *)
ParseFails ==
    /\ pc = "parse"
    /\ \E c \in {2, 3} :
          /\ result' = Outcome(IF c = 3 THEN "error" ELSE "failed", c, TRUE)
          /\ severity' = Bigger(severity, c)
    /\ pc' = "report"
    /\ UNCHANGED <<mode, path, items, host, k, arrays, stepByName, transfers, owners, exit, sent>>

Parsed ==
    /\ pc = "parse"
    /\ pc' = mode
    /\ UNCHANGED <<mode, path, docVars, exit, severity, sent>>

-----------------------------------------------------------------------------
(* Static validation of an item: `known` says whether the variable has a    *)
(* value or a placeholder.                                                  *)
Finding(item, known) ==
    IF item.kind # "curl" \/ item.bad # "none" THEN item.bad
    ELSE IF item.url = "denied" THEN "error"
    ELSE IF item.url = "templated" /\ ~known THEN "failed" ELSE "none"

Known(i) ==
    host # "unset" \/ \E j \in 1..(i - 1) :
        items[j].kind = "capture" /\ items[j].bad = "none" /\ items[j].sets

Worst(findings) ==
    IF "error" \in findings THEN "error" ELSE IF "failed" \in findings THEN "failed" ELSE "passed"

ClassFor(status) == IF status = "error" THEN 3 ELSE IF status = "failed" THEN 2 ELSE 0

(* Lint: every referenced variable has a placeholder; finalize drops the    *)
(* steps of a document that does not pass.                                  *)
Lint ==
    /\ pc = "lint"
    /\ LET status == Worst({Finding(items[i], TRUE) : i \in 1..Len(items)}) IN
         /\ result' = Outcome(status, 0, status # "passed")
         /\ severity' = Bigger(severity, ClassFor(status))
         /\ arrays' = <<Array(Len(items), IF status # "passed" THEN <<>>
                                          ELSE [s \in 1..Cardinality(Requests) |-> "passed"])>>
    /\ pc' = "report"
    /\ UNCHANGED <<mode, path, items, host, k, stepByName, transfers, owners, exit, sent>>

(* Bug: only policy findings keep the document from running.                *)
PreflightPolicyOnly ==
    /\ pc = "test"
    /\ LET status == Worst({Finding(items[i], Known(i)) : i \in 1..Len(items)}) IN
         IF status # "error"
           THEN pc' = "run" /\ UNCHANGED <<result, severity>>
           ELSE /\ result' = Outcome(status, ClassFor(status), TRUE)
                /\ severity' = Bigger(severity, ClassFor(status))
                /\ pc' = "report"
    /\ UNCHANGED <<mode, path, items, host, k, arrays, stepByName, transfers, owners, exit, sent>>

(* Test: the preflight collects every finding before anything runs.         *)
Preflight ==
    /\ pc = "test"
    /\ LET status == Worst({Finding(items[i], Known(i)) : i \in 1..Len(items)}) IN
         IF status = "passed"
           THEN pc' = "run" /\ UNCHANGED <<result, severity>>
           ELSE /\ result' = Outcome(status, ClassFor(status), TRUE)
                /\ severity' = Bigger(severity, ClassFor(status))
                /\ pc' = "report"
    /\ UNCHANGED <<mode, path, items, host, k, arrays, stepByName, transfers, owners, exit, sent>>

-----------------------------------------------------------------------------
(* append(result.Steps, step): in place while there is room, in a new array *)
(* of twice the size, with a copy of the elements, when there is none.      *)
Current == arrays[Len(arrays)]

Grown(status) ==
    IF Len(Current.elems) < Current.cap
      THEN [arrays EXCEPT ![Len(arrays)] = Array(Current.cap, Append(Current.elems, status))]
      ELSE Append(arrays, Array(IF Current.cap = 0 THEN 1 ELSE 2 * Current.cap,
                                Append(Current.elems, status)))

AppendStep(status) ==
    /\ arrays' = Grown(status)
    /\ stepByName' = Append(stepByName,
                            [array |-> Len(arrays'), index |-> Len(Current.elems) + 1])

Marked(s) ==
    LET p == stepByName[s]
        a == arrays[p.array]
    IN  [arrays EXCEPT ![p.array] = Array(a.cap, [a.elems EXCEPT ![p.index] = "failed"])]

(* A failure of class `class` in a document that goes on.                   *)
FailWith(class) ==
    /\ result' = Outcome("failed", Bigger(result.class, class), result.diags)
    /\ severity' = Bigger(severity, class)

AtItem(kind) == pc = "run" /\ k <= Len(items) /\ items[k].kind = kind
NextItem == k' = k + 1 /\ UNCHANGED pc
Target(item) == IF item.url = "templated" THEN host ELSE item.url

(* A curl item whose source does not parse, does not render, or renders to  *)
(* something that does not parse.                                           *)
NotPlanned ==
    /\ AtItem("curl")
    /\ IF items[k].bad # "none"
         THEN UNCHANGED <<result, severity>>
         ELSE items[k].url = "templated" /\ FailWith(2)
    /\ AppendStep("failed") /\ NextItem
    /\ UNCHANGED <<mode, path, items, host, transfers, owners, exit, sent>>

Planned == AtItem("curl") /\ items[k].bad = "none" /\ Target(items[k]) # "unset"

(* policyFinding of the rendered plan, which ends the document.             *)
Refused == Target(items[k]) = "denied"

PolicyDenied ==
    /\ Planned /\ Refused
    /\ result' = Outcome("error", 3, TRUE)
    /\ severity' = 3
    /\ AppendStep("failed")
    /\ pc' = "finalize" /\ UNCHANGED k
    /\ UNCHANGED <<mode, path, items, host, transfers, owners, exit, sent>>

Send ==
    /\ Planned /\ ~Refused
    /\ sent' = sent \cup {Target(items[k])}
    /\ \/ FailWith(3) /\ AppendStep("failed") /\ UNCHANGED transfers
       \/ /\ transfers' = transfers \cup {StepOf(k)}
          /\ AppendStep("passed") /\ UNCHANGED <<result, severity>>
    /\ NextItem
    /\ UNCHANGED <<mode, path, items, host, owners, exit>>

-----------------------------------------------------------------------------
Has(kind) == AtItem(kind) /\ items[k].step \in transfers

(* A check or capture whose step has no transfer is passed over.            *)
Skip ==
    /\ \/ AtItem("check") /\ ~Has("check")
       \/ AtItem("capture") /\ ~Has("capture")
    /\ NextItem
    /\ UNCHANGED <<mode, path, items, host, arrays, stepByName, transfers, result, owners,
                   exit, severity, sent>>

Holds ==
    /\ Has("check") /\ items[k].bad = "none"
    /\ NextItem
    /\ UNCHANGED <<mode, path, items, host, arrays, stepByName, transfers, result, owners,
                   exit, severity, sent>>

(* A line of a check is false or an error, or a capture is an error: the    *)
(* owning step is marked through its pointer.                               *)
Fails ==
    /\ Has("check") \/ Has("capture")
    /\ arrays' = Marked(items[k].step)
    /\ owners' = owners \cup {items[k].step}
    /\ FailWith(1)
    /\ NextItem
    /\ UNCHANGED <<mode, path, items, host, stepByName, transfers, exit, sent>>

Capture ==
    /\ Has("capture") /\ items[k].bad = "none"
    /\ host' \in IF items[k].sets THEN Hosts ELSE {host}
    /\ NextItem
    /\ UNCHANGED <<mode, path, items, arrays, stepByName, transfers, result, owners,
                   exit, severity, sent>>

EndOfItems ==
    /\ pc = "run" /\ k > Len(items)
    /\ pc' = "finalize"
    /\ UNCHANGED <<mode, path, docVars, exit, severity, sent>>

(* finalize: an error document reports no steps.                            *)
Finalize ==
    /\ pc = "finalize"
    /\ arrays' = IF result.status = "error" THEN <<Array(0, <<>>)>> ELSE arrays
    /\ pc' = "report"
    /\ UNCHANGED <<mode, path, items, host, k, stepByName, transfers, result, owners,
                   exit, severity, sent>>

-----------------------------------------------------------------------------
(* report.AddDocument and report.ExitCode.                                  *)
ExitClass ==
    IF result.status = "error" THEN 3
    ELSE IF result.class = 0 /\ result.diags THEN 2
    ELSE IF result.class = 0 /\ result.status = "failed" THEN 1
    ELSE result.class

AddDocument ==
    /\ pc = "report"
    /\ exit' = Bigger(exit, ExitClass)
    /\ IF path < Paths
         THEN /\ path' = path + 1 /\ pc' = "parse" /\ items' = <<>> /\ k' = 1
              /\ host' \in Hosts \cup {"unset"}
              /\ arrays' = <<Array(0, <<>>)>> /\ stepByName' = <<>>
              /\ transfers' = {} /\ owners' = {}
              /\ result' = Outcome("passed", 0, FALSE)
         ELSE pc' = "exited" /\ UNCHANGED <<path, docVars>>
    /\ UNCHANGED <<mode, severity, sent>>

Exited == pc = "exited" /\ UNCHANGED vars

Parse == AddRequest \/ AddCheck \/ AddCapture \/ ParseFails \/ Parsed
Run == NotPlanned \/ PolicyDenied \/ Send \/ Skip \/ Holds \/ Fails \/ Capture \/ EndOfItems
Next == Parse \/ Lint \/ Preflight \/ Run \/ Finalize \/ AddDocument \/ Exited

(* The program is a single goroutine; a transfer ends at its timeout.       *)
Spec == Init /\ [][Next]_vars

-----------------------------------------------------------------------------
Bads == {"none", "failed", "error"}
Items == [kind : {"curl"}, url : Hosts \cup {"templated"}, bad : Bads]
         \cup [kind : {"check"}, step : 1..MaxSteps, bad : Bads]
         \cup [kind : {"capture"}, step : 1..MaxSteps, sets : BOOLEAN, bad : Bads]

(* Every variable has its type; every pointer points at an element.         *)
TypeOK ==
    /\ mode \in {"lint", "test"} /\ path \in 1..Paths
    /\ pc \in {"parse", "lint", "test", "run", "finalize", "report", "exited"}
    /\ Len(items) <= MaxItems /\ Range(items) \subseteq Items
    /\ host \in Hosts \cup {"unset"} /\ k \in 1..(MaxItems + 1)
    /\ \A a \in Range(arrays) : Len(a.elems) <= a.cap /\ Range(a.elems) \subseteq {"passed", "failed"}
    /\ pc = "run" => \A p \in Range(stepByName) : p.index \in DOMAIN arrays[p.array].elems
    /\ transfers \subseteq 1..MaxSteps /\ owners \subseteq transfers
    /\ result \in [status : {"passed", "failed", "error"}, class : 0..3, diags : BOOLEAN]
    /\ exit \in 0..3 /\ severity \in 0..3 /\ sent \subseteq Hosts \cup {"unset"}

(* A request is sent only where the policy allows, also when a capture       *)
(* changed the variable that names the host after the preflight; and a       *)
(* document that passes `test` made every request, saw every check hold and  *)
(* every capture succeed, and reports all its steps as passed.               *)
PassedMeansVerified ==
    /\ sent \subseteq {"allowed"}
    /\ pc \in {"report", "exited"} /\ mode = "test" /\ result.status = "passed" =>
         /\ transfers = 1..Cardinality(Requests)
         /\ Len(Current.elems) = Cardinality(Requests) /\ Range(Current.elems) \subseteq {"passed"}
         /\ owners = {}

(* "check/capture failures mark the owning step failed": the step a failed   *)
(* check or capture belongs to is reported as failed.                        *)
OwningStepMarked ==
    pc = "report" /\ Current.elems # <<>> => \A s \in owners : Current.elems[s] = "failed"
=============================================================================
