----------------------------- MODULE MCDocuments -----------------------------
(***************************************************************************)
(* TLC instance of the three loops that execute a document: DocumentExec,  *)
(* the one of the command line; Library (module Runtime), the one of the   *)
(* runtime crate; and Go (module GoRuntime), the one of the Go port.       *)
(*                                                                         *)
(* A behaviour is one of one loop; the variables of the other two keep     *)
(* their initial values.  What a property of a component says of a state   *)
(* it therefore says of every behaviour of that component.                 *)
(***************************************************************************)
EXTENDS DocumentExec

CONSTANTS Paths, MaxItems,                         \* of GoRuntime
          Keys, BadKey, JsonValues, MaxChecks, MaxCaptures    \* of Runtime

Shape(kind, refs, tainted, checks, captures) ==
    [kind |-> kind, refs |-> refs, tainted |-> tainted, checks |-> checks, captures |-> captures]

MCStepPlans == {
    Shape("curl", {},        FALSE, 2, 1),
    Shape("curl", {"token"}, FALSE, 0, 2),
    Shape("exec", {"token"}, FALSE, 1, 0),
    Shape("exec", {"base"},  FALSE, 0, 1),
    Shape("exec", {},        TRUE,  0, 1) }

MCObjects == {{}, {"token"}, {"a", "b"}, {"c"}, {"base"}, {"c", "x y"}}

VARIABLES
    executor,
    gMode, gPath, gPc, gItems, gHost, gK, gArrays, gStepByName, gTransfers, gResult, gExit,
    gSeverity, gOwners, gSent,
    rFail_fast, rOverride, rInitial, rVariables, rVariables_json, rStep_summaries, rPc,
    rSeen, rChecks, rCheck_failure, rEvaluated, rResults, rResult

Go == INSTANCE GoRuntime WITH
    mode <- gMode, path <- gPath, pc <- gPc, items <- gItems, host <- gHost, k <- gK,
    arrays <- gArrays, stepByName <- gStepByName, transfers <- gTransfers,
    result <- gResult, exit <- gExit, severity <- gSeverity, owners <- gOwners,
    sent <- gSent

Library == INSTANCE Runtime WITH
    fail_fast <- rFail_fast, override <- rOverride, initial <- rInitial,
    variables <- rVariables, variables_json <- rVariables_json,
    step_summaries <- rStep_summaries, pc <- rPc, seen <- rSeen, checks <- rChecks,
    check_failure <- rCheck_failure, evaluated <- rEvaluated, results <- rResults,
    result <- rResult

goVars == <<gMode, gPath, gPc, gItems, gHost, gK, gArrays, gStepByName, gTransfers,
            gResult, gExit, gSeverity, gOwners, gSent>>
libraryVars == <<rFail_fast, rOverride, rInitial, rVariables, rVariables_json,
                 rStep_summaries, rPc, rSeen, rChecks, rCheck_failure, rEvaluated,
                 rResults, rResult>>
allVars == <<executor, vars, goVars, libraryVars>>

(* A component that is not the one of the behaviour keeps one initial state. *)
Resting ==
    /\ mode = "lint" /\ opts = [fail_fast |-> FALSE, offline |-> FALSE] /\ plan = <<>>
    /\ Init
GoRests ==
    /\ gMode = "lint" /\ gHost = "unset" /\ Go!Init
LibraryRests ==
    /\ rFail_fast = FALSE /\ rOverride = FALSE /\ rInitial = <<>> /\ Library!Init

MCInit ==
    \/ executor = "cli" /\ Init /\ GoRests /\ LibraryRests
    \/ executor = "go" /\ Resting /\ Go!Init /\ LibraryRests
    \/ executor = "library" /\ Resting /\ GoRests /\ Library!Init

MCNext ==
    \/ executor = "cli" /\ Next /\ UNCHANGED <<executor, goVars, libraryVars>>
    \/ executor = "go" /\ Go!Next /\ UNCHANGED <<executor, vars, libraryVars>>
    \/ executor = "library" /\ Library!Next /\ UNCHANGED <<executor, vars, goVars>>

MCSpec == MCInit /\ [][MCNext]_allVars

-----------------------------------------------------------------------------
(* GoRuntime: requests are only sent where the policy allows, and a document *)
(* that passes made every request, saw every check hold and every capture    *)
(* succeed, and shows its steps as passed.                                   *)
PassedMeansVerified == Go!PassedMeansVerified

(* Runtime: the context of a step has what was captured before, whenever the *)
(* snapshot of the variables was taken.                                      *)
ContextIsCurrent == Library!ContextIsCurrent
=============================================================================
