------------------------------ MODULE MCClients ------------------------------
(***************************************************************************)
(* TLC instance of the three clients a request can go through: Transfer,     *)
(* the Rust call with its fallback client; NativeSession, the libcurl        *)
(* session behind its native path; and GoTransfer, the Go port's call.       *)
(*                                                                         *)
(* A behaviour is one of one client; the variables of the other two keep     *)
(* their initial values.  What a property of a component says of a state it  *)
(* therefore says of every behaviour of that component.                      *)
(***************************************************************************)
EXTENDS Transfer

CONSTANTS MaxCalls, MaxHeader   \* of NativeSession

VARIABLES
    client,
    sCall, sPc, sInUse, sInMulti, sEasy, sCookies, sCapture, sCode, sMulti, sInfo, sResult,
    gPlan, gExpired, gPc, gAttempt, gMethod, gHasBody, gHops, gResponse, gOpen, gGot, gCause,
    gResult, gLateTries

Native == INSTANCE NativeSession WITH
    call <- sCall, pc <- sPc, inUse <- sInUse, inMulti <- sInMulti, easy <- sEasy,
    cookies <- sCookies, capture <- sCapture, code <- sCode, multi <- sMulti, info <- sInfo,
    result <- sResult

Go == INSTANCE GoTransfer WITH
    plan <- gPlan, expired <- gExpired, pc <- gPc, attempt <- gAttempt, method <- gMethod,
    hasBody <- gHasBody, hops <- gHops, response <- gResponse, open <- gOpen, got <- gGot,
    cause <- gCause, result <- gResult, lateTries <- gLateTries

nativeVars == <<sCall, sPc, sInUse, sInMulti, sEasy, sCookies, sCapture, sCode, sMulti, sInfo,
                sResult>>
goVars == <<gPlan, gExpired, gPc, gAttempt, gMethod, gHasBody, gHops, gResponse, gOpen, gGot,
            gCause, gResult, gLateTries>>
allVars == <<client, vars, nativeVars, goVars>>

MCInit ==
    /\ client \in {"rust", "native", "go"}
    /\ Init /\ Native!Init /\ Go!Init
    /\ client # "rust" => plan = CHOOSE p \in Plans : Eligible(p)
    /\ client # "go" => gPlan = CHOOSE p \in Go!Plans : TRUE

MCNext ==
    \/ client = "rust" /\ Next /\ UNCHANGED <<client, nativeVars, goVars>>
    \/ client = "native" /\ Native!Next /\ UNCHANGED <<client, vars, goVars>>
    \/ client = "go" /\ Go!Next /\ UNCHANGED <<client, vars, nativeVars>>

MCSpec ==
    /\ MCInit /\ [][MCNext]_allVars
    /\ client = "rust" => Fairness
    /\ client = "native" => Native!Fairness
    /\ client = "go" => Go!Fairness

-----------------------------------------------------------------------------
(* GoTransfer: attempts have nothing of each other; the body of every        *)
(* response is closed before another request is sent or the call returns,    *)
(* and every attempt starts from the plan's method and body.                 *)
AttemptsAreFresh == Go!AttemptsAreFresh

(* GoTransfer: after the deadline at most one more attempt begins.           *)
DeadlineStopsRetrying == Go!DeadlineStopsRetrying

(* NativeSession: between calls the session is as a new one.                 *)
SessionReusable == Native!SessionReusable

(* NativeSession: a success had no failing callback and its own metadata,    *)
(* and a limit or sink failure is reported as such.                          *)
ResultIsOwn == Native!ResultIsOwn

(* A call of any client returns although the peer redirects, fails, answers  *)
(* nothing or sends for ever, and a native call gives the session back.      *)
CallsReturn ==
    []<>CASE client = "rust" -> pc = "returned"
          [] client = "native" -> sPc \in {"idle", "dropped"}
          [] client = "go" -> gPc = "returned"
=============================================================================
