--------------------------- MODULE ClientsProofs ---------------------------
(***************************************************************************)
(* Proofs about the three clients MCClients puts side by side, for any       *)
(* number of calls, retries, redirects and bytes: Native, the libcurl        *)
(* session; Go, the Go port's transfer; and Transfer, the Rust client.       *)
(*                                                                         *)
(* NativeInv ties the session's flag and the easy handle to the place in the *)
(* call, and the code of the transfer to what its callbacks did.  GoInv ties *)
(* the open body to the place in Execute, and says where an attempt that     *)
(* began after the deadline can still be.  IInv, of Transfer, ties requests, *)
(* redirects, the sink and the result to the attempt they belong to.         *)
(***************************************************************************)
EXTENDS MCClients, TLAPS

-----------------------------------------------------------------------------
(* Places in a native call: with the flag, and past the configuration.       *)
Holding == {"configure", "add", "perform", "remove", "info"}
Configured == {"add", "perform", "remove", "info", "returned"}

(* The flag is held, and the handle is in the multi handle, at these places  *)
(* and nowhere else.                                                         *)
HandleInv ==
    /\ sPc \in Holding \cup {"idle", "returned", "dropped"}
    /\ sInUse \in BOOLEAN /\ (sInUse <=> sPc \in Holding)
    /\ sInMulti \in BOOLEAN /\ (sInMulti <=> sPc \in {"perform", "remove"})
    /\ sPc \in Configured => sEasy = sCall

(* What the callbacks did, and the codes they leave.                         *)
Unharmed == sCapture.failure = "none" /\ ~sCapture.cancelled
CaptureInv ==
    /\ sCapture \in [body : Nat, headers : Nat, failure : Native!Failures, cancelled : BOOLEAN]
    /\ sPc \in {"configure", "add"} => Unharmed
    /\ sPc \in {"configure", "add", "perform"} => sMulti = "ok"
    /\ sPc \in {"remove", "info", "returned"} /\ sMulti = "ok" =>
         /\ sCode # "failed_init"
         /\ sCode = "ok" => Unharmed
    /\ sPc = "returned" /\ sMulti = "ok" => sInfo = sEasy

(* The inductive invariant of the session.                                   *)
NativeInv == HandleInv /\ CaptureInv /\ ResultIsOwn

-----------------------------------------------------------------------------
(* Types of the Go port's call, with the attempts bounded by the plan: a     *)
(* place that leads to another attempt has one left.                         *)
GoTypeInv ==
    /\ gPlan \in Go!Plans /\ gExpired \in BOOLEAN /\ gPc \in Go!Pcs
    /\ gAttempt \in Nat /\ gAttempt <= gPlan.retry + 1
    /\ gPc \in {"start", "loop", "drain", "delay"} => gAttempt <= gPlan.retry
    /\ gPc \in {"send", "wait", "head", "drain", "failed", "delay", "finish"} => gAttempt >= 1
    /\ gMethod \in Go!Methods /\ gHasBody \in BOOLEAN /\ gHops \in 0..MaxRedirs
    /\ gResponse \in [status : Go!Statuses, location : Go!Locations]
    /\ gOpen \in Nat /\ gGot \in 0..(MaxBody + 1)
    /\ gCause \in Go!Causes /\ gResult \in Go!Results

(* An attempt that began after the deadline is on its way to the return.     *)
LateInv ==
    /\ gLateTries \in {0, 1}
    /\ gLateTries = 1 => /\ gExpired /\ gPc \in {"send", "failed", "returned"}
                          /\ gAttempt >= 1

(* The inductive invariant of the Go port's call.                            *)
GoInv == GoTypeInv /\ LateInv /\ AttemptsAreFresh
-----------------------------------------------------------------------------
(* NativeInv holds of a new session.                                         *)
LEMMA NativeInitInv == Native!Init => NativeInv
<1>1. SUFFICES ASSUME Native!Init PROVE NativeInv
  OBVIOUS
<1>2. /\ sPc = "idle" /\ sInUse = FALSE /\ sInMulti = FALSE /\ sResult = "none"
      /\ sCapture = [body |-> 0, headers |-> 0, failure |-> "none", cancelled |-> FALSE]
  BY <1>1 DEF Native!Init, Native!NoCapture, Native!CaptureOf
<1>3. HandleInv
  BY <1>2 DEF HandleInv, Holding, Configured
<1>4. CaptureInv
  BY <1>2 DEF CaptureInv, Native!Failures
<1>5. "none" \notin Native!Flagged
  BY DEF Native!Flagged, Native!BODY_LIMIT, Native!HEADER_LIMIT, Native!SINK_ERROR
<1>6. ResultIsOwn
  BY <1>2, <1>5 DEF ResultIsOwn, Native!ResultIsOwn
<1> QED
  BY <1>3, <1>4, <1>6 DEF NativeInv

(* A call that starts finds the flag free, and starts with nothing of the    *)
(* call before.                                                              *)
LEMMA AcquireStep ==
    ASSUME NativeInv, Native!Acquire
    PROVE  NativeInv'
<1>1. ~sInUse
  BY DEF NativeInv, HandleInv, Holding, Native!Acquire
<1>2. /\ sPc' = "configure" /\ sInUse' = TRUE /\ sCapture' = Native!NoCapture /\ sMulti' = "ok"
      /\ ~sInMulti /\ UNCHANGED sInMulti
  BY <1>1 DEF NativeInv, HandleInv, Native!Acquire
<1> QED
  BY <1>2 DEF NativeInv, HandleInv, CaptureInv, ResultIsOwn, Native!ResultIsOwn, Holding,
              Configured, Unharmed, Native!NoCapture, Native!CaptureOf, Native!Failures

(* configure_easy keeps NativeInv, also when an option is refused.           *)
LEMMA ConfigureStep ==
    ASSUME NativeInv, Native!Configure
    PROVE  NativeInv'
BY DEF NativeInv, HandleInv, CaptureInv, ResultIsOwn, Native!ResultIsOwn, Holding, Configured,
       Unharmed, Native!Configure

(* So does the start of perform_multi: the handle is not there yet.          *)
LEMMA AddToMultiStep ==
    ASSUME NativeInv, Native!AddToMulti
    PROVE  NativeInv'
BY DEF NativeInv, HandleInv, CaptureInv, ResultIsOwn, Native!ResultIsOwn, Holding, Configured,
       Unharmed, Native!AddToMulti

(* A callback changes the capture and the cookies, of a transfer that is     *)
(* being driven.                                                             *)
LEMMA CallbackStep ==
    ASSUME NativeInv, sPc = "perform",
           sCapture' \in [body : Nat, headers : Nat, failure : Native!Failures,
                          cancelled : BOOLEAN],
           UNCHANGED <<sCall, sPc, sInUse, sInMulti, sEasy, sCode, sMulti, sInfo, sResult>>
    PROVE  NativeInv'
BY DEF NativeInv, HandleInv, CaptureInv, ResultIsOwn, Native!ResultIsOwn, Holding, Configured

(* The body callback, its limit and its sink keep NativeInv.                 *)
LEMMA BodyStep ==
    ASSUME NativeInv, NEW n \in Nat, Native!Body(n)
    PROVE  NativeInv'
<1>1. sCapture \in [body : Nat, headers : Nat, failure : Native!Failures, cancelled : BOOLEAN]
  BY DEF NativeInv, CaptureInv
<1>2. /\ sPc = "perform"
      /\ UNCHANGED <<sCall, sPc, sInUse, sInMulti, sEasy, sCode, sMulti, sInfo, sResult>>
  BY DEF Native!Body, Native!Receiving
<1>3. {"none", Native!BODY_LIMIT, Native!SINK_ERROR, Native!REFUSED} \subseteq Native!Failures
  BY DEF Native!Failures, Native!Flagged
<1>4. sCapture.body + n \in Nat
  BY <1>1
<1>5. sCapture' \in [body : Nat, headers : Nat, failure : Native!Failures, cancelled : BOOLEAN]
  <2>1. PICK b \in Nat, f \in Native!Failures :
           sCapture' = Native!CaptureOf(b, sCapture.headers, f, FALSE)
    BY <1>1, <1>3, <1>4 DEF Native!Body
  <2> QED
    BY <1>1, <2>1 DEF Native!CaptureOf
<1> QED
  BY <1>2, <1>5, CallbackStep

(* So does the header callback.                                              *)
LEMMA HeaderStep ==
    ASSUME NativeInv, NEW n \in Nat, Native!Header(n)
    PROVE  NativeInv'
<1>1. sCapture \in [body : Nat, headers : Nat, failure : Native!Failures, cancelled : BOOLEAN]
  BY DEF NativeInv, CaptureInv
<1>2. /\ sPc = "perform"
      /\ UNCHANGED <<sCall, sPc, sInUse, sInMulti, sEasy, sCode, sMulti, sInfo, sResult>>
  BY DEF Native!Header, Native!Receiving
<1>3. {"none", Native!HEADER_LIMIT} \subseteq Native!Failures
  BY DEF Native!Failures, Native!Flagged
<1>4. sCapture.headers + n \in Nat
  BY <1>1
<1>5. sCapture' \in [body : Nat, headers : Nat, failure : Native!Failures, cancelled : BOOLEAN]
  <2>1. PICK h \in Nat, f \in Native!Failures :
           sCapture' = Native!CaptureOf(sCapture.body, h, f, FALSE)
    BY <1>1, <1>3, <1>4 DEF Native!Header
  <2> QED
    BY <1>1, <2>1 DEF Native!CaptureOf
<1> QED
  BY <1>2, <1>5, CallbackStep

(* And the progress callback.                                                *)
LEMMA ProgressStep ==
    ASSUME NativeInv, Native!Progress
    PROVE  NativeInv'
<1>1. sCapture' \in [body : Nat, headers : Nat, failure : Native!Failures, cancelled : BOOLEAN]
  BY DEF NativeInv, CaptureInv, Native!Progress, Native!CaptureOf, Native!Failures
<1> QED
  BY <1>1, CallbackStep DEF Native!Progress, Native!Receiving

(* The end of the transfer: its code is "ok" only if no callback failed.     *)
LEMMA PerformEndsStep ==
    ASSUME NativeInv, Native!PerformEnds
    PROVE  NativeInv'
<1>1. /\ sPc = "perform" /\ sPc' = "remove" /\ sMulti = "ok"
      /\ UNCHANGED <<sCall, sInUse, sInMulti, sEasy, sCapture, sInfo, sResult>>
      /\ sInUse = TRUE /\ sInMulti = TRUE /\ sEasy = sCall
  BY DEF NativeInv, HandleInv, CaptureInv, Native!PerformEnds, Holding, Configured
<1>2. sMulti' = "ok" => sCode' # "failed_init" /\ (sCode' = "ok" => Unharmed')
  BY <1>1 DEF Native!PerformEnds, Unharmed
<1>3. HandleInv'
  BY <1>1 DEF HandleInv, Holding
<1> QED
  BY <1>1, <1>2, <1>3 DEF NativeInv, CaptureInv, ResultIsOwn, Native!ResultIsOwn

(* Taking the handle out, and releasing the flag with the metadata copied.   *)
LEMMA RemoveStep ==
    ASSUME NativeInv, Native!RemoveFromMulti
    PROVE  NativeInv'
BY DEF NativeInv, HandleInv, CaptureInv, ResultIsOwn, Native!ResultIsOwn, Holding, Configured,
       Unharmed, Native!RemoveFromMulti

(* The metadata is that of the easy handle, which is this call's.            *)
LEMMA ReleaseStep ==
    ASSUME NativeInv, Native!Release
    PROVE  NativeInv'
BY DEF NativeInv, HandleInv, CaptureInv, ResultIsOwn, Native!ResultIsOwn, Holding, Configured,
       Unharmed, Native!Release, Native!TransferInfo

(* What execute_detailed_inner reports follows from the capture and the code. *)
LEMMA ReportStep ==
    ASSUME NativeInv, Native!Report
    PROVE  NativeInv'
<1>1. /\ sPc = "returned" /\ sPc' = "idle"
      /\ UNCHANGED <<sCall, sInUse, sInMulti, sEasy, sCapture, sCode, sMulti, sInfo>>
      /\ sResult' = IF sCapture.failure \in Native!Flagged THEN sCapture.failure
                    ELSE Native!Status
  BY DEF Native!Report
<1>2. HandleInv' /\ CaptureInv'
  BY <1>1 DEF NativeInv, HandleInv, CaptureInv, Holding, Configured
<1>3. sCapture.failure \in Native!Flagged => sCapture.failure # "ok"
  BY DEF Native!Flagged, Native!BODY_LIMIT, Native!HEADER_LIMIT, Native!SINK_ERROR
<1>4. Native!Status = "ok" => sMulti = "ok" /\ sCode = "ok"
  BY DEF Native!Status
<1>5. Native!Status = "ok" => Unharmed /\ sInfo = sCall
  BY <1>1, <1>4 DEF NativeInv, HandleInv, CaptureInv, Configured
<1>6. ResultIsOwn'
  BY <1>1, <1>3, <1>5 DEF ResultIsOwn, Native!ResultIsOwn, Unharmed
<1> QED
  BY <1>2, <1>6 DEF NativeInv

(* Dropping the session, and doing nothing.                                  *)
LEMMA RestStep ==
    ASSUME NativeInv, Native!Drop \/ UNCHANGED Native!vars
    PROVE  NativeInv'
<1>1. CASE Native!Drop
  BY <1>1 DEF NativeInv, HandleInv, CaptureInv, ResultIsOwn, Native!ResultIsOwn, Holding,
              Configured, Native!Drop
<1>2. CASE UNCHANGED Native!vars
  BY <1>2 DEF NativeInv, HandleInv, CaptureInv, ResultIsOwn, Native!ResultIsOwn, Holding,
              Configured, Unharmed, Native!vars
<1> QED
  BY <1>1, <1>2

(* Every step of the bridge and its callbacks keeps NativeInv.               *)
LEMMA NativeNextInv == NativeInv /\ [Native!Next]_Native!vars => NativeInv'
<1>1. SUFFICES ASSUME NativeInv, [Native!Next]_Native!vars
               PROVE  NativeInv'
  OBVIOUS
<1>2. CASE Native!Bridge
  BY <1>1, <1>2, ConfigureStep, AddToMultiStep, PerformEndsStep, RemoveStep, ReleaseStep,
     ReportStep DEF Native!Bridge
<1>3. CASE \E n \in 1..MaxChunk : Native!Body(n) \/ Native!Header(n)
  <2>1. PICK n \in 1..MaxChunk : Native!Body(n) \/ Native!Header(n)
    BY <1>3
  <2>2. n \in Nat
    BY TransferAssumption
  <2> QED
    BY <1>1, <2>1, <2>2, BodyStep, HeaderStep
<1>4. CASE Native!Drop \/ Native!Done \/ UNCHANGED Native!vars
  BY <1>1, <1>4, RestStep DEF Native!Done
<1> QED
  BY <1>1, <1>2, <1>3, <1>4, AcquireStep, ProgressStep DEF Native!Next

(* NativeInv holds in every state of every native session.                   *)
THEOREM NativeInductive == Native!Spec => []NativeInv
BY NativeInitInv, NativeNextInv, PTL DEF Native!Spec

(* SessionReusable: whichever path the last call took through the bridge,    *)
(* between calls the flag is free and the easy handle is out of the multi    *)
(* handle.                                                                   *)
THEOREM SessionCorrect == Native!Spec => []SessionReusable
<1>1. NativeInv => SessionReusable
  BY DEF NativeInv, HandleInv, Holding, SessionReusable, Native!SessionReusable
<1> QED
  BY NativeInductive, <1>1, PTL

(* ResultIsOwn: a native call that succeeds had no failing callback and has  *)
(* its own metadata, and a limit or sink failure is reported as such.        *)
THEOREM ResultCorrect == Native!Spec => []ResultIsOwn
<1>1. NativeInv => ResultIsOwn
  BY DEF NativeInv
<1> QED
  BY NativeInductive, <1>1, PTL

-----------------------------------------------------------------------------
(* The plan's fields have their types, and its retries are bounded.          *)
LEMMA GoPlanType ==
    ASSUME GoTypeInv
    PROVE  /\ gPlan.retry \in Nat /\ gPlan.retry <= MaxRetries
           /\ gPlan.method \in Go!Methods /\ gPlan.body \in BOOLEAN
BY TransferAssumption DEF GoTypeInv, Go!Plans

(* The failures Execute returns are results.                                 *)
LEMMA FailureType ==
    ASSUME NEW c \in {303, 304, 600, 601, 602, 603, 700}, NEW why \in Go!Causes
    PROVE  Go!Failure(c, why) \in Go!Results
<1>1. Go!Failure(c, why) \in [kind : {"err"}, code : {303, 304, 600, 601, 602, 603, 700},
                              cause : Go!Causes]
  BY DEF Go!Failure
<1> QED
  BY <1>1 DEF Go!Results

(* GoInv holds when Execute is called.                                       *)
LEMMA GoInitInv == Go!Init => GoInv
<1>1. SUFFICES ASSUME Go!Init PROVE GoInv
  OBVIOUS
<1>2. /\ gPlan \in Go!Plans /\ gExpired = FALSE /\ gPc = "start" /\ gAttempt = 0
      /\ gMethod = gPlan.method /\ gHasBody = gPlan.body /\ gHops = 0
      /\ gResponse = [status |-> "other", location |-> "none"] /\ gOpen = 0 /\ gGot = 0
      /\ gCause = "none" /\ gResult = Go!NoResult /\ gLateTries = 0
  BY <1>1 DEF Go!Init, Go!NoResponse
<1>3. gPlan.retry \in Nat /\ gPlan.method \in Go!Methods /\ gPlan.body \in BOOLEAN
  BY <1>2, TransferAssumption DEF Go!Plans
<1>4. gResult \in Go!Results /\ gCause \in Go!Causes /\ gPc \in Go!Pcs
  BY <1>2 DEF Go!Results, Go!Causes, Go!Pcs
<1>5. gResponse \in [status : Go!Statuses, location : Go!Locations]
  BY <1>2 DEF Go!Statuses, Go!Locations
<1>6. 0 \in 0..MaxRedirs /\ 0 \in 0..(MaxBody + 1)
  BY TransferAssumption
<1>7. GoTypeInv
  <2>1. gExpired \in BOOLEAN /\ gMethod \in Go!Methods /\ gHasBody \in BOOLEAN
    BY <1>2, <1>3
  <2>2. gAttempt \in Nat /\ gAttempt <= gPlan.retry + 1 /\ gAttempt <= gPlan.retry
    BY <1>2, <1>3
  <2>3. gHops \in 0..MaxRedirs /\ gOpen \in Nat /\ gGot \in 0..(MaxBody + 1)
    BY <1>2, <1>6
  <2>4. gPlan \in Go!Plans /\ gPc = "start"
    BY <1>2
  <2> QED
    BY <1>4, <1>5, <2>1, <2>2, <2>3, <2>4 DEF GoTypeInv
<1>8. LateInv /\ AttemptsAreFresh
  BY <1>2 DEF LateInv, AttemptsAreFresh, Go!AttemptsAreFresh
<1> QED
  BY <1>7, <1>8 DEF GoInv

(* The deadline passes.                                                      *)
LEMMA ExpireStep ==
    ASSUME GoInv, Go!Expire
    PROVE  GoInv'
BY DEF GoInv, GoTypeInv, LateInv, AttemptsAreFresh, Go!AttemptsAreFresh, Go!Expire, Go!request

(* Execute's set-up fails or the loop begins.                                *)
LEMMA BeginStep ==
    ASSUME GoInv, Go!Begin
    PROVE  GoInv'
<1>1. /\ gPc = "start" /\ gPc' \in {"returned", "loop"}
      /\ UNCHANGED <<gPlan, gExpired, gAttempt, gMethod, gHasBody, gHops, gResponse, gOpen, gGot,
                     gCause, gLateTries>>
  BY DEF Go!Begin, Go!Return, Go!request
<1>2. gResult' \in Go!Results
  <2>1. CASE \E c \in Go!SetupErrors : Go!Return(Go!Failure(c, "setup"))
    <3>1. PICK c \in Go!SetupErrors : gResult' = Go!Failure(c, "setup")
      BY <2>1 DEF Go!Return
    <3>2. c \in {303, 304, 600, 601, 602, 603, 700} /\ "setup" \in Go!Causes
      BY DEF Go!SetupErrors, Go!Causes
    <3> QED
      BY <3>1, <3>2, FailureType
  <2>2. CASE UNCHANGED gResult
    BY <2>2 DEF GoInv, GoTypeInv
  <2> QED
    BY <2>1, <2>2 DEF Go!Begin
<1>3. GoTypeInv'
  BY <1>1, <1>2 DEF GoInv, GoTypeInv, Go!Pcs
<1>4. LateInv' /\ AttemptsAreFresh'
  BY <1>1 DEF GoInv, LateInv, AttemptsAreFresh, Go!AttemptsAreFresh
<1> QED
  BY <1>3, <1>4 DEF GoInv

(* An attempt begins with the plan's request; if it begins after the         *)
(* deadline, it is the first that does.                                      *)
LEMMA AttemptStep ==
    ASSUME GoInv, Go!Attempt
    PROVE  GoInv'
<1>1. /\ gPc = "loop" /\ gPc' = "send" /\ gAttempt' = gAttempt + 1
      /\ gLateTries' = IF gExpired THEN gLateTries + 1 ELSE gLateTries
      /\ gMethod' = gPlan.method /\ gHasBody' = gPlan.body /\ gHops' = 0
      /\ UNCHANGED <<gPlan, gExpired, gResponse, gOpen, gGot, gCause, gResult>>
  BY DEF Go!Attempt, Go!CountTry
<1>2. /\ gPlan.retry \in Nat /\ gPlan.method \in Go!Methods /\ gPlan.body \in BOOLEAN
      /\ gAttempt \in Nat /\ gAttempt <= gPlan.retry
  BY <1>1, GoPlanType DEF GoInv, GoTypeInv
<1>3. gLateTries = 0
  BY <1>1 DEF GoInv, LateInv
<1>4. 0 \in 0..MaxRedirs
  BY TransferAssumption
<1>5. GoTypeInv'
  BY <1>1, <1>2, <1>4 DEF GoInv, GoTypeInv, Go!Pcs
<1>6. LateInv'
  BY <1>1, <1>2, <1>3 DEF LateInv
<1>7. AttemptsAreFresh'
  BY <1>1 DEF GoInv, AttemptsAreFresh, Go!AttemptsAreFresh
<1> QED
  BY <1>5, <1>6, <1>7 DEF GoInv

(* A request fails to be built or is not sent, after the deadline never; or  *)
(* client.Do fails.                                                          *)
LEMMA SendStep ==
    ASSUME GoInv,
           \/ Go!Send
           \/ \E why \in {"tls", "timeout", "other", "deadline"} : Go!DoFails(why)
    PROVE  GoInv'
<1>1. /\ gPc \in {"send", "wait"} /\ gPc' \in {"failed", "wait"}
      /\ gPc' = "wait" => ~gExpired
      /\ gCause' \in Go!Causes
      /\ UNCHANGED <<gPlan, gExpired, gAttempt, gMethod, gHasBody, gHops, gResponse, gOpen, gGot,
                     gResult, gLateTries>>
  <2>1. CASE Go!Send
    <3>1. gCause \in Go!Causes
      BY DEF GoInv, GoTypeInv
    <3> QED
      BY <2>1, <3>1 DEF Go!Send, Go!TryFails, Go!request, Go!Causes
  <2>2. CASE \E why \in {"tls", "timeout", "other", "deadline"} : Go!DoFails(why)
    BY <2>2 DEF Go!DoFails, Go!TryFails, Go!request, Go!Causes
  <2> QED
    BY <2>1, <2>2
<1>2. GoTypeInv'
  BY <1>1 DEF GoInv, GoTypeInv, Go!Pcs
<1>3. LateInv' /\ AttemptsAreFresh'
  BY <1>1 DEF GoInv, LateInv, AttemptsAreFresh, Go!AttemptsAreFresh
<1> QED
  BY <1>2, <1>3 DEF GoInv

(* A response opens the only body.                                           *)
LEMMA RespondStep ==
    ASSUME GoInv, NEW s \in Go!Statuses, NEW l \in Go!Locations, Go!Respond(s, l)
    PROVE  GoInv'
<1>1. /\ gPc = "wait" /\ gPc' = "head" /\ gOpen' = gOpen + 1
      /\ gResponse' \in [status : Go!Statuses, location : Go!Locations]
      /\ UNCHANGED <<gPlan, gExpired, gAttempt, gMethod, gHasBody, gHops, gGot, gCause, gResult,
                     gLateTries>>
  BY DEF Go!Respond, Go!request
<1>2. gOpen = 0
  BY <1>1 DEF GoInv, AttemptsAreFresh, Go!AttemptsAreFresh
<1>3. GoTypeInv'
  BY <1>1, <1>2 DEF GoInv, GoTypeInv, Go!Pcs
<1>4. LateInv' /\ AttemptsAreFresh'
  BY <1>1, <1>2 DEF GoInv, LateInv, AttemptsAreFresh, Go!AttemptsAreFresh
<1> QED
  BY <1>3, <1>4 DEF GoInv

(* A redirect is refused or followed: the body is closed, and what was       *)
(* changed was changed into a GET without a body.                            *)
LEMMA RedirectStep ==
    ASSUME GoInv, Go!RefuseRedirect \/ Go!FollowRedirect
    PROVE  GoInv'
<1>1. gPc = "head" /\ gOpen' = gOpen - 1 /\ gOpen = 1 /\ gLateTries = 0
  BY DEF Go!RefuseRedirect, Go!FollowRedirect, GoInv, LateInv, AttemptsAreFresh,
         Go!AttemptsAreFresh
<1>2. UNCHANGED <<gPlan, gExpired, gAttempt, gResponse, gGot, gResult, gLateTries>>
  BY DEF Go!RefuseRedirect, Go!FollowRedirect
<1>3. CASE Go!RefuseRedirect
  <2>1. gPc' = "failed" /\ gCause' = "limit" /\ UNCHANGED <<gMethod, gHasBody, gHops>>
    BY <1>3 DEF Go!RefuseRedirect, Go!TryFails, Go!request
  <2>2. GoTypeInv'
    BY <1>1, <1>2, <2>1 DEF GoInv, GoTypeInv, Go!Pcs, Go!Causes
  <2>3. LateInv' /\ AttemptsAreFresh'
    BY <1>1, <1>2, <2>1 DEF GoInv, LateInv, AttemptsAreFresh, Go!AttemptsAreFresh
  <2> QED
    BY <2>2, <2>3 DEF GoInv
<1>4. CASE Go!FollowRedirect
  <2>1. /\ gPc' = "send" /\ gHops < MaxRedirs /\ gHops' = gHops + 1 /\ UNCHANGED gCause
        /\ gMethod' = IF Go!BecomesGet THEN "GET" ELSE gMethod
        /\ gHasBody' = (gHasBody /\ ~Go!BecomesGet)
    BY <1>4 DEF Go!FollowRedirect
  <2>2. gHops \in 0..MaxRedirs
    BY DEF GoInv, GoTypeInv
  <2>3. gHops' \in 0..MaxRedirs /\ gHops' > 0
    BY <2>1, <2>2, TransferAssumption
  <2>4. gMethod' \in Go!Methods /\ gHasBody' \in BOOLEAN
    BY <2>1 DEF GoInv, GoTypeInv, Go!Methods
  <2>5. GoTypeInv'
    BY <1>1, <1>2, <2>1, <2>3, <2>4 DEF GoInv, GoTypeInv, Go!Pcs
  <2>6. LateInv'
    BY <1>1, <1>2 DEF LateInv
  <2>7. AttemptsAreFresh'
    <3>1. CASE Go!BecomesGet
      <4>1. gMethod' = "GET" /\ gHasBody' = FALSE
        BY <2>1, <3>1
      <4> QED
        BY <1>1, <2>1, <2>3, <4>1 DEF AttemptsAreFresh, Go!AttemptsAreFresh
    <3>2. CASE ~Go!BecomesGet
      <4>1. gMethod' = gMethod /\ gHasBody' = gHasBody
        BY <2>1, <3>2 DEF GoInv, GoTypeInv
      <4> QED
        BY <1>1, <1>2, <2>1, <2>3, <4>1 DEF GoInv, AttemptsAreFresh, Go!AttemptsAreFresh
    <3> QED
      BY <3>1, <3>2
  <2> QED
    BY <2>5, <2>6, <2>7 DEF GoInv
<1> QED
  BY <1>3, <1>4

(* A response is kept, or drained if an attempt is left.                     *)
LEMMA AcceptStep ==
    ASSUME GoInv, Go!Accept
    PROVE  GoInv'
<1>1. /\ gPc = "head" /\ gPc' \in {"finish", "drain"} /\ gGot' \in {0, gGot}
      /\ gPc' = "drain" => ~(gAttempt > gPlan.retry)
      /\ UNCHANGED <<gPlan, gExpired, gAttempt, gMethod, gHasBody, gHops, gResponse, gOpen,
                     gCause, gResult, gLateTries>>
  BY DEF Go!Accept, Go!request
<1>2. gAttempt \in Nat /\ gPlan.retry \in Nat /\ gGot' \in 0..(MaxBody + 1)
  BY <1>1, GoPlanType, TransferAssumption DEF GoInv, GoTypeInv
<1>3. GoTypeInv'
  BY <1>1, <1>2 DEF GoInv, GoTypeInv, Go!Pcs
<1>4. LateInv' /\ AttemptsAreFresh'
  BY <1>1 DEF GoInv, LateInv, AttemptsAreFresh, Go!AttemptsAreFresh
<1> QED
  BY <1>3, <1>4 DEF GoInv

(* A drained body is closed.                                                 *)
LEMMA DrainStep ==
    ASSUME GoInv, Go!DrainEnds
    PROVE  GoInv'
<1>1. /\ gPc = "drain" /\ gPc' \in {"delay", "loop"} /\ gOpen' = gOpen - 1
      /\ UNCHANGED <<gPlan, gExpired, gAttempt, gMethod, gHasBody, gHops, gResponse, gGot,
                     gCause, gResult, gLateTries>>
  BY DEF Go!DrainEnds, Go!AfterTry, Go!request
<1>2. gOpen = 1
  BY <1>1 DEF GoInv, AttemptsAreFresh, Go!AttemptsAreFresh
<1>3. GoTypeInv'
  BY <1>1, <1>2 DEF GoInv, GoTypeInv, Go!Pcs
<1>4. LateInv' /\ AttemptsAreFresh'
  BY <1>1, <1>2 DEF GoInv, LateInv, AttemptsAreFresh, Go!AttemptsAreFresh
<1> QED
  BY <1>3, <1>4 DEF GoInv

(* classifyError gives one of the codes of a failure.                        *)
LEMMA ClassType ==
    ASSUME NEW why
    PROVE  Go!classifyError(why) \in {303, 304, 600, 601, 602, 603, 700}
BY DEF Go!classifyError

(* A failed attempt is followed by another only while attempts are left and  *)
(* the deadline has not passed; the delay before it may outlast the deadline. *)
LEMMA RetryStep ==
    ASSUME GoInv, Go!GiveUpOrRetry \/ Go!Delay
    PROVE  GoInv'
<1>1. /\ gPc \in {"failed", "delay"} /\ gPc' \in {"returned", "delay", "loop"}
      /\ gPc' # "returned" => /\ gPc = "failed" => ~gExpired /\ gAttempt <= gPlan.retry
                              /\ UNCHANGED gResult
      /\ UNCHANGED <<gPlan, gExpired, gAttempt, gMethod, gHasBody, gHops, gResponse, gOpen, gGot,
                     gCause, gLateTries>>
  BY DEF Go!GiveUpOrRetry, Go!Delay, Go!Return, Go!AfterTry, Go!request
<1>2. gResult' \in Go!Results
  <2>1. gCause \in Go!Causes /\ gResult \in Go!Results /\ "deadline" \in Go!Causes
    BY DEF GoInv, GoTypeInv, Go!Causes
  <2>2. \/ gResult' = gResult
        \/ \E why \in Go!Causes : gResult' = Go!Failure(Go!classifyError(why), why)
    BY <2>1 DEF Go!GiveUpOrRetry, Go!Delay, Go!Return
  <2> QED
    BY <2>1, <2>2, FailureType, ClassType
<1>3. GoTypeInv'
  BY <1>1, <1>2 DEF GoInv, GoTypeInv, Go!Pcs
<1>4. LateInv' /\ AttemptsAreFresh'
  BY <1>1 DEF GoInv, LateInv, AttemptsAreFresh, Go!AttemptsAreFresh
<1> QED
  BY <1>3, <1>4 DEF GoInv

(* finishTransfer reads on within its limited reader.                        *)
LEMMA ReadStep ==
    ASSUME GoInv, NEW n \in Nat, Go!Read(n)
    PROVE  GoInv'
<1>1. /\ gPc = "finish" /\ gGot' = gGot + n /\ gGot + n <= MaxBody + 1
      /\ UNCHANGED <<gPlan, gExpired, gPc, gAttempt, gMethod, gHasBody, gHops, gResponse, gOpen,
                     gCause, gResult, gLateTries>>
  BY DEF Go!Read, Go!request
<1>2. gGot' \in 0..(MaxBody + 1)
  BY <1>1, TransferAssumption DEF GoInv, GoTypeInv
<1>3. GoTypeInv'
  BY <1>1, <1>2 DEF GoInv, GoTypeInv
<1>4. LateInv' /\ AttemptsAreFresh'
  BY <1>1 DEF GoInv, LateInv, AttemptsAreFresh, Go!AttemptsAreFresh
<1> QED
  BY <1>3, <1>4 DEF GoInv

(* However finishTransfer ends, it closes the body, and a transfer it        *)
(* returns is within the limits.                                             *)
LEMMA FinishStep ==
    ASSUME GoInv, Go!BodyEnd \/ \E why \in {"other", "deadline"} : Go!BodyFails(why)
    PROVE  GoInv'
<1>1. /\ gPc = "finish" /\ gPc' = "returned" /\ gOpen' = gOpen - 1
      /\ UNCHANGED <<gPlan, gExpired, gAttempt, gMethod, gHasBody, gHops, gResponse, gGot,
                     gLateTries>>
  BY DEF Go!BodyEnd, Go!BodyFails, Go!Return, Go!request
<1>2. gOpen = 1
  BY <1>1 DEF GoInv, AttemptsAreFresh, Go!AttemptsAreFresh
<1>3. gCause' \in Go!Causes
  BY DEF Go!BodyEnd, Go!BodyFails, GoInv, GoTypeInv, Go!Causes
<1>4. gResult' \in Go!Results
  <2>1. {"other", "deadline", "limit"} \subseteq Go!Causes
    BY DEF Go!Causes
  <2>2. CASE \E why \in {"other", "deadline"} : gResult' = Go!Failure(600, why)
    BY <2>1, <2>2, FailureType
  <2>3. CASE gResult' = Go!Failure(700, "limit")
    BY <2>1, <2>3, FailureType
  <2>4. CASE gGot <= MaxBody /\ gResult' = Go!TransferOf
    <3>1. gGot \in 0..MaxBody
      BY <2>4, TransferAssumption DEF GoInv, GoTypeInv
    <3>2. gAttempt \in Nat /\ gAttempt >= 1 /\ gAttempt <= gPlan.retry + 1 /\ gHops \in 0..MaxRedirs
      BY <1>1 DEF GoInv, GoTypeInv
    <3>3. gAttempt \in 1..(MaxRetries + 1)
      BY <3>2, GoPlanType, TransferAssumption DEF GoInv
    <3>4. Go!retryableStatus(gResponse.status) \in BOOLEAN
      BY DEF Go!retryableStatus
    <3>5. Go!TransferOf \in [kind : {"ok"}, retryable : BOOLEAN, bytes : 0..MaxBody,
                             attempt : 1..(MaxRetries + 1), hops : 0..MaxRedirs]
      BY <3>1, <3>2, <3>3, <3>4 DEF Go!TransferOf
    <3> QED
      BY <2>4, <3>5 DEF Go!Results
  <2> QED
    BY <2>2, <2>3, <2>4 DEF Go!BodyEnd, Go!BodyFails, Go!Return
<1>5. GoTypeInv'
  BY <1>1, <1>2, <1>3, <1>4 DEF GoInv, GoTypeInv, Go!Pcs
<1>6. LateInv' /\ AttemptsAreFresh'
  BY <1>1, <1>2 DEF GoInv, LateInv, AttemptsAreFresh, Go!AttemptsAreFresh
<1> QED
  BY <1>5, <1>6 DEF GoInv

(* Every step of Execute and of its peer keeps GoInv.                        *)
LEMMA GoNextInv == GoInv /\ [Go!Next]_Go!vars => GoInv'
<1>1. SUFFICES ASSUME GoInv, [Go!Next]_Go!vars
               PROVE  GoInv'
  OBVIOUS
<1>2. CASE Go!Own
  BY <1>1, <1>2, BeginStep, AttemptStep, SendStep, RedirectStep, AcceptStep, RetryStep DEF Go!Own
<1>3. CASE Go!Peer
  <2>1. CASE \E n \in 1..MaxChunk : Go!Read(n)
    <3>1. PICK n \in 1..MaxChunk : Go!Read(n)
      BY <2>1
    <3>2. n \in Nat
      BY TransferAssumption
    <3> QED
      BY <1>1, <3>1, <3>2, ReadStep
  <2>2. CASE \E s \in Go!Statuses, l \in Go!Locations : Go!Respond(s, l)
    BY <1>1, <2>2, RespondStep
  <2> QED
    BY <1>1, <1>3, <2>1, <2>2, SendStep, DrainStep, FinishStep DEF Go!Peer
<1>4. CASE Go!Done \/ UNCHANGED Go!vars
  BY <1>1, <1>4 DEF Go!Done, Go!vars, Go!request, GoInv, GoTypeInv, LateInv, AttemptsAreFresh,
                    Go!AttemptsAreFresh
<1> QED
  BY <1>1, <1>2, <1>3, <1>4, ExpireStep DEF Go!Next

(* GoInv holds in every state of every call of Execute.                      *)
THEOREM GoInductive == Go!Spec => []GoInv
BY GoInitInv, GoNextInv, PTL DEF Go!Spec

(* The variables of Execute keep their types: never more attempts than       *)
(* --retry and one, more redirects than --max-redirs, or a longer body than  *)
(* the limit in a transfer.                                                  *)
THEOREM GoTypeCorrect == Go!Spec => []Go!TypeOK
<1>1. GoInv => Go!TypeOK
  <2>1. SUFFICES ASSUME GoInv PROVE Go!TypeOK
    OBVIOUS
  <2>2. gAttempt \in 0..(MaxRetries + 1) /\ gLateTries \in 0..(MaxRetries + 1)
    BY <2>1, GoPlanType, TransferAssumption DEF GoInv, GoTypeInv, LateInv
  <2> QED
    BY <2>1, <2>2 DEF GoInv, GoTypeInv, Go!TypeOK
<1> QED
  BY GoInductive, <1>1, PTL

(* AttemptsAreFresh: doOnce, Execute and finishTransfer close every body     *)
(* before another request is sent or the call returns, and every attempt     *)
(* starts from the plan's method and body.                                   *)
THEOREM AttemptsCorrect == Go!Spec => []AttemptsAreFresh
<1>1. GoInv => AttemptsAreFresh
  BY DEF GoInv
<1> QED
  BY GoInductive, <1>1, PTL

(* DeadlineStopsRetrying: after the context's deadline Execute begins at     *)
(* most one more attempt, however many retries are left.                     *)
THEOREM DeadlineCorrect == Go!Spec => []DeadlineStopsRetrying
<1>1. GoInv => DeadlineStopsRetrying
  BY DEF GoInv, LateInv, DeadlineStopsRetrying, Go!DeadlineStopsRetrying
<1> QED
  BY GoInductive, <1>1, PTL

-----------------------------------------------------------------------------
(* How many requests each position has behind it: one per attempt, and the  *)
(* current one from the moment it is sent.                                  *)
SentInv ==
    /\ attempt <= plan.retries
    /\ plan.native => plan.retries = 0
    /\ pc = "start" => attempt = 0 /\ sent = 0
    /\ pc \in {"loop", "send", "delay"} => sent = attempt
    /\ pc \in {"wait", "body", "got", "failed"} => sent = attempt + 1
    /\ pc = "returned" => sent <= attempt + 1

(* A request that goes out after the cancellation was past the check when   *)
(* the flag was raised: nobody reaches "send" with one behind it.           *)
CancelInv ==
    /\ sentCancelled <= 1
    /\ ~cancelled => sentCancelled = 0
    /\ pc \in {"start", "send"} => sentCancelled = 0

(* The redirect log and the sink are those of the current attempt.          *)
LogInv ==
    /\ pc = "wait" => sink.len = 0 /\ delivered = 0
    /\ pc \in {"start", "send"} => hops = 0
    /\ pc \in {"wait", "body", "got"} => hops = followed

(* What was returned, and what a failed attempt has for an error.           *)
ResultInv ==
    /\ pc = "failed" => error \in Codes
    /\ pc # "returned" => result = NoResult
    /\ ResponseIsLastAttempt

(* The inductive invariant of the Rust client.                              *)
IInv == TypeOK /\ SentInv /\ CancelInv /\ LogInv /\ SinkHoldsBody /\ ResultInv

USE TransferAssumption DEF requestVars, history, NoFile, NoResult, SinkOf, NewSink

-----------------------------------------------------------------------------
(* The codes are the diagnostics the type invariant allows.                 *)
LEMMA CodesAreCodes ==
    /\ RequestErrors \subseteq Codes
    /\ {E_PROTOCOL_DENIED, E_FILE_DENIED, E_POLICY, E_TRANSFER, E_TIMEOUT, E_TLS, E_REDIRECT,
        E_CONNECT_POLICY, E_CANCELLED, E_BODY_LIMIT} \subseteq Codes
    /\ 0 \notin Codes
  BY
     DEF Codes, RequestErrors, E_PROTOCOL_DENIED, E_FILE_DENIED, E_POLICY, E_TRANSFER,
         E_TIMEOUT,
         E_TLS, E_REDIRECT, E_CONNECT_POLICY, E_CANCELLED, E_BODY_LIMIT

(* An error result is a result, whichever code it has.                      *)
LEMMA ErrResult ==
    ASSUME NEW code \in Codes
    PROVE  [kind |-> "err", code |-> code] \in Results
  BY DEF Results

(* The response of an attempt is a result.                                  *)
LEMMA ResponseResult == TypeOK => Response \in Results
  BY DEF TypeOK, Response, Results, Sinks

(* The initial state satisfies the inductive invariant.                     *)
LEMMA InitIInv == Init => IInv
  <1> SUFFICES ASSUME Init PROVE IInv
    OBVIOUS
  <1>1. TypeOK
    <2>1. result \in Results
      BY DEF Init, Results
    <2>2. sink \in Sinks
      BY DEF Init, Sinks
    <2>3. cancelled \in BOOLEAN /\ late \in BOOLEAN /\ retryable \in BOOLEAN
      BY Zenon DEF Init
    <2> QED
      BY <2>1, <2>2, <2>3 DEF Init, TypeOK, Pcs
  <1>2. SentInv /\ CancelInv /\ LogInv
    BY DEF Init, SentInv, CancelInv, LogInv, Plans, Eligible
  <1>3. SinkHoldsBody /\ ResultInv
    BY DEF Init, SinkHoldsBody, ResultInv, ResponseIsLastAttempt
  <1> QED
    BY <1>1, <1>2, <1>3 DEF IInv

-----------------------------------------------------------------------------
(* Requests are counted, whatever ends them.                                *)
LEMMA SentStep == IInv /\ [Next]_vars => SentInv'
  <1> SUFFICES ASSUME IInv, [Next]_vars PROVE SentInv'
    OBVIOUS
  <1>0. TypeOK /\ SentInv
    BY DEF IInv
  <1>1. CASE Begin
    BY <1>0, <1>1 DEF Begin, Return, ReturnErr, SentInv, TypeOK
  <1>2. CASE LoopTop
    BY <1>0, <1>2 DEF LoopTop, Return, ReturnErr, SentInv, TypeOK
  <1>3. CASE Send
    BY <1>0, <1>3 DEF Send, SentInv, TypeOK
  <1>4. ASSUME NEW code \in RequestErrors, RequestFails(code) PROVE SentInv'
    BY <1>0, <1>4 DEF RequestFails, AttemptFails, SentInv, TypeOK
  <1>5. ASSUME NEW allowed \in BOOLEAN, Redirected(allowed) PROVE SentInv'
    BY <1>0, <1>5 DEF Redirected, AttemptFails, SentInv, TypeOK
  <1>6. ASSUME NEW again \in BOOLEAN, Respond(again) PROVE SentInv'
    BY <1>0, <1>6 DEF Respond, AttemptFails, SentInv, TypeOK
  <1>7. CASE BodyCancelled
    BY <1>0, <1>7 DEF BodyCancelled, AttemptFails, SentInv, TypeOK
  <1>8. ASSUME NEW code \in {E_TRANSFER, E_TIMEOUT}, BodyFails(code) PROVE SentInv'
    BY <1>0, <1>8 DEF BodyFails, AttemptFails, SentInv, TypeOK
  <1>9. ASSUME NEW n \in 1..MaxChunk, Chunk(n) PROVE SentInv'
    BY <1>0, <1>9 DEF Chunk, AttemptFails, Pushed, SentInv, TypeOK
  <1>10. CASE BodyEnd
    BY <1>0, <1>10 DEF BodyEnd, AttemptFails, SentInv, TypeOK
  <1>11. CASE Got
    BY <1>0, <1>11 DEF Got, Return, ReturnErr, MayRetry, Retry, Response, SentInv, TypeOK, Plans
  <1>12. CASE GiveUpOrRetry
    BY <1>0, <1>12 DEF GiveUpOrRetry, Return, ReturnErr, MayRetry, Retry, SentInv, TypeOK, Plans
  <1>13. CASE Delay
    BY <1>0, <1>13 DEF Delay, Return, ReturnErr, SentInv, TypeOK
  <1>14. CASE Cancel
    BY <1>0, <1>14 DEF Cancel, SentInv, TypeOK
  <1>15. CASE RetryWindowEnds
    BY <1>0, <1>15 DEF RetryWindowEnds, SentInv, TypeOK
  <1>16. CASE Done
    BY <1>0, <1>16 DEF Done, vars, SentInv, TypeOK
  <1>17. CASE UNCHANGED vars
    BY <1>0, <1>17 DEF vars, SentInv, TypeOK
  <1> QED
    BY <1>1, <1>2, <1>3, <1>4, <1>5, <1>6, <1>7, <1>8, <1>9, <1>10, <1>11, <1>12, <1>13,
       <1>14, <1>15, <1>16, <1>17
       DEF Next, Step

(* The cancellation is seen between two requests.                           *)
LEMMA CancelStep == IInv /\ [Next]_vars => CancelInv'
  <1> SUFFICES ASSUME IInv, [Next]_vars PROVE CancelInv'
    OBVIOUS
  <1>0. TypeOK /\ CancelInv
    BY DEF IInv
  <1>1. CASE Begin
    BY <1>0, <1>1 DEF Begin, Return, ReturnErr, CancelInv, TypeOK
  <1>2. CASE LoopTop
    BY <1>0, <1>2 DEF LoopTop, Return, ReturnErr, CancelInv, TypeOK
  <1>3. CASE Send
    BY <1>0, <1>3 DEF Send, CancelInv, TypeOK
  <1>4. ASSUME NEW code \in RequestErrors, RequestFails(code) PROVE CancelInv'
    BY <1>0, <1>4 DEF RequestFails, AttemptFails, CancelInv, TypeOK
  <1>5. ASSUME NEW allowed \in BOOLEAN, Redirected(allowed) PROVE CancelInv'
    BY <1>0, <1>5 DEF Redirected, AttemptFails, CancelInv, TypeOK
  <1>6. ASSUME NEW again \in BOOLEAN, Respond(again) PROVE CancelInv'
    BY <1>0, <1>6 DEF Respond, AttemptFails, CancelInv, TypeOK
  <1>7. CASE BodyCancelled
    BY <1>0, <1>7 DEF BodyCancelled, AttemptFails, CancelInv, TypeOK
  <1>8. ASSUME NEW code \in {E_TRANSFER, E_TIMEOUT}, BodyFails(code) PROVE CancelInv'
    BY <1>0, <1>8 DEF BodyFails, AttemptFails, CancelInv, TypeOK
  <1>9. ASSUME NEW n \in 1..MaxChunk, Chunk(n) PROVE CancelInv'
    BY <1>0, <1>9 DEF Chunk, AttemptFails, Pushed, CancelInv, TypeOK
  <1>10. CASE BodyEnd
    BY <1>0, <1>10 DEF BodyEnd, AttemptFails, CancelInv, TypeOK
  <1>11. CASE Got
    BY <1>0, <1>11 DEF Got, Return, ReturnErr, MayRetry, Retry, Response, CancelInv, TypeOK
  <1>12. CASE GiveUpOrRetry
    BY <1>0, <1>12 DEF GiveUpOrRetry, Return, ReturnErr, MayRetry, Retry, CancelInv, TypeOK
  <1>13. CASE Delay
    BY <1>0, <1>13 DEF Delay, Return, ReturnErr, CancelInv, TypeOK
  <1>14. CASE Cancel
    BY <1>0, <1>14 DEF Cancel, CancelInv, TypeOK
  <1>15. CASE RetryWindowEnds
    BY <1>0, <1>15 DEF RetryWindowEnds, CancelInv, TypeOK
  <1>16. CASE Done
    BY <1>0, <1>16 DEF Done, vars, CancelInv, TypeOK
  <1>17. CASE UNCHANGED vars
    BY <1>0, <1>17 DEF vars, CancelInv, TypeOK
  <1> QED
    BY <1>1, <1>2, <1>3, <1>4, <1>5, <1>6, <1>7, <1>8, <1>9, <1>10, <1>11, <1>12, <1>13,
       <1>14, <1>15, <1>16, <1>17
       DEF Next, Step

(* The redirect log starts afresh and grows with the redirects.             *)
LEMMA LogStep == IInv /\ [Next]_vars => LogInv'
  <1> SUFFICES ASSUME IInv, [Next]_vars PROVE LogInv'
    OBVIOUS
  <1>0. TypeOK /\ LogInv /\ SentInv
    BY DEF IInv
  <1>1. CASE Begin
    BY <1>0, <1>1 DEF Begin, Return, ReturnErr, LogInv, TypeOK
  <1>2. CASE LoopTop
    BY <1>0, <1>2 DEF LoopTop, Return, ReturnErr, LogInv, TypeOK
  <1>3. CASE Send
    BY <1>0, <1>3 DEF Send, LogInv, TypeOK
  <1>4. ASSUME NEW code \in RequestErrors, RequestFails(code) PROVE LogInv'
    BY <1>0, <1>4 DEF RequestFails, AttemptFails, LogInv, TypeOK
  <1>5. ASSUME NEW allowed \in BOOLEAN, Redirected(allowed) PROVE LogInv'
    BY <1>0, <1>5 DEF Redirected, AttemptFails, LogInv, TypeOK
  <1>6. ASSUME NEW again \in BOOLEAN, Respond(again) PROVE LogInv'
    BY <1>0, <1>6 DEF Respond, AttemptFails, LogInv, TypeOK
  <1>7. CASE BodyCancelled
    BY <1>0, <1>7 DEF BodyCancelled, AttemptFails, LogInv, TypeOK
  <1>8. ASSUME NEW code \in {E_TRANSFER, E_TIMEOUT}, BodyFails(code) PROVE LogInv'
    BY <1>0, <1>8 DEF BodyFails, AttemptFails, LogInv, TypeOK
  <1>9. ASSUME NEW n \in 1..MaxChunk, Chunk(n) PROVE LogInv'
    BY <1>0, <1>9 DEF Chunk, AttemptFails, Pushed, LogInv, TypeOK
  <1>10. CASE BodyEnd
    BY <1>0, <1>10 DEF BodyEnd, AttemptFails, LogInv, TypeOK
  <1>11. CASE Got
    BY <1>0, <1>11 DEF Got, Return, ReturnErr, MayRetry, Retry, Response, LogInv, TypeOK
  <1>12. CASE GiveUpOrRetry
    BY <1>0, <1>12 DEF GiveUpOrRetry, Return, ReturnErr, MayRetry, Retry, LogInv, TypeOK
  <1>13. CASE Delay
    BY <1>0, <1>13 DEF Delay, Return, ReturnErr, LogInv, TypeOK
  <1>14. CASE Cancel
    BY <1>0, <1>14 DEF Cancel, LogInv, TypeOK
  <1>15. CASE RetryWindowEnds
    BY <1>0, <1>15 DEF RetryWindowEnds, LogInv, TypeOK
  <1>16. CASE Done
    BY <1>0, <1>16 DEF Done, vars, LogInv, TypeOK
  <1>17. CASE UNCHANGED vars
    BY <1>0, <1>17 DEF vars, LogInv, TypeOK
  <1> QED
    BY <1>1, <1>2, <1>3, <1>4, <1>5, <1>6, <1>7, <1>8, <1>9, <1>10, <1>11, <1>12, <1>13,
       <1>14, <1>15, <1>16, <1>17
       DEF Next, Step

(* The sink keeps every byte of the body, in one place.                     *)
LEMMA SinkStep == IInv /\ [Next]_vars => SinkHoldsBody'
  <1> SUFFICES ASSUME IInv, [Next]_vars PROVE SinkHoldsBody'
    OBVIOUS
  <1>0. TypeOK /\ SinkHoldsBody /\ LogInv
    BY DEF IInv
  <1>1. CASE Begin
    BY <1>0, <1>1 DEF Begin, Return, ReturnErr, SinkHoldsBody, TypeOK, Sinks
  <1>2. CASE LoopTop
    BY <1>0, <1>2 DEF LoopTop, Return, ReturnErr, SinkHoldsBody, TypeOK, Sinks
  <1>3. CASE Send
    BY <1>0, <1>3 DEF Send, SinkHoldsBody, TypeOK, Sinks
  <1>4. ASSUME NEW code \in RequestErrors, RequestFails(code) PROVE SinkHoldsBody'
    BY <1>0, <1>4 DEF RequestFails, AttemptFails, SinkHoldsBody, TypeOK, Sinks
  <1>5. ASSUME NEW allowed \in BOOLEAN, Redirected(allowed) PROVE SinkHoldsBody'
    BY <1>0, <1>5 DEF Redirected, AttemptFails, SinkHoldsBody, TypeOK, Sinks
  <1>6. ASSUME NEW again \in BOOLEAN, Respond(again) PROVE SinkHoldsBody'
    BY <1>0, <1>6 DEF Respond, AttemptFails, LogInv, SinkHoldsBody, TypeOK, Sinks
  <1>7. CASE BodyCancelled
    BY <1>0, <1>7 DEF BodyCancelled, AttemptFails, SinkHoldsBody, TypeOK, Sinks
  <1>8. ASSUME NEW code \in {E_TRANSFER, E_TIMEOUT}, BodyFails(code) PROVE SinkHoldsBody'
    BY <1>0, <1>8 DEF BodyFails, AttemptFails, SinkHoldsBody, TypeOK, Sinks
  <1>9. ASSUME NEW n \in 1..MaxChunk, Chunk(n) PROVE SinkHoldsBody'
    BY <1>0, <1>9 DEF Chunk, AttemptFails, Pushed, SinkHoldsBody, TypeOK, Sinks
  <1>10. CASE BodyEnd
    BY <1>0, <1>10 DEF BodyEnd, AttemptFails, SinkHoldsBody, TypeOK, Sinks
  <1>11. CASE Got
    BY <1>0, <1>11
       DEF Got, Return, ReturnErr, MayRetry, Retry, Response, SinkHoldsBody, TypeOK, Sinks
  <1>12. CASE GiveUpOrRetry
    BY <1>0, <1>12
       DEF GiveUpOrRetry, Return, ReturnErr, MayRetry, Retry, SinkHoldsBody, TypeOK, Sinks
  <1>13. CASE Delay
    BY <1>0, <1>13 DEF Delay, Return, ReturnErr, SinkHoldsBody, TypeOK, Sinks
  <1>14. CASE Cancel
    BY <1>0, <1>14 DEF Cancel, SinkHoldsBody, TypeOK, Sinks
  <1>15. CASE RetryWindowEnds
    BY <1>0, <1>15 DEF RetryWindowEnds, SinkHoldsBody, TypeOK, Sinks
  <1>16. CASE Done
    BY <1>0, <1>16 DEF Done, vars, SinkHoldsBody, TypeOK, Sinks
  <1>17. CASE UNCHANGED vars
    BY <1>0, <1>17 DEF vars, SinkHoldsBody, TypeOK, Sinks
  <1> QED
    BY <1>1, <1>2, <1>3, <1>4, <1>5, <1>6, <1>7, <1>8, <1>9, <1>10, <1>11, <1>12, <1>13,
       <1>14, <1>15, <1>16, <1>17
       DEF Next, Step

(* A response is returned with what the sink and the log hold.              *)
LEMMA ResultStep == IInv /\ [Next]_vars => ResultInv'
  <1> SUFFICES ASSUME IInv, [Next]_vars PROVE ResultInv'
    OBVIOUS
  <1>0. TypeOK /\ ResultInv /\ SentInv /\ LogInv /\ SinkHoldsBody
    BY DEF IInv
  <1> USE CodesAreCodes
  <1>1. CASE Begin
    BY <1>0, <1>1 DEF Begin, Return, ReturnErr, ResultInv, ResponseIsLastAttempt, TypeOK
  <1>2. CASE LoopTop
    BY <1>0, <1>2 DEF LoopTop, Return, ReturnErr, ResultInv, ResponseIsLastAttempt, TypeOK
  <1>3. CASE Send
    BY <1>0, <1>3 DEF Send, ResultInv, ResponseIsLastAttempt, TypeOK
  <1>4. ASSUME NEW code \in RequestErrors, RequestFails(code) PROVE ResultInv'
    BY <1>0, <1>4 DEF RequestFails, AttemptFails, ResultInv, ResponseIsLastAttempt, TypeOK
  <1>5. ASSUME NEW allowed \in BOOLEAN, Redirected(allowed) PROVE ResultInv'
    BY <1>0, <1>5 DEF Redirected, AttemptFails, ResultInv, ResponseIsLastAttempt, TypeOK
  <1>6. ASSUME NEW again \in BOOLEAN, Respond(again) PROVE ResultInv'
    BY <1>0, <1>6 DEF Respond, AttemptFails, ResultInv, ResponseIsLastAttempt, TypeOK
  <1>7. CASE BodyCancelled
    BY <1>0, <1>7 DEF BodyCancelled, AttemptFails, ResultInv, ResponseIsLastAttempt, TypeOK
  <1>8. ASSUME NEW code \in {E_TRANSFER, E_TIMEOUT}, BodyFails(code) PROVE ResultInv'
    BY <1>0, <1>8 DEF BodyFails, AttemptFails, ResultInv, ResponseIsLastAttempt, TypeOK
  <1>9. ASSUME NEW n \in 1..MaxChunk, Chunk(n) PROVE ResultInv'
    BY <1>0, <1>9 DEF Chunk, AttemptFails, Pushed, ResultInv, ResponseIsLastAttempt, TypeOK
  <1>10. CASE BodyEnd
    BY <1>0, <1>10 DEF BodyEnd, AttemptFails, ResultInv, ResponseIsLastAttempt, TypeOK
  <1>11. CASE Got
    BY <1>0, <1>11
       DEF Got, Return, ReturnErr, MayRetry, Retry, Response, ResultInv, ResponseIsLastAttempt,
           TypeOK, Plans, SentInv, LogInv, SinkHoldsBody
  <1>12. CASE GiveUpOrRetry
    BY <1>0, <1>12
       DEF GiveUpOrRetry, Return, ReturnErr, MayRetry, Retry, ResultInv, ResponseIsLastAttempt,
           TypeOK
  <1>13. CASE Delay
    BY <1>0, <1>13 DEF Delay, Return, ReturnErr, ResultInv, ResponseIsLastAttempt, TypeOK
  <1>14. CASE Cancel
    BY <1>0, <1>14 DEF Cancel, ResultInv, ResponseIsLastAttempt, TypeOK
  <1>15. CASE RetryWindowEnds
    BY <1>0, <1>15 DEF RetryWindowEnds, ResultInv, ResponseIsLastAttempt, TypeOK
  <1>16. CASE Done
    BY <1>0, <1>16 DEF Done, vars, ResultInv, ResponseIsLastAttempt, TypeOK
  <1>17. CASE UNCHANGED vars
    BY <1>0, <1>17 DEF vars, ResultInv, ResponseIsLastAttempt, TypeOK
  <1> QED
    BY <1>1, <1>2, <1>3, <1>4, <1>5, <1>6, <1>7, <1>8, <1>9, <1>10, <1>11, <1>12, <1>13,
       <1>14, <1>15, <1>16, <1>17
       DEF Next, Step

(* The parts of the type invariant, proved one by one.                      *)
Counters ==
    /\ plan \in Plans /\ pc \in Pcs /\ attempt \in 0..MaxRetries
    /\ hops \in 0..MaxRedirs /\ followed \in Nat /\ delivered \in Nat
    /\ sent \in 0..(MaxRetries + 1) /\ sentCancelled \in 0..(MaxRetries + 1)
Flags == cancelled \in BOOLEAN /\ late \in BOOLEAN /\ retryable \in BOOLEAN
SinkType == sink \in Sinks
ResultType == error \in Codes \cup {0} /\ result \in Results

(* The counters stay within their bounds, by SentInv.                       *)
LEMMA CountersStep == IInv /\ [Next]_vars => Counters'
  <1> SUFFICES ASSUME IInv, [Next]_vars PROVE Counters'
    OBVIOUS
  <1>0. TypeOK /\ SentInv /\ CancelInv
    BY DEF IInv
  <1>1. CASE Begin
    BY <1>0, <1>1 DEF Counters, Begin, Return, ReturnErr, TypeOK, Pcs, SentInv, CancelInv, Plans
  <1>2. CASE LoopTop
    BY <1>0, <1>2
       DEF Counters, LoopTop, Return, ReturnErr, TypeOK, Pcs, SentInv, CancelInv, Plans
  <1>3. CASE Send
    BY <1>0, <1>3 DEF Counters, Send, TypeOK, Pcs, SentInv, CancelInv, Plans
  <1>4. ASSUME NEW code \in RequestErrors, RequestFails(code) PROVE Counters'
    BY <1>0, <1>4
       DEF Counters, RequestFails, AttemptFails, TypeOK, Pcs, SentInv, CancelInv, Plans
  <1>5. ASSUME NEW allowed \in BOOLEAN, Redirected(allowed) PROVE Counters'
    BY <1>0, <1>5 DEF Counters, Redirected, AttemptFails, TypeOK, Pcs, SentInv, CancelInv, Plans
  <1>6. ASSUME NEW again \in BOOLEAN, Respond(again) PROVE Counters'
    BY <1>0, <1>6 DEF Counters, Respond, AttemptFails, TypeOK, Pcs, SentInv, CancelInv, Plans
  <1>7. CASE BodyCancelled
    BY <1>0, <1>7
       DEF Counters, BodyCancelled, AttemptFails, TypeOK, Pcs, SentInv, CancelInv, Plans
  <1>8. ASSUME NEW code \in {E_TRANSFER, E_TIMEOUT}, BodyFails(code) PROVE Counters'
    BY <1>0, <1>8 DEF Counters, BodyFails, AttemptFails, TypeOK, Pcs, SentInv, CancelInv, Plans
  <1>9. ASSUME NEW n \in 1..MaxChunk, Chunk(n) PROVE Counters'
    BY <1>0, <1>9 DEF Counters, Chunk, AttemptFails, TypeOK, Pcs, SentInv, CancelInv, Plans
  <1>10. CASE BodyEnd
    BY <1>0, <1>10 DEF Counters, BodyEnd, AttemptFails, TypeOK, Pcs, SentInv, CancelInv, Plans
  <1>11. CASE Got
    BY <1>0, <1>11
       DEF Counters, Got, Return, ReturnErr, MayRetry, Retry, TypeOK, Pcs, SentInv, CancelInv,
           Plans
  <1>12. CASE GiveUpOrRetry
    BY <1>0, <1>12
       DEF Counters, GiveUpOrRetry, Return, ReturnErr, MayRetry, Retry, TypeOK, Pcs, SentInv,
           CancelInv, Plans
  <1>13. CASE Delay
    BY <1>0, <1>13
       DEF Counters, Delay, Return, ReturnErr, TypeOK, Pcs, SentInv, CancelInv, Plans
  <1>14. CASE Cancel
    BY <1>0, <1>14 DEF Counters, Cancel, TypeOK, Pcs, SentInv, CancelInv, Plans
  <1>15. CASE RetryWindowEnds
    BY <1>0, <1>15 DEF Counters, RetryWindowEnds, TypeOK, Pcs, SentInv, CancelInv, Plans
  <1>16. CASE Done
    BY <1>0, <1>16 DEF Counters, Done, vars, TypeOK, Pcs, SentInv, CancelInv, Plans
  <1>17. CASE UNCHANGED vars
    BY <1>0, <1>17 DEF Counters, vars, TypeOK, Pcs, SentInv, CancelInv, Plans
  <1> QED
    BY <1>1, <1>2, <1>3, <1>4, <1>5, <1>6, <1>7, <1>8, <1>9, <1>10, <1>11, <1>12, <1>13,
       <1>14, <1>15, <1>16, <1>17
       DEF Next, Step

(* The flags stay Boolean.                                                  *)
LEMMA FlagsStep == IInv /\ [Next]_vars => Flags'
  <1> SUFFICES ASSUME IInv, [Next]_vars PROVE Flags'
    OBVIOUS
  <1>0. TypeOK
    BY DEF IInv
  <1>1. CASE Begin
    BY Zenon, <1>0, <1>1 DEF Flags, Begin, Return, ReturnErr, TypeOK
  <1>2. CASE LoopTop
    BY Zenon, <1>0, <1>2 DEF Flags, LoopTop, Return, ReturnErr, TypeOK
  <1>3. CASE Send
    BY Zenon, <1>0, <1>3 DEF Flags, Send, TypeOK
  <1>4. ASSUME NEW code \in RequestErrors, RequestFails(code) PROVE Flags'
    BY Zenon, <1>0, <1>4 DEF Flags, RequestFails, AttemptFails, TypeOK
  <1>5. ASSUME NEW allowed \in BOOLEAN, Redirected(allowed) PROVE Flags'
    BY Zenon, <1>0, <1>5 DEF Flags, Redirected, AttemptFails, TypeOK
  <1>6. ASSUME NEW again \in BOOLEAN, Respond(again) PROVE Flags'
    BY Zenon, <1>0, <1>6 DEF Flags, Respond, AttemptFails, TypeOK
  <1>7. CASE BodyCancelled
    BY Zenon, <1>0, <1>7 DEF Flags, BodyCancelled, AttemptFails, TypeOK
  <1>8. ASSUME NEW code \in {E_TRANSFER, E_TIMEOUT}, BodyFails(code) PROVE Flags'
    BY Zenon, <1>0, <1>8 DEF Flags, BodyFails, AttemptFails, TypeOK
  <1>9. ASSUME NEW n \in 1..MaxChunk, Chunk(n) PROVE Flags'
    BY Zenon, <1>0, <1>9 DEF Flags, Chunk, AttemptFails, TypeOK
  <1>10. CASE BodyEnd
    BY Zenon, <1>0, <1>10 DEF Flags, BodyEnd, AttemptFails, TypeOK
  <1>11. CASE Got
    BY Zenon, <1>0, <1>11 DEF Flags, Got, Return, ReturnErr, MayRetry, Retry, TypeOK
  <1>12. CASE GiveUpOrRetry
    BY Zenon, <1>0, <1>12 DEF Flags, GiveUpOrRetry, Return, ReturnErr, MayRetry, Retry, TypeOK
  <1>13. CASE Delay
    BY Zenon, <1>0, <1>13 DEF Flags, Delay, Return, ReturnErr, TypeOK
  <1>14. CASE Cancel
    BY Zenon, <1>0, <1>14 DEF Flags, Cancel, TypeOK
  <1>15. CASE RetryWindowEnds
    BY Zenon, <1>0, <1>15 DEF Flags, RetryWindowEnds, TypeOK
  <1>16. CASE Done
    BY Zenon, <1>0, <1>16 DEF Flags, Done, vars, TypeOK
  <1>17. CASE UNCHANGED vars
    BY Zenon, <1>0, <1>17 DEF Flags, vars, TypeOK
  <1> QED
    BY <1>1, <1>2, <1>3, <1>4, <1>5, <1>6, <1>7, <1>8, <1>9, <1>10, <1>11, <1>12, <1>13,
       <1>14, <1>15, <1>16, <1>17
       DEF Next, Step

(* No sink grows past the body limit.                                       *)
LEMMA SinkTypeStep == IInv /\ [Next]_vars => SinkType'
  <1> SUFFICES ASSUME IInv, [Next]_vars PROVE SinkType'
    OBVIOUS
  <1>0. TypeOK /\ SinkHoldsBody
    BY DEF IInv
  <1>1. CASE Begin
    BY <1>0, <1>1 DEF SinkType, Begin, Return, ReturnErr, TypeOK, Sinks
  <1>2. CASE LoopTop
    BY <1>0, <1>2 DEF SinkType, LoopTop, Return, ReturnErr, TypeOK, Sinks
  <1>3. CASE Send
    BY <1>0, <1>3 DEF SinkType, Send, TypeOK, Sinks
  <1>4. ASSUME NEW code \in RequestErrors, RequestFails(code) PROVE SinkType'
    BY <1>0, <1>4 DEF SinkType, RequestFails, AttemptFails, TypeOK, Sinks
  <1>5. ASSUME NEW allowed \in BOOLEAN, Redirected(allowed) PROVE SinkType'
    BY <1>0, <1>5 DEF SinkType, Redirected, AttemptFails, TypeOK, Sinks
  <1>6. ASSUME NEW again \in BOOLEAN, Respond(again) PROVE SinkType'
    BY <1>0, <1>6 DEF SinkType, Respond, AttemptFails, TypeOK, Sinks
  <1>7. CASE BodyCancelled
    BY <1>0, <1>7 DEF SinkType, BodyCancelled, AttemptFails, TypeOK, Sinks
  <1>8. ASSUME NEW code \in {E_TRANSFER, E_TIMEOUT}, BodyFails(code) PROVE SinkType'
    BY <1>0, <1>8 DEF SinkType, BodyFails, AttemptFails, TypeOK, Sinks
  <1>9. ASSUME NEW n \in 1..MaxChunk, Chunk(n) PROVE SinkType'
    BY <1>0, <1>9 DEF SinkType, Chunk, AttemptFails, TypeOK, Sinks, Pushed, SinkHoldsBody
  <1>10. CASE BodyEnd
    BY <1>0, <1>10 DEF SinkType, BodyEnd, AttemptFails, TypeOK, Sinks
  <1>11. CASE Got
    BY <1>0, <1>11 DEF SinkType, Got, Return, ReturnErr, MayRetry, Retry, TypeOK, Sinks
  <1>12. CASE GiveUpOrRetry
    BY <1>0, <1>12
       DEF SinkType, GiveUpOrRetry, Return, ReturnErr, MayRetry, Retry, TypeOK, Sinks
  <1>13. CASE Delay
    BY <1>0, <1>13 DEF SinkType, Delay, Return, ReturnErr, TypeOK, Sinks
  <1>14. CASE Cancel
    BY <1>0, <1>14 DEF SinkType, Cancel, TypeOK, Sinks
  <1>15. CASE RetryWindowEnds
    BY <1>0, <1>15 DEF SinkType, RetryWindowEnds, TypeOK, Sinks
  <1>16. CASE Done
    BY <1>0, <1>16 DEF SinkType, Done, vars, TypeOK, Sinks
  <1>17. CASE UNCHANGED vars
    BY <1>0, <1>17 DEF SinkType, vars, TypeOK, Sinks
  <1> QED
    BY <1>1, <1>2, <1>3, <1>4, <1>5, <1>6, <1>7, <1>8, <1>9, <1>10, <1>11, <1>12, <1>13,
       <1>14, <1>15, <1>16, <1>17
       DEF Next, Step

(* Errors and results have the codes of the diagnostics.                    *)
LEMMA ResultTypeStep == IInv /\ [Next]_vars => ResultType'
  <1> SUFFICES ASSUME IInv, [Next]_vars PROVE ResultType'
    OBVIOUS
  <1>0. TypeOK /\ ResultInv /\ Response \in Results
    BY ResponseResult DEF IInv
  <1> USE CodesAreCodes, ErrResult
  <1>1. CASE Begin
    BY <1>0, <1>1 DEF ResultType, Begin, Return, ReturnErr, TypeOK
  <1>2. CASE LoopTop
    BY <1>0, <1>2 DEF ResultType, LoopTop, Return, ReturnErr, TypeOK
  <1>3. CASE Send
    BY <1>0, <1>3 DEF ResultType, Send, TypeOK
  <1>4. ASSUME NEW code \in RequestErrors, RequestFails(code) PROVE ResultType'
    BY <1>0, <1>4 DEF ResultType, RequestFails, AttemptFails, TypeOK
  <1>5. ASSUME NEW allowed \in BOOLEAN, Redirected(allowed) PROVE ResultType'
    BY <1>0, <1>5 DEF ResultType, Redirected, AttemptFails, TypeOK
  <1>6. ASSUME NEW again \in BOOLEAN, Respond(again) PROVE ResultType'
    BY <1>0, <1>6 DEF ResultType, Respond, AttemptFails, TypeOK
  <1>7. CASE BodyCancelled
    BY <1>0, <1>7 DEF ResultType, BodyCancelled, AttemptFails, TypeOK
  <1>8. ASSUME NEW code \in {E_TRANSFER, E_TIMEOUT}, BodyFails(code) PROVE ResultType'
    BY <1>0, <1>8 DEF ResultType, BodyFails, AttemptFails, TypeOK
  <1>9. ASSUME NEW n \in 1..MaxChunk, Chunk(n) PROVE ResultType'
    BY <1>0, <1>9 DEF ResultType, Chunk, AttemptFails, TypeOK
  <1>10. CASE BodyEnd
    BY <1>0, <1>10 DEF ResultType, BodyEnd, AttemptFails, TypeOK
  <1>11. CASE Got
    BY <1>0, <1>11 DEF ResultType, Got, Return, ReturnErr, MayRetry, Retry, TypeOK
  <1>12. CASE GiveUpOrRetry
    BY <1>0, <1>12
       DEF ResultType, GiveUpOrRetry, Return, ReturnErr, MayRetry, Retry, TypeOK, ResultInv
  <1>13. CASE Delay
    BY <1>0, <1>13 DEF ResultType, Delay, Return, ReturnErr, TypeOK
  <1>14. CASE Cancel
    BY <1>0, <1>14 DEF ResultType, Cancel, TypeOK
  <1>15. CASE RetryWindowEnds
    BY <1>0, <1>15 DEF ResultType, RetryWindowEnds, TypeOK
  <1>16. CASE Done
    BY <1>0, <1>16 DEF ResultType, Done, vars, TypeOK
  <1>17. CASE UNCHANGED vars
    BY <1>0, <1>17 DEF ResultType, vars, TypeOK
  <1> QED
    BY <1>1, <1>2, <1>3, <1>4, <1>5, <1>6, <1>7, <1>8, <1>9, <1>10, <1>11, <1>12, <1>13,
       <1>14, <1>15, <1>16, <1>17
       DEF Next, Step

(* Type correctness is preserved.                                           *)
LEMMA TypeStep == IInv /\ [Next]_vars => TypeOK'
  BY CountersStep, FlagsStep, SinkTypeStep, ResultTypeStep
  DEF TypeOK, Counters, Flags, SinkType, ResultType

-----------------------------------------------------------------------------
(* Every behaviour satisfies the inductive invariant.                       *)
THEOREM Inductive == Spec => []IInv
  <1>1. IInv /\ [Next]_vars => IInv'
    BY SentStep, CancelStep, LogStep, SinkStep, ResultStep, TypeStep DEF IInv
  <1> QED
    BY InitIInv, <1>1, PTL DEF Spec

(* Every variable of a transfer has its type: no sink is longer than         *)
(* max_body_bytes and no redirect log longer than --max-redirs.             *)
THEOREM TypeCorrect == Spec => []TypeOK
  <1>1. IInv => TypeOK
    BY DEF IInv
  <1> QED
    BY Inductive, <1>1, PTL

(* BodySink keeps the whole body in exactly one place, on whichever side of  *)
(* the threshold, for every way of cutting it into chunks.                  *)
THEOREM SinkCorrect == Spec => []SinkHoldsBody
  <1>1. IInv => SinkHoldsBody
    BY DEF IInv
  <1> QED
    BY Inductive, <1>1, PTL

(* A response that execute_in_session_with_cancel returns is that of its     *)
(* last attempt alone.                                                      *)
THEOREM ResponseCorrect == Spec => []ResponseIsLastAttempt
  <1>1. IInv => ResponseIsLastAttempt
    BY DEF IInv, ResultInv
  <1> QED
    BY Inductive, <1>1, PTL

(* At most one request goes out after the caller has cancelled.             *)
THEOREM CancelCorrect == Spec => []CancelStopsRetrying
  <1>1. IInv => CancelStopsRetrying
    BY DEF IInv, CancelInv, CancelStopsRetrying
  <1> QED
    BY Inductive, <1>1, PTL

(* There is one request per attempt and no attempt beyond --retry.          *)
THEOREM RequestsCorrect == Spec => []RequestsBounded
  <1>1. IInv => RequestsBounded
    <2> SUFFICES ASSUME IInv PROVE RequestsBounded
      OBVIOUS
    <2> QED
      BY DEF IInv, SentInv, RequestsBounded, TypeOK, Pcs
  <1> QED
    BY Inductive, <1>1, PTL

-----------------------------------------------------------------------------
(* Every step of the transfer is a step of the contract or leaves it alone. *)
LEMMA ContractStep == IInv /\ [Next]_vars => [Contract!Next]_(Contract!vars)
  <1> SUFFICES ASSUME IInv, [Next]_vars PROVE Contract!Next \/ UNCHANGED Contract!vars
    OBVIOUS
  <1>0. TypeOK /\ SentInv /\ ResultInv
    BY DEF IInv
  <1> USE DEF Contract!vars, CutOff, Outcome, LastAttempt
  <1>a. ASSUME NEW how \in Contract!Ends, Contract!End(how) \/ Contract!Return(how)
       PROVE  Contract!Next
    BY <1>a DEF Contract!Next
  <1>b. "error" \in Contract!Ends /\ "final" \in Contract!Ends /\ "retryable" \in Contract!Ends
    BY DEF Contract!Ends
  <1>1. CASE Begin
    <2>1. Contract!Return("error") \/ UNCHANGED Contract!vars
      BY <1>0, <1>1
         DEF Begin, Return, ReturnErr, Contract!Return, TypeOK, SentInv, ResultInv
    <2> QED
      BY <1>a, <1>b, <2>1
  <1>2. CASE LoopTop
    <2>1. Contract!Return("error") \/ UNCHANGED Contract!vars
      BY <1>0, <1>2
         DEF LoopTop, Return, ReturnErr, Contract!Return, TypeOK, SentInv, ResultInv
    <2> QED
      BY <1>a, <1>b, <2>1
  <1>3. CASE Send
    <2>1. Contract!Try
      BY <1>0, <1>3 DEF Send, Contract!Try, TypeOK, SentInv, ResultInv, Plans
    <2> QED
      BY <2>1 DEF Contract!Next
  <1>4. ASSUME NEW code \in RequestErrors, RequestFails(code) PROVE Contract!End("error")
    BY <1>4 DEF RequestFails, AttemptFails, Contract!End
  <1>5. ASSUME NEW allowed \in BOOLEAN, Redirected(allowed)
       PROVE  Contract!End("error") \/ UNCHANGED Contract!vars
    <2>1. CASE UNCHANGED <<pc, error>>
      BY <1>5, <2>1 DEF Redirected
    <2>2. CASE pc' = "failed"
      BY <1>5, <2>2 DEF Redirected, Contract!End
    <2> QED
      BY <1>5, <2>1, <2>2 DEF Redirected, AttemptFails
  <1>6. ASSUME NEW again \in BOOLEAN, Respond(again)
       PROVE  Contract!End("error") \/ UNCHANGED Contract!vars
    BY <1>6 DEF Respond, AttemptFails, Contract!End
  <1>7. CASE BodyCancelled
    <2>1. Contract!End("error")
      BY <1>7 DEF BodyCancelled, AttemptFails, Contract!End
    <2> QED
      BY <1>a, <1>b, <2>1
  <1>8. ASSUME NEW code \in {E_TRANSFER, E_TIMEOUT}, BodyFails(code)
       PROVE  Contract!End("error")
    BY <1>8 DEF BodyFails, AttemptFails, Contract!End
  <1>9. ASSUME NEW n \in 1..MaxChunk, Chunk(n)
       PROVE  Contract!End("error") \/ UNCHANGED Contract!vars
    <2>1. CASE UNCHANGED <<pc, error>>
      BY <1>9, <2>1 DEF Chunk
    <2>2. CASE pc' = "failed"
      BY <1>9, <2>2 DEF Chunk, Contract!End
    <2> QED
      BY <1>9, <2>1, <2>2 DEF Chunk, AttemptFails
  <1>10. CASE BodyEnd
    <2>1. \E how \in Contract!Ends : Contract!End(how)
      <3>1. CASE pc' = "failed"
        BY <1>b, <1>10, <3>1 DEF BodyEnd, Contract!End
      <3>2. CASE pc' = "got" /\ retryable
        BY <1>b, <1>10, <3>2 DEF BodyEnd, Contract!End
      <3>3. CASE pc' = "got" /\ ~retryable
        BY <1>b, <1>10, <3>3 DEF BodyEnd, Contract!End
      <3> QED
        BY <1>10, <3>1, <3>2, <3>3 DEF BodyEnd, AttemptFails
    <2> QED
      BY <1>a, <2>1
  <1>11. CASE Got
    <2>1. CASE retryable /\ MayRetry /\ Retry
      <3>1. Contract!Again
        BY <1>0, <1>11, <2>1
           DEF Got, Retry, MayRetry, Contract!Again, TypeOK, Plans, SentInv, ResultInv
      <3> QED
        BY <3>1 DEF Contract!Next
    <2>2. CASE cancelled /\ ReturnErr(E_CANCELLED)
      <3>1. Contract!Return("error")
        BY <1>0, <1>11, <2>2
           DEF Got, Return, ReturnErr, Contract!Return, TypeOK, Plans, ResultInv
      <3> QED
        BY <1>a, <1>b, <3>1
    <2>3. CASE Return(Response) /\ ~retryable
      <3>1. Contract!Return("final")
        BY <1>0, <1>11, <2>3
           DEF Got, Return, Response, Contract!Return, TypeOK, Plans, ResultInv
      <3> QED
        BY <1>a, <1>b, <3>1
    <2>4. CASE Return(Response) /\ retryable /\ (attempt >= plan.retries \/ late)
      <3>1. Contract!Return("retryable")
        BY <1>0, <1>11, <2>4
           DEF Got, Return, Response, Contract!Return, Contract!Exhausted, TypeOK, Plans,
               SentInv, ResultInv
      <3> QED
        BY <1>a, <1>b, <3>1
    <2> QED
      BY <1>11, <2>1, <2>2, <2>3, <2>4 DEF Got
  <1>12. CASE GiveUpOrRetry
    <2>1. CASE MayRetry /\ Retry
      <3>1. Contract!Again
        BY <1>0, <1>12, <2>1
           DEF GiveUpOrRetry, Retry, MayRetry, Contract!Again, TypeOK, Plans, SentInv, ResultInv
      <3> QED
        BY <3>1 DEF Contract!Next
    <2>2. CASE ~MayRetry /\ ReturnErr(error)
      <3>1. Contract!Return("error")
        BY <1>0, <1>12, <2>2
           DEF GiveUpOrRetry, Return, ReturnErr, MayRetry, Contract!Return, Contract!Exhausted,
               TypeOK, Plans, SentInv, ResultInv
      <3> QED
        BY <1>a, <1>b, <3>1
    <2> QED
      BY <1>12, <2>1, <2>2 DEF GiveUpOrRetry
  <1>13. CASE Delay
    <2>1. Contract!Return("error") \/ UNCHANGED Contract!vars
      BY <1>0, <1>13
         DEF Delay, Return, ReturnErr, Contract!Return, TypeOK, SentInv, ResultInv
    <2> QED
      BY <1>a, <1>b, <2>1
  <1>14. CASE Cancel
    <2>1. Contract!CutOff
      BY <1>14 DEF Cancel, Contract!CutOff
    <2> QED
      BY <2>1 DEF Contract!Next
  <1>15. CASE RetryWindowEnds
    <2>1. Contract!CutOff
      BY <1>15 DEF RetryWindowEnds, Contract!CutOff
    <2> QED
      BY <2>1 DEF Contract!Next
  <1>16. CASE Done
    BY <1>16 DEF Done, vars
  <1>17. CASE UNCHANGED vars
    BY <1>17 DEF vars
  <1> QED
    BY <1>a, <1>b, <1>1, <1>2, <1>3, <1>4, <1>5, <1>6, <1>7, <1>8, <1>9, <1>10, <1>11, <1>12,
       <1>13, <1>14, <1>15, <1>16, <1>17
       DEF Next, Step

(* The fallback client and the native path keep the promise of --retry that  *)
(* RetryContract states.                                                    *)
THEOREM RetryRefinement == Spec => RetrySpec
  <1>1. Init => Contract!Init
    BY DEF Init, Contract!Init, CutOff, Outcome, LastAttempt, NoResult, Plans
  <1> QED
    BY Inductive, <1>1, ContractStep, PTL DEF Spec, RetrySpec, Contract!Spec
=============================================================================
