----------------------------- MODULE GoTransfer -----------------------------
(***************************************************************************)
(* go/httpx: one transfer of the Go port, Execute.                          *)
(*                                                                         *)
(* Execute retries doOnce, which follows redirects itself and rewrites the  *)
(* method as it goes; the response it ends with is read by finishTransfer.  *)
(* One deadline covers all attempts; the command line passes no context     *)
(* that is cancelled before it.  A response is its kind of status and of    *)
(* Location header, a body is counted in bytes, a failure is its cause, and *)
(* a diagnostic code MDOK-Exyz is the number xyz.                           *)
(***************************************************************************)
EXTENDS Integers

CONSTANTS MaxRetries,   \* bound: --retry of the plans considered
          MaxRedirs,    \* plan.MaxRedirs
          MaxBody,      \* maxBodyBytes
          MaxChunk      \* largest piece of a body one read returns

VARIABLES
    plan,       \* retry, follow, delay, method, and whether there is a body
    expired,    \* the context's deadline has passed
    pc,         \* position of the calling goroutine
    attempt,    \* Execute's attempt
    method,     \* doOnce's method
    hasBody,    \* doOnce's currentHasBody
    hops,       \* doOnce's hops
    response,   \* the last response: kind of status, kind of Location
    open,       \* response bodies that are not closed
    got,        \* bytes finishTransfer has read
    cause,      \* why doOnce or a read failed
    result,     \* what Execute returned
    lateTries   \* history: attempts begun after the deadline

request == <<method, hasBody, hops>>
vars == <<plan, expired, pc, attempt, request, response, open, got, cause, result, lateTries>>

Methods == {"GET", "POST", "PUT"}
Plans == [retry : 0..MaxRetries, follow : BOOLEAN, delay : BOOLEAN,
          method : Methods, body : BOOLEAN]

(* redirectStatus and retryableStatus; "see" is 303, "moved" 301 or 302,     *)
(* "keep" 307 or 308.  net/http's client refuses a Location that is not a    *)
(* URL before doOnce sees it (DoFails).                                     *)
Redirects == {"see", "moved", "keep"}
Statuses == Redirects \cup {"retry", "other"}
Locations == {"none", "valid"}
retryableStatus(s) == s = "retry"

NoResponse == [status |-> "other", location |-> "none"]
NoResult == [kind |-> "none"]

Init ==
    /\ plan \in Plans
    /\ expired = FALSE
    /\ pc = "start" /\ attempt = 0
    /\ method = plan.method /\ hasBody = plan.body /\ hops = 0
    /\ response = NoResponse /\ open = 0 /\ got = 0
    /\ cause = "none" /\ result = NoResult /\ lateTries = 0

Return(r) == result' = r /\ pc' = "returned"
Failure(code, why) == [kind |-> "err", code |-> code, cause |-> why]

-----------------------------------------------------------------------------
(* applyTimeouts always sets a deadline.                                    *)

Expire ==
    /\ ~expired /\ pc # "returned"
    /\ expired' = TRUE
    /\ UNCHANGED <<plan, pc, attempt, request, response, open, got, cause, result, lateTries>>

(* buildTarget and buildTransport: the URL and the CA file.                 *)
SetupErrors == {304, 303, 602}

Begin ==
    /\ pc = "start"
    /\ \/ \E code \in SetupErrors : Return(Failure(code, "setup"))
       \/ pc' = "loop" /\ UNCHANGED result
    /\ UNCHANGED <<plan, expired, attempt, request, response, open, got, cause, lateTries>>

CountTry ==
    /\ attempt' = attempt + 1
    /\ lateTries' = IF expired THEN lateTries + 1 ELSE lateTries

(* doOnce begins with the plan's request.                                   *)
Attempt ==
    /\ pc = "loop" /\ pc' = "send"
    /\ CountTry
    /\ method' = plan.method /\ hasBody' = plan.body /\ hops' = 0
    /\ UNCHANGED <<plan, expired, response, open, got, cause, result>>

TryFails(why) == cause' = why /\ pc' = "failed"

(* buildRequest and client.Do, which sends nothing after the deadline.      *)
Send ==
    /\ pc = "send"
    /\ \/ TryFails("request")
       \/ expired /\ TryFails("deadline")
       \/ ~expired /\ pc' = "wait" /\ UNCHANGED cause
    /\ UNCHANGED <<plan, expired, attempt, request, response, open, got, result, lateTries>>

DoFails(why) ==
    /\ pc = "wait"
    /\ why = "deadline" => expired
    /\ TryFails(why)
    /\ UNCHANGED <<plan, expired, attempt, request, response, open, got, result, lateTries>>

Respond(s, l) ==
    /\ pc = "wait" /\ pc' = "head"
    /\ response' = [status |-> s, location |-> l]
    /\ open' = open + 1
    /\ UNCHANGED <<plan, expired, attempt, request, got, cause, result, lateTries>>

-----------------------------------------------------------------------------
(* What doOnce makes of a response.                                         *)

MustFollow == plan.follow /\ response.status \in Redirects /\ response.location # "none"

RefuseRedirect ==
    /\ pc = "head" /\ MustFollow
    /\ hops >= MaxRedirs
    /\ TryFails("limit")
    /\ open' = open - 1
    /\ UNCHANGED <<plan, expired, attempt, request, response, got, result, lateTries>>

BecomesGet == response.status = "see" \/ (response.status = "moved" /\ method = "POST")

(* Bug: the response that redirects is left open.                           *)
FollowWithoutClose ==
    /\ pc = "head" /\ MustFollow
    /\ hops < MaxRedirs
    /\ hops' = hops + 1
    /\ method' = IF BecomesGet THEN "GET" ELSE method
    /\ hasBody' = (hasBody /\ ~BecomesGet)
    /\ pc' = "send"
    /\ UNCHANGED <<plan, expired, attempt, response, open, got, cause, result, lateTries>>

FollowRedirect ==
    /\ pc = "head" /\ MustFollow
    /\ hops < MaxRedirs
    /\ hops' = hops + 1
    /\ method' = IF BecomesGet THEN "GET" ELSE method
    /\ hasBody' = (hasBody /\ ~BecomesGet)
    /\ open' = open - 1
    /\ pc' = "send"
    /\ UNCHANGED <<plan, expired, attempt, response, got, cause, result, lateTries>>

(* Back in Execute: the response is retried or it is the transfer's.        *)
Accept ==
    /\ pc = "head" /\ ~MustFollow
    /\ IF ~retryableStatus(response.status) \/ attempt > plan.retry
         THEN pc' = "finish" /\ got' = 0
         ELSE pc' = "drain" /\ UNCHANGED got
    /\ UNCHANGED <<plan, expired, attempt, request, response, open, cause, result, lateTries>>

AfterTry == IF plan.delay THEN "delay" ELSE "loop"

(* The body of a response that is retried is read to its end or to an error. *)
DrainEnds ==
    /\ pc = "drain" /\ pc' = AfterTry
    /\ open' = open - 1
    /\ UNCHANGED <<plan, expired, attempt, request, response, got, cause, result, lateTries>>

(* classifyError, without a cancelled context.                              *)
classifyError(why) ==
    IF why = "limit" THEN 603
    ELSE IF why \in {"deadline", "timeout"} THEN 601
    ELSE IF why = "tls" THEN 602 ELSE 600

(* Bug: the deadline is not looked at before a retry.                       *)
GiveUpOnCount ==
    /\ pc = "failed"
    /\ IF attempt > plan.retry
         THEN Return(Failure(classifyError(cause), cause))
         ELSE pc' = AfterTry /\ UNCHANGED result
    /\ UNCHANGED <<plan, expired, attempt, request, response, open, got, cause, lateTries>>

GiveUpOrRetry ==
    /\ pc = "failed"
    /\ \/ /\ attempt > plan.retry \/ expired
          /\ Return(Failure(classifyError(cause), cause))
       \/ /\ attempt <= plan.retry /\ ~expired
          /\ pc' = AfterTry /\ UNCHANGED result
    /\ UNCHANGED <<plan, expired, attempt, request, response, open, got, cause, lateTries>>

(* The timer and the context's end may both be ready: select takes either.  *)
Delay ==
    /\ pc = "delay"
    /\ \/ pc' = "loop" /\ UNCHANGED result
       \/ expired /\ Return(Failure(classifyError("deadline"), "deadline"))
    /\ UNCHANGED <<plan, expired, attempt, request, response, open, got, cause, lateTries>>

-----------------------------------------------------------------------------
(* finishTransfer, which closes the body however it ends.                   *)

Read(n) ==
    /\ pc = "finish" /\ got + n <= MaxBody + 1
    /\ got' = got + n
    /\ UNCHANGED <<plan, expired, pc, attempt, request, response, open, cause, result, lateTries>>

BodyFails(why) ==
    /\ pc = "finish" /\ got <= MaxBody
    /\ why = "deadline" => expired
    /\ cause' = why
    /\ Return(Failure(600, why))
    /\ open' = open - 1
    /\ UNCHANGED <<plan, expired, attempt, request, response, got, lateTries>>

TransferOf == [kind |-> "ok", retryable |-> retryableStatus(response.status), bytes |-> got,
               attempt |-> attempt, hops |-> hops]

(* The end of the body, or of what the limited reader gives.                *)
BodyEnd ==
    /\ pc = "finish"
    /\ \/ got <= MaxBody /\ Return(TransferOf)
       \/ got > MaxBody /\ Return(Failure(700, "limit"))
    /\ open' = open - 1
    /\ UNCHANGED <<plan, expired, attempt, request, response, got, cause, lateTries>>

-----------------------------------------------------------------------------
Own ==
    \/ Begin \/ Attempt \/ Send \/ RefuseRedirect \/ FollowRedirect \/ Accept
    \/ GiveUpOrRetry \/ Delay

Peer ==
    \/ \E why \in {"tls", "timeout", "other", "deadline"} : DoFails(why)
    \/ \E s \in Statuses, l \in Locations : Respond(s, l)
    \/ DrainEnds
    \/ \E n \in 1..MaxChunk : Read(n)
    \/ \E why \in {"other", "deadline"} : BodyFails(why)
    \/ BodyEnd

Done == pc = "returned" /\ UNCHANGED vars

Next == Own \/ Peer \/ Expire \/ Done

Spec == Init /\ [][Next]_vars

(* The peer owes nothing, but every wait for it ends at the deadline: the   *)
(* context unblocks client.Do and the reads of a body.                      *)
Fairness == WF_vars(Own) /\ WF_vars(Expire) /\ WF_vars(expired /\ Peer)

-----------------------------------------------------------------------------
Pcs == {"start", "loop", "send", "wait", "head", "drain", "failed", "delay", "finish", "returned"}
Causes == {"none", "setup", "request", "deadline", "tls", "timeout", "other", "limit"}
Results == {NoResult}
           \cup [kind : {"err"}, code : {303, 304, 600, 601, 602, 603, 700}, cause : Causes]
           \cup [kind : {"ok"}, retryable : BOOLEAN, bytes : 0..MaxBody,
                 attempt : 1..(MaxRetries + 1), hops : 0..MaxRedirs]

(* Every variable has its type: in particular never more attempts than       *)
(* --retry and one, more redirects than --max-redirs, or a longer body than  *)
(* the limit in a transfer.                                                  *)
TypeOK ==
    /\ plan \in Plans /\ expired \in BOOLEAN
    /\ pc \in Pcs /\ attempt \in 0..(MaxRetries + 1)
    /\ method \in Methods /\ hasBody \in BOOLEAN /\ hops \in 0..MaxRedirs
    /\ response \in [status : Statuses, location : Locations]
    /\ open \in Nat /\ got \in 0..(MaxBody + 1)
    /\ cause \in Causes /\ result \in Results
    /\ lateTries \in 0..(MaxRetries + 1)

(* Attempts have nothing of each other: the body of every response is        *)
(* closed, on each way out of doOnce, Execute and finishTransfer, before     *)
(* another request is sent or the call returns; and every request has the    *)
(* plan's method and body, until a redirect of the same attempt turns it     *)
(* into a GET without a body.                                                *)
AttemptsAreFresh ==
    /\ open = IF pc \in {"head", "drain", "finish"} THEN 1 ELSE 0
    /\ \/ method = plan.method /\ hasBody = plan.body
       \/ hops > 0 /\ method = "GET" /\ ~hasBody

(* After the deadline at most one more attempt begins, however many retries  *)
(* are left: the one that was past its check.                                *)
DeadlineStopsRetrying == lateTries <= 1
=============================================================================
