------------------------------ MODULE Transfer ------------------------------
(***************************************************************************)
(* crates/mdok-curl: one transfer, execute_in_session_with_cancel.          *)
(*                                                                         *)
(* A plan without redirects, retries and other extras goes to the native    *)
(* libcurl bridge; every other one is sent by the fallback client, which    *)
(* retries in a loop.  Both deliver the response body in chunks to a        *)
(* BodySink, which keeps it in memory up to a threshold and in a spool file *)
(* beyond.  The caller may cancel at any time.  Bytes and redirects are     *)
(* counted; a diagnostic code MDOK-Exyz is the number xyz; of the clock the *)
(* code only asks whether --retry-max-time has passed.                      *)
(***************************************************************************)
EXTENDS Integers

CONSTANTS MaxRetries,   \* bound: --retry of the plans considered
          MaxRedirs,    \* --max-redirs
          Threshold,    \* CurlPolicy::memory_body_threshold_bytes
          MaxBody,      \* CurlPolicy::max_body_bytes
          MaxChunk      \* largest chunk a read or a callback delivers

ASSUME TransferAssumption ==
    /\ MaxRetries \in Nat /\ MaxRedirs \in Nat
    /\ Threshold \in Nat /\ MaxBody \in Nat
    /\ MaxChunk \in Nat \ {0}

E_PROTOCOL_DENIED == 302
E_FILE_DENIED == 303
E_POLICY == 304
E_TRANSFER == 600
E_TIMEOUT == 601
E_TLS == 602
E_REDIRECT == 603
E_CONNECT_POLICY == 604
E_CANCELLED == 605
E_BODY_LIMIT == 700

NoFile == -1
NoResult == [kind |-> "none"]

VARIABLES
    plan,           \* native, retries, delay, window, follow: the CurlPlan
    cancelled,      \* what the cancellation callback answers
    late,           \* retry_deadline has passed
    pc,             \* position of the calling thread
    attempt,        \* retries made
    hops,           \* redirects in the shared log
    sink,           \* BodySink: bytes in memory, in the spool file, length
    retryable,      \* the status of the last response is worth a retry
    error,          \* code of the attempt that failed
    result,         \* what the call returned
    sent,           \* history: requests sent
    sentCancelled,  \* history: requests sent after the cancellation
    followed,       \* history: redirects followed by the last request
    delivered       \* history: body bytes the last response delivered

requestVars == <<hops, sink, retryable, error>>
history == <<sent, sentCancelled, followed, delivered>>
vars == <<plan, cancelled, late, pc, attempt, requestVars, result, history>>

SinkOf(memory, file, len) == [memory |-> memory, file |-> file, len |-> len]
NewSink == SinkOf(0, NoFile, 0)

(* native_eligible: no retries and no redirects on the native path.         *)
Plans == [native : BOOLEAN, retries : 0..MaxRetries, delay : BOOLEAN, window : BOOLEAN,
          follow : BOOLEAN]
Eligible(p) == p.native => p.retries = 0 /\ ~p.follow

Init ==
    /\ plan \in Plans /\ Eligible(plan)
    /\ cancelled = FALSE /\ late = FALSE
    /\ pc = "start" /\ attempt = 0
    /\ hops = 0 /\ sink = NewSink /\ retryable = FALSE /\ error = 0
    /\ result = NoResult
    /\ sent = 0 /\ sentCancelled = 0 /\ followed = 0 /\ delivered = 0

-----------------------------------------------------------------------------
(* The caller's cancellation flag and the clock (outside the call).         *)

Cancel ==
    /\ ~cancelled
    /\ cancelled' = TRUE
    /\ UNCHANGED <<plan, late, pc, attempt, requestVars, result, history>>

RetryWindowEnds ==
    /\ plan.window /\ ~late
    /\ late' = TRUE
    /\ UNCHANGED <<plan, cancelled, pc, attempt, requestVars, result, history>>

-----------------------------------------------------------------------------
Return(r) == result' = r /\ pc' = "returned"
ReturnErr(code) == Return([kind |-> "err", code |-> code])

(* Cancellation first, then body size, URL and address policy, then the     *)
(* native plan and session or the fallback client.                          *)
Begin ==
    /\ pc = "start"
    /\ \/ cancelled /\ ReturnErr(E_CANCELLED)
       \/ /\ ~cancelled
          /\ \E code \in {E_BODY_LIMIT, E_PROTOCOL_DENIED, E_POLICY, E_TRANSFER, E_TLS,
                        E_CONNECT_POLICY} : ReturnErr(code)
       \/ /\ ~cancelled
          /\ pc' = IF plan.native THEN "send" ELSE "loop"
          /\ UNCHANGED result
    /\ UNCHANGED <<plan, cancelled, late, attempt, requestVars, history>>

(* Bug: cancellation is only looked for inside an attempt.                  *)
LoopTopUnchecked ==
    /\ pc = "loop"
    /\ hops' = 0 /\ pc' = "send"
    /\ UNCHANGED <<plan, cancelled, late, attempt, sink, retryable, error, result, history>>

(* The head of the retry loop: the redirect log starts afresh.              *)
LoopTop ==
    /\ pc = "loop"
    /\ \/ cancelled /\ ReturnErr(E_CANCELLED) /\ UNCHANGED hops
       \/ ~cancelled /\ hops' = 0 /\ pc' = "send" /\ UNCHANGED result
    /\ UNCHANGED <<plan, cancelled, late, attempt, sink, retryable, error, history>>

Send ==
    /\ pc = "send"
    /\ sent' = sent + 1
    /\ sentCancelled' = IF cancelled THEN sentCancelled + 1 ELSE sentCancelled
    /\ followed' = 0 /\ delivered' = 0
    /\ sink' = NewSink
    /\ pc' = "wait"
    /\ UNCHANGED <<plan, cancelled, late, attempt, hops, retryable, error, result>>

AttemptFails(code) == error' = code /\ pc' = "failed"

(* No response: connection, TLS or DNS policy errors, or the timeout.  The  *)
(* native bridge also polls the cancellation callback while it waits.       *)
RequestFails(code) ==
    /\ pc = "wait"
    /\ code = E_CANCELLED => plan.native /\ cancelled
    /\ AttemptFails(code)
    /\ UNCHANGED <<plan, cancelled, late, attempt, hops, sink, retryable, result, history>>

(* The redirect policy of the fallback client, asked for every redirect.    *)
Redirected(allowed) ==
    /\ pc = "wait" /\ plan.follow
    /\ \/ /\ ~allowed \/ hops + 1 > MaxRedirs
          /\ AttemptFails(IF allowed THEN E_REDIRECT ELSE E_POLICY)
          /\ UNCHANGED <<hops, followed>>
       \/ /\ allowed /\ hops + 1 <= MaxRedirs
          /\ hops' = hops + 1
          /\ followed' = followed + 1
          /\ UNCHANGED <<pc, error>>
    /\ UNCHANGED <<plan, cancelled, late, attempt, sink, retryable, result, sent,
                   sentCancelled, delivered>>

(* Status and headers, which have a limit of their own.                     *)
Respond(again) ==
    /\ pc = "wait"
    /\ retryable' = again
    /\ \/ pc' = "body" /\ UNCHANGED error
       \/ AttemptFails(E_BODY_LIMIT)
    /\ UNCHANGED <<plan, cancelled, late, attempt, hops, sink, result, history>>

-----------------------------------------------------------------------------
(* capture_body, or the callbacks of the native bridge.                     *)

BodyCancelled ==
    /\ pc = "body" /\ cancelled
    /\ AttemptFails(E_CANCELLED)
    /\ UNCHANGED <<plan, cancelled, late, attempt, hops, sink, retryable, result, history>>

(* The connection breaks or times out, or the spool cannot be written.      *)
BodyFails(code) ==
    /\ pc = "body" /\ (cancelled => plan.native)
    /\ AttemptFails(code)
    /\ UNCHANGED <<plan, cancelled, late, attempt, hops, sink, retryable, result, history>>

(* Bug: moving to the spool file loses what was in memory.                  *)
PushedWithoutBuffer(n) ==
    IF sink.file # NoFile THEN SinkOf(0, sink.file + n, sink.len + n)
    ELSE IF n <= Threshold - sink.memory THEN SinkOf(sink.memory + n, NoFile, sink.len + n)
    ELSE SinkOf(0, n, sink.len + n)

(* BodySink::push of n bytes that fit.                                      *)
Pushed(n) ==
    IF sink.file # NoFile THEN SinkOf(0, sink.file + n, sink.len + n)
    ELSE IF n <= Threshold - sink.memory THEN SinkOf(sink.memory + n, NoFile, sink.len + n)
    ELSE SinkOf(0, sink.memory + n, sink.len + n)

Chunk(n) ==
    /\ pc = "body" /\ (cancelled => plan.native)
    /\ delivered' = delivered + n
    /\ \/ /\ sink.len + n > MaxBody
          /\ AttemptFails(E_BODY_LIMIT)
          /\ UNCHANGED sink
       \/ /\ sink.len + n <= MaxBody
          /\ sink' = Pushed(n)
          /\ UNCHANGED <<pc, error>>
    /\ UNCHANGED <<plan, cancelled, late, attempt, hops, retryable, result, sent,
                   sentCancelled, followed>>

(* The end of the body: BodySink::finish, and the cookie file if asked for. *)
BodyEnd ==
    /\ pc = "body" /\ (cancelled => plan.native)
    /\ \/ pc' = "got" /\ UNCHANGED error
       \/ \E code \in {E_TRANSFER, E_FILE_DENIED} : AttemptFails(code)
    /\ UNCHANGED <<plan, cancelled, late, attempt, hops, sink, retryable, result, history>>

-----------------------------------------------------------------------------
(* The arms of the retry loop.                                              *)

Response == [kind |-> "ok", retryable |-> retryable, bytes |-> sink.len, hops |-> hops]
MayRetry == attempt < plan.retries /\ ~late

Retry ==
    /\ attempt' = attempt + 1
    /\ pc' = IF plan.delay THEN "delay" ELSE "loop"
    /\ UNCHANGED result

(* The fallback asks once more for cancellation before a response that it   *)
(* will not retry; one that ran out of time is returned as it is.           *)
Got ==
    /\ pc = "got"
    /\ \/ /\ attempt >= plan.retries \/ ~retryable
          /\ IF cancelled /\ ~plan.native THEN ReturnErr(E_CANCELLED) ELSE Return(Response)
          /\ UNCHANGED attempt
       \/ retryable /\ MayRetry /\ Retry
       \/ retryable /\ attempt < plan.retries /\ late /\ Return(Response) /\ UNCHANGED attempt
    /\ UNCHANGED <<plan, cancelled, late, requestVars, history>>

(* Bug: a timeout is returned at once.                                      *)
GiveUpOnTimeout ==
    /\ pc = "failed"
    /\ \/ error # E_TIMEOUT /\ MayRetry /\ Retry
       \/ /\ error = E_TIMEOUT \/ ~MayRetry
          /\ ReturnErr(error) /\ UNCHANGED attempt
    /\ UNCHANGED <<plan, cancelled, late, requestVars, history>>

(* Every error is worth a retry, whatever its code.                         *)
GiveUpOrRetry ==
    /\ pc = "failed"
    /\ \/ MayRetry /\ Retry
       \/ ~MayRetry /\ ReturnErr(error) /\ UNCHANGED attempt
    /\ UNCHANGED <<plan, cancelled, late, requestVars, history>>

(* Bug: the end of the delay moves on while it is waited for.               *)
DelayRestarts ==
    /\ pc = "delay"
    /\ IF cancelled THEN ReturnErr(E_CANCELLED) ELSE UNCHANGED <<pc, result>>
    /\ UNCHANGED <<plan, cancelled, late, attempt, requestVars, history>>

(* The delay before a retry looks at the cancellation flag while it sleeps. *)
Delay ==
    /\ pc = "delay"
    /\ \/ cancelled /\ ReturnErr(E_CANCELLED)
       \/ ~cancelled /\ pc' = "loop" /\ UNCHANGED result
    /\ UNCHANGED <<plan, cancelled, late, attempt, requestVars, history>>

RequestErrors == {E_POLICY, E_TRANSFER, E_TIMEOUT, E_TLS, E_CONNECT_POLICY, E_CANCELLED}

Step ==
    \/ Begin \/ LoopTop \/ Send
    \/ \E code \in RequestErrors : RequestFails(code)
    \/ \E allowed \in BOOLEAN : Redirected(allowed)
    \/ \E again \in BOOLEAN : Respond(again)
    \/ BodyCancelled
    \/ \E code \in {E_TRANSFER, E_TIMEOUT} : BodyFails(code)
    \/ \E n \in 1..MaxChunk : Chunk(n)
    \/ BodyEnd \/ Got \/ GiveUpOrRetry \/ Delay

Done == pc = "returned" /\ UNCHANGED vars

Next == Step \/ Cancel \/ RetryWindowEnds \/ Done

Spec == Init /\ [][Next]_vars

(* A transfer always has a timeout (the plan's or the configured one), so   *)
(* a wait for the peer ends in a response, a chunk or E_TIMEOUT.            *)
Fairness == WF_vars(Step)

-----------------------------------------------------------------------------
Codes == RequestErrors \cup {E_PROTOCOL_DENIED, E_FILE_DENIED, E_REDIRECT, E_BODY_LIMIT}
Pcs == {"start", "loop", "send", "wait", "body", "got", "failed", "delay", "returned"}
Sinks == [memory : 0..MaxBody, file : -1..MaxBody, len : 0..MaxBody]
Results == {NoResult} \cup [kind : {"err"}, code : Codes]
           \cup [kind : {"ok"}, retryable : BOOLEAN, bytes : 0..MaxBody, hops : 0..MaxRedirs]

(* Every variable has its type; in particular no sink is longer than the     *)
(* body limit and no log has more redirects than allowed.                    *)
TypeOK ==
    /\ plan \in Plans /\ cancelled \in BOOLEAN /\ late \in BOOLEAN
    /\ pc \in Pcs /\ attempt \in 0..MaxRetries
    /\ hops \in 0..MaxRedirs /\ sink \in Sinks /\ retryable \in BOOLEAN
    /\ error \in Codes \cup {0}
    /\ result \in Results
    /\ sent \in 0..(MaxRetries + 1) /\ sentCancelled \in 0..(MaxRetries + 1)
    /\ followed \in Nat /\ delivered \in Nat

(* BodySink keeps a body in exactly one place, whole: in memory while it is  *)
(* within the threshold, in the spool file from the first chunk that passes  *)
(* it, and as many bytes as this response has delivered.                     *)
SinkHoldsBody ==
    /\ IF sink.file = NoFile
         THEN sink.memory = sink.len /\ sink.memory <= Threshold
         ELSE sink.memory = 0 /\ sink.file = sink.len /\ sink.len > Threshold
    /\ pc \in {"body", "got"} => sink.len = delivered

(* A response that is returned is that of the last request alone: its whole  *)
(* body and its own redirects, nothing of earlier attempts.                  *)
ResponseIsLastAttempt ==
    result.kind = "ok" => /\ result.bytes = delivered
                          /\ result.hops = followed
                          /\ result.retryable => attempt = plan.retries \/ late

(* Once the caller has cancelled at most one more request goes out, the one  *)
(* that was past its check, however many retries are left.                   *)
CancelStopsRetrying == sentCancelled <= 1

(* There is one request per attempt and no attempt beyond --retry.           *)
RequestsBounded == sent <= attempt + 1 /\ attempt <= plan.retries

(* The client retries as RetryContract says: it tries again only after an    *)
(* attempt that failed or a status worth a retry, never gives up on either   *)
(* while a retry is left, always does when there is none, and returns how    *)
(* the last attempt ended, on the native path and in the loop alike.         *)
Outcome == IF result.kind # "ok" THEN IF result.kind = "err" THEN "error" ELSE "none"
           ELSE IF result.retryable THEN "retryable" ELSE "final"
LastAttempt == CASE pc \in {"wait", "body"} -> "open"
                 [] pc = "failed" -> "error"
                 [] pc = "got" -> IF retryable THEN "retryable" ELSE "final"
                 [] OTHER -> "none"
CutOff == cancelled \/ late
Contract == INSTANCE RetryContract WITH
    retries <- plan.retries, cutoff <- CutOff, tries <- sent, last <- LastAttempt,
    outcome <- Outcome
RetrySpec == Contract!Spec
=============================================================================
