---------------------------- MODULE NativeSession ----------------------------
(***************************************************************************)
(* native/src/mdok_curl_bridge.c and crates/mdok-curl-sys: the transfers    *)
(* of one document on one native session.                                   *)
(*                                                                         *)
(* The session owns one easy handle, one multi handle and the cookie share; *)
(* every call takes the in_use flag, resets and configures the easy handle, *)
(* adds it to the multi handle, drives it, takes it out again and releases  *)
(* the flag.  While libcurl drives the transfer it calls back with headers, *)
(* body chunks and progress; the callbacks enforce the limits, feed the     *)
(* body sink and ask for cancellation.                                      *)
(* Handles, cookies and metadata are named by the call that made them.      *)
(***************************************************************************)
EXTENDS Integers

CONSTANTS MaxCalls,     \* bound: transfers of the document
          MaxBody,      \* max_body_bytes
          MaxHeader,    \* max_header_bytes
          MaxChunk      \* largest chunk of a callback

BODY_LIMIT == "body_limit"
HEADER_LIMIT == "header_limit"
SINK_ERROR == "sink_error"
REFUSED == "refused"          \* the callback panicked or found no memory
CaptureOf(body, headers, failure, stopped) ==
    [body |-> body, headers |-> headers, failure |-> failure, cancelled |-> stopped]
NoCapture == CaptureOf(0, 0, "none", FALSE)

VARIABLES
    call,           \* number of the call in progress, or of the last one
    pc,             \* position in execute_with_info_internal
    inUse,          \* session->in_use
    inMulti,        \* the easy handle is in the multi handle
    easy,           \* call the easy handle is configured for, 0 when reset
    cookies,        \* calls whose cookies the share holds
    capture,        \* NativeCapture and callback_context of the call
    code,           \* CURLcode of the transfer
    multi,          \* CURLMcode of the call
    info,           \* call that out_info describes, 0 when cleared
    result          \* what execute_detailed_inner returned

vars == <<call, pc, inUse, inMulti, easy, cookies, capture, code, multi, info, result>>

Init ==
    /\ call = 0 /\ pc = "idle"
    /\ inUse = FALSE /\ inMulti = FALSE /\ easy = 0 /\ cookies = {}
    /\ capture = NoCapture
    /\ code = "ok" /\ multi = "ok" /\ info = 0
    /\ result = "none"

-----------------------------------------------------------------------------
(* The call starts: the flag is taken, the easy handle is reset.            *)
Acquire ==
    /\ pc = "idle" /\ call < MaxCalls
    /\ call' = call + 1
    /\ capture' = NoCapture /\ info' = 0 /\ code' = "ok" /\ multi' = "ok"
    /\ IF inUse
         THEN result' = "busy" /\ UNCHANGED <<pc, inUse, easy>>
         ELSE inUse' = TRUE /\ easy' = 0 /\ pc' = "configure" /\ result' = "none"
    /\ UNCHANGED <<inMulti, cookies>>

(* Bug: a refused option returns at once, keeping the session's flag.       *)
ConfigureReturnsEarly ==
    /\ pc = "configure"
    /\ \/ easy' = call /\ pc' = "add" /\ UNCHANGED code
       \/ easy' = call /\ code' = "setopt" /\ pc' = "returned"
    /\ UNCHANGED <<call, inUse, inMulti, cookies, capture, multi, info, result>>

(* Bug: the easy handle keeps the options of the call before it.            *)
ConfigureOnce ==
    /\ pc = "configure"
    /\ \/ easy' = 1 /\ pc' = "add" /\ UNCHANGED code
       \/ easy' = 1 /\ code' = "setopt" /\ pc' = "info"
    /\ UNCHANGED <<call, inUse, inMulti, cookies, capture, multi, info, result>>

(* configure_easy, any option of which may be refused.                      *)
Configure ==
    /\ pc = "configure"
    /\ \/ easy' = call /\ pc' = "add" /\ UNCHANGED code
       \/ easy' = call /\ code' = "setopt" /\ pc' = "info"
    /\ UNCHANGED <<call, inUse, inMulti, cookies, capture, multi, info, result>>

(* perform_multi: adding an easy handle that is there already is refused.   *)
AddToMulti ==
    /\ pc = "add"
    /\ code' = "failed_init"
    /\ IF inMulti
         THEN multi' = "added_already" /\ pc' = "info" /\ UNCHANGED inMulti
         ELSE \/ inMulti' = TRUE /\ pc' = "perform" /\ UNCHANGED multi
              \/ multi' = "out_of_memory" /\ pc' = "info" /\ UNCHANGED inMulti
    /\ UNCHANGED <<call, inUse, easy, cookies, capture, info, result>>

-----------------------------------------------------------------------------
(* Callbacks.  Once one has failed libcurl delivers nothing more.           *)
Receiving == pc = "perform" /\ capture.failure = "none" /\ ~capture.cancelled

Body(n) ==
    /\ Receiving
    /\ \/ /\ n > MaxBody - capture.body
          /\ capture' = CaptureOf(capture.body, capture.headers, BODY_LIMIT, FALSE)
       \/ /\ n <= MaxBody - capture.body
          /\ \E failure \in {"none", SINK_ERROR, REFUSED} :
                capture' = CaptureOf(capture.body + n, capture.headers, failure, FALSE)
    /\ UNCHANGED <<call, pc, inUse, inMulti, easy, cookies, code, multi, info, result>>

(* Headers also bring cookies into the share.                               *)
Header(n) ==
    /\ Receiving
    /\ \/ /\ n > MaxHeader - capture.headers
          /\ capture' = CaptureOf(capture.body, capture.headers, HEADER_LIMIT, FALSE)
          /\ UNCHANGED cookies
       \/ /\ n <= MaxHeader - capture.headers
          /\ capture' = CaptureOf(capture.body, capture.headers + n, "none", FALSE)
          /\ cookies' \in {cookies, cookies \cup {call}}
    /\ UNCHANGED <<call, pc, inUse, inMulti, easy, code, multi, info, result>>

Progress ==
    /\ Receiving
    /\ capture' = CaptureOf(capture.body, capture.headers, "none", TRUE)
    /\ UNCHANGED <<call, pc, inUse, inMulti, easy, cookies, code, multi, info, result>>

(* The transfer is over, or driving it failed.                              *)
PerformEnds ==
    /\ pc = "perform"
    /\ \/ /\ multi' = "internal_error" /\ UNCHANGED code
       \/ /\ code' = IF capture.failure # "none" THEN "write_error"
                     ELSE IF capture.cancelled THEN "aborted" ELSE "ok"
          /\ UNCHANGED multi
       \/ /\ capture.failure = "none" /\ ~capture.cancelled
          /\ code' \in {"timeout", "too_many_redirects", "connect"}
          /\ UNCHANGED multi
    /\ pc' = "remove"
    /\ UNCHANGED <<call, inUse, inMulti, easy, cookies, capture, info, result>>

(* The easy handle leaves the multi handle on every path that added it.     *)
RemoveFromMulti ==
    /\ pc = "remove"
    /\ inMulti' = FALSE
    /\ pc' = "info"
    /\ multi' \in {multi, IF multi = "ok" THEN "bad_handle" ELSE multi}
    /\ UNCHANGED <<call, inUse, easy, cookies, capture, code, info, result>>

(* The status of the call.                                                  *)
Status ==
    IF multi # "ok" THEN "transfer_error"
    ELSE IF code = "aborted" /\ capture.cancelled THEN "cancelled" ELSE code

(* What out_info says: cleared, or read from the easy handle.               *)
TransferInfo == IF code # "failed_init" THEN easy ELSE 0

Release ==
    /\ pc = "info"
    /\ info' = TransferInfo
    /\ inUse' = FALSE
    /\ pc' = "returned"
    /\ UNCHANGED <<call, inMulti, easy, cookies, capture, code, multi, result>>

(* The failures a callback leaves a mark of.                                *)
Flagged == {BODY_LIMIT, HEADER_LIMIT, SINK_ERROR}

(* execute_detailed_inner: the callbacks' own errors win over the status,   *)
(* and metadata is copied before the next call.                             *)
Report ==
    /\ pc = "returned"
    /\ result' = IF capture.failure \in Flagged THEN capture.failure ELSE Status
    /\ pc' = "idle"
    /\ UNCHANGED <<call, inUse, inMulti, easy, cookies, capture, code, multi, info>>

(* Dropping the ExecutionSession between calls ends the document's cookies. *)
Drop ==
    /\ pc = "idle" /\ ~inUse
    /\ pc' = "dropped"
    /\ cookies' = {}
    /\ UNCHANGED <<call, inUse, inMulti, easy, capture, code, multi, info, result>>

Done == pc = "dropped" /\ UNCHANGED vars

Bridge == Configure \/ AddToMulti \/ PerformEnds \/ RemoveFromMulti \/ Release \/ Report

Next ==
    \/ Acquire \/ Bridge
    \/ \E n \in 1..MaxChunk : Body(n) \/ Header(n)
    \/ Progress \/ Drop \/ Done

Spec == Init /\ [][Next]_vars

(* A transfer has a timeout, at most the bridge's hard limit, so driving it *)
(* ends; the rest is straight-line code.                                    *)
Fairness == WF_vars(Bridge)

-----------------------------------------------------------------------------
Calls == 1..MaxCalls
CurlCodes == {"ok", "setopt", "failed_init", "write_error", "aborted", "timeout",
              "too_many_redirects", "connect"}
MultiCodes == {"ok", "added_already", "out_of_memory", "internal_error", "bad_handle"}
Failures == Flagged \cup {"none", REFUSED}

(* Every variable has its type.                                             *)
TypeOK ==
    /\ call \in 0..MaxCalls
    /\ pc \in {"idle", "configure", "add", "perform", "remove", "info", "returned", "dropped"}
    /\ inUse \in BOOLEAN /\ inMulti \in BOOLEAN /\ easy \in 0..MaxCalls
    /\ cookies \subseteq Calls
    /\ capture \in [body : 0..MaxBody, headers : 0..MaxHeader, failure : Failures,
                    cancelled : BOOLEAN]
    /\ code \in CurlCodes /\ multi \in MultiCodes /\ info \in 0..MaxCalls
    /\ result \in {"none", "busy", "transfer_error", "cancelled"}
                  \cup (CurlCodes \ {"failed_init", "aborted"}) \cup Flagged

(* Between calls the session is as a new one: the flag is free and the easy  *)
(* handle is out of the multi handle, whichever path the last call took.     *)
SessionReusable == pc \in {"idle", "dropped"} => ~inUse /\ ~inMulti

(* A call that reports success had no failing callback, was not cancelled,   *)
(* and describes itself in its metadata, not an earlier call; a limit or     *)
(* sink failure is reported as such, whatever code libcurl turns the refused *)
(* callback into.                                                            *)
ResultIsOwn ==
    pc = "idle" =>
        /\ result = "ok" => capture.failure = "none" /\ ~capture.cancelled /\ info = call
        /\ capture.failure \in Flagged => result = capture.failure

=============================================================================
