-------------------------------- MODULE Probe --------------------------------
(***************************************************************************)
(* crates/mdok-quickjs, run_script_with_executor, under `mdok probe`: one    *)
(* Postman script and the loop that pumps its child requests, promise jobs   *)
(* and timers until nothing is left or the deadline has passed.              *)
(*                                                                         *)
(* JavaScript runs in three places: the script itself, a promise job and a   *)
(* timer callback.  Running code makes host calls in any order: it sends     *)
(* child requests, settles promises, sets and clears timers, logs and        *)
(* records tests; it ends, throws, or runs until the interrupt handler sees  *)
(* the deadline.  What is recorded is kept by kind; texts and their          *)
(* redaction, variable scopes and the list of APIs used are left out.        *)
(***************************************************************************)
EXTENDS Integers, Sequences, FiniteSets

CONSTANTS MaxSends,     \* bound: child requests of a run
          MaxJobs,      \* bound: promise jobs queued at a time
          TimerIds,     \* bound: timers armed at a time
          MaxLogs       \* Profile::max_log_entries

ASSUME ProbeAssumption == MaxJobs \in Nat /\ MaxLogs \in Nat

VARIABLES
    network,        \* --network
    expired,        \* the script's deadline has passed
    pc,
    caller,         \* while code runs: "script", "job" or "timers"
    after,          \* while jobs are drained: which of the three calls this is
    pending,        \* HostState::pending, by op
    batch,          \* requests taken from pending and not yet executed
    next_op,
    records,        \* HostState::child_requests: op and resolved
    jobs,           \* promise jobs queued
    timers,         \* armed timers
    intervals,      \* those of setInterval
    due,            \* those whose time has come
    firing,         \* due timers __mdok_drain_timers has still to call
    tests,          \* whether a test recorded by pm.test has failed
    errors,         \* HostState::errors is not empty
    timed_out,
    logs,           \* entries
    diagnostics,    \* codes
    outcome,
    exit,           \* exit code of the command
    lateCalls,      \* history: requests executed after the deadline
    posed           \* history: an exception was taken for an interrupt before the deadline

clock == <<network, expired>>
queues == <<pending, batch, next_op, records, lateCalls>>
timerVars == <<timers, intervals, due, firing>>
notes == <<tests, logs, diagnostics>>
control == <<pc, caller, after>>
verdict == <<errors, timed_out>>
vars == <<clock, queues, jobs, timerVars, notes, control, verdict, outcome, exit, posed>>

Codes == {"NETWORK-OFFLINE", "TIMEOUT", "LIMIT", "INPUT", "INTERNAL"}

Init ==
    /\ network \in {"offline", "fetch"} /\ expired = FALSE
    /\ pc = "args" /\ caller = "script" /\ after = "idle"
    /\ pending = <<>> /\ batch = <<>> /\ next_op = 1 /\ records = <<>> /\ jobs = 0
    /\ timers = {} /\ intervals = {} /\ due = {} /\ firing = {}
    /\ tests = FALSE /\ errors = FALSE /\ timed_out = FALSE /\ logs = 0 /\ diagnostics = {}
    /\ outcome = "none" /\ exit = 99 /\ lateCalls = 0
    /\ posed = FALSE

GoTo(label) == pc' = label /\ UNCHANGED <<caller, after>>
Drain(from) == pc' = "drain" /\ after' = from /\ UNCHANGED caller
Run(code) == pc' = "code" /\ caller' = code /\ UNCHANGED after
Break == GoTo("fold")

(* run_probe: the mode, the case and the timeout are read.                   *)
ReadCase ==
    /\ pc = "args"
    /\ \/ GoTo("setup") /\ UNCHANGED <<diagnostics, exit>>
       \/ GoTo("done") /\ exit' = 2 /\ diagnostics' = {"INPUT"}
    /\ UNCHANGED <<posed, clock, queues, jobs, timerVars, tests, logs, verdict, outcome>>

(* The runtime, the context, the facade and its prelude; any of them can     *)
(* fail (harness_error).                                                     *)
SetUp ==
    /\ pc = "setup"
    /\ \/ Run("script") /\ UNCHANGED <<diagnostics, outcome>>
       \/ GoTo("print") /\ diagnostics' = {"INTERNAL"} /\ outcome' = "error"
    /\ UNCHANGED <<posed, clock, queues, jobs, timerVars, tests, logs, verdict, exit>>

-----------------------------------------------------------------------------
(* Time, external.                                                           *)
Deadline ==
    /\ ~expired /\ expired' = TRUE
    /\ UNCHANGED <<posed, network, queues, jobs, timerVars, notes, control, verdict, outcome, exit>>

TimerDue ==
    /\ \E id \in timers \ due : due' = due \cup {id}
    /\ UNCHANGED <<posed, clock, queues, jobs, timers, intervals, firing, notes, control, verdict,
                   outcome, exit>>

-----------------------------------------------------------------------------
(* Running code.  __mdok_send.                                               *)
Send ==
    /\ pc = "code" /\ next_op <= MaxSends
    /\ pending' = Append(pending, next_op) /\ next_op' = next_op + 1
    /\ UNCHANGED <<posed, clock, batch, records, lateCalls, jobs, timerVars, notes, control, verdict,
                   outcome, exit>>

(* A promise with reactions is settled.                                      *)
QueueJob ==
    /\ pc = "code" /\ jobs < MaxJobs
    /\ jobs' = jobs + 1
    /\ UNCHANGED <<posed, clock, queues, timerVars, notes, control, verdict, outcome, exit>>

SetTimer ==
    /\ pc = "code"
    /\ \E id \in TimerIds \ timers :
          /\ timers' = timers \cup {id}
          /\ intervals' \in {intervals, intervals \cup {id}}
          /\ due' \in {due, due \cup {id}}
          /\ firing' = firing \ {id}
    /\ UNCHANGED <<posed, clock, queues, jobs, notes, control, verdict, outcome, exit>>

ClearTimer ==
    /\ pc = "code"
    /\ \E id \in timers :
          /\ timers' = timers \ {id} /\ intervals' = intervals \ {id} /\ due' = due \ {id}
    /\ UNCHANGED <<posed, clock, queues, jobs, firing, notes, control, verdict, outcome, exit>>

(* HostState::record_log: the first entry over the limit leaves a diagnostic. *)
Log ==
    /\ pc = "code"
    /\ IF logs >= MaxLogs THEN diagnostics' = diagnostics \cup {"LIMIT"} /\ UNCHANGED logs
       ELSE logs' = logs + 1 /\ UNCHANGED diagnostics
    /\ UNCHANGED <<posed, clock, queues, jobs, timerVars, tests, control, verdict, outcome, exit>>

Test ==
    /\ pc = "code"
    /\ \E passed \in BOOLEAN : tests' = (tests \/ ~passed)
    /\ UNCHANGED <<posed, clock, queues, jobs, timerVars, logs, diagnostics, control, verdict, outcome,
                   exit>>

EndCode ==
    /\ pc = "code"
    /\ GoTo(IF caller = "script" THEN "top" ELSE IF caller = "job" THEN "drain" ELSE "timers")
    /\ UNCHANGED <<posed, clock, queues, jobs, timerVars, notes, verdict, outcome, exit>>

(* A recorded exception, or one whose message contains "interrupted": that   *)
(* is all is_interrupted and drain_jobs know an interrupt by.                *)
RecordError == errors' = TRUE /\ UNCHANGED <<timed_out, posed>>
TakeForInterrupt == timed_out' = TRUE /\ posed' = ~expired /\ UNCHANGED errors

(* record_script_error: of the three it alone knows the memory limit.        *)
ThrowScript ==
    /\ caller = "script" /\ GoTo("top")
    /\ \/ RecordError /\ diagnostics' \in {diagnostics, diagnostics \cup {"LIMIT"}}
       \/ TakeForInterrupt /\ UNCHANGED diagnostics

(* An exception out of a reaction rejects the promise the reaction makes,    *)
(* which nobody looks at; one out of the job itself leaves the loop.         *)
ThrowJob ==
    /\ caller = "job" /\ UNCHANGED diagnostics
    /\ \/ GoTo("drain") /\ UNCHANGED <<verdict, posed>>
       \/ GoTo("fold") /\ (RecordError \/ TakeForInterrupt)

(* __mdok_timer_error.                                                       *)
ThrowTimer ==
    /\ caller = "timers" /\ GoTo("timers")
    /\ RecordError /\ UNCHANGED diagnostics

(* An uncaught exception, by where the code runs.                            *)
Throw ==
    /\ pc = "code"
    /\ ThrowScript \/ ThrowJob \/ ThrowTimer
    /\ UNCHANGED <<clock, queues, jobs, timerVars, tests, logs, outcome, exit>>

(* The interrupt handler.  Out of a timer callback the exception reaches     *)
(* record_script_error uncaught, where is_interrupted does not see it.       *)
Interrupt ==
    /\ pc = "code" /\ expired
    /\ IF caller = "timers" THEN errors' = TRUE /\ UNCHANGED timed_out
       ELSE timed_out' = TRUE /\ UNCHANGED errors
    /\ GoTo(IF caller = "script" THEN "top" ELSE "fold")
    /\ UNCHANGED <<posed, clock, queues, jobs, timerVars, notes, outcome, exit>>

Code == Send \/ QueueJob \/ SetTimer \/ ClearTimer \/ Log \/ Test \/ EndCode \/ Throw

-----------------------------------------------------------------------------
(* The loop.  Its head looks at the deadline and takes the pending requests. *)
Top ==
    /\ pc = "top"
    /\ IF expired
         THEN timed_out' = TRUE /\ Break /\ UNCHANGED <<pending, batch>>
         ELSE /\ UNCHANGED timed_out
              /\ IF pending # <<>>
                   THEN batch' = pending /\ pending' = <<>> /\ GoTo("batch")
                   ELSE Drain("idle") /\ UNCHANGED <<pending, batch>>
    /\ UNCHANGED <<posed, clock, next_op, records, lateCalls, jobs, timerVars, notes, errors, outcome,
                   exit>>

(* The executor: offline it refuses, else the request is made or fails.      *)
Resolves == IF network = "offline" THEN {FALSE} ELSE BOOLEAN
RecordChild(op, ok) == records' = Append(records, [op |-> op, resolved |-> ok])

(* One request of the batch: the executor, the record, and the promise       *)
(* settled, which queues its reactions unless the call is interrupted.  The  *)
(* generation never changes, so no request is skipped.                       *)
Execute ==
    /\ pc = "batch" /\ batch # <<>>
    /\ \E ok \in Resolves : RecordChild(Head(batch), ok)
    /\ diagnostics' = diagnostics \cup (IF network = "offline" THEN {"NETWORK-OFFLINE"} ELSE {})
    /\ batch' = Tail(batch) /\ lateCalls' = lateCalls + (IF expired THEN 1 ELSE 0)
    /\ \/ jobs' \in {jobs, jobs + 1} /\ jobs' <= MaxJobs /\ UNCHANGED timed_out
       \/ expired /\ timed_out' = TRUE /\ UNCHANGED jobs
    /\ Drain("batch")
    /\ UNCHANGED <<posed, clock, pending, next_op, timerVars, tests, logs, errors, outcome, exit>>

EndBatch ==
    /\ pc = "batch" /\ batch = <<>>
    /\ GoTo("top")
    /\ UNCHANGED <<posed, clock, queues, jobs, timerVars, notes, verdict, outcome, exit>>

(* Mutant of DrainJob: the deadline is left to the head of the loop.         *)
DrainJobLate ==
    /\ pc = "drain" /\ jobs > 0
    /\ jobs' = jobs - 1 /\ Run("job")
    /\ UNCHANGED <<posed, clock, queues, timerVars, notes, verdict, outcome, exit>>

(* drain_jobs: the deadline, the next job, or the way back to the caller.    *)
DrainJob ==
    /\ pc = "drain" /\ ~expired /\ jobs > 0
    /\ jobs' = jobs - 1 /\ Run("job")
    /\ UNCHANGED <<posed, clock, queues, timerVars, notes, verdict, outcome, exit>>

DrainExpired ==
    /\ pc = "drain" /\ expired
    /\ timed_out' = TRUE /\ Break
    /\ UNCHANGED <<posed, clock, queues, jobs, timerVars, notes, errors, outcome, exit>>

(* Mutant of Drained: a timer queue that is empty ends the loop.             *)
DrainedForGood ==
    /\ pc = "drain" /\ ~expired /\ jobs = 0
    /\ GoTo(IF timed_out THEN "fold"
            ELSE IF after = "batch" THEN "batch"
            ELSE IF after = "idle" THEN "collect"
            ELSE "fold")
    /\ UNCHANGED <<posed, clock, queues, jobs, timerVars, notes, verdict, outcome, exit>>

Drained ==
    /\ pc = "drain" /\ ~expired /\ jobs = 0
    /\ GoTo(IF timed_out THEN "fold"
            ELSE IF after = "batch" THEN "batch"
            ELSE IF after = "idle" THEN "collect"
            ELSE IF pending = <<>> THEN "fold" ELSE "top")
    /\ UNCHANGED <<posed, clock, queues, jobs, timerVars, notes, verdict, outcome, exit>>

(* __mdok_drain_timers: the timers due now are called, unless cleared.       *)
Collect ==
    /\ pc = "collect"
    /\ firing' = due /\ GoTo("timers")
    /\ UNCHANGED <<posed, clock, queues, jobs, timers, intervals, due, notes, verdict, outcome, exit>>

Fire ==
    /\ pc = "timers"
    /\ \E id \in firing :
          /\ firing' = firing \ {id}
          /\ IF id \notin timers THEN GoTo("timers") /\ UNCHANGED <<timers, due>>
             ELSE /\ due' = due \ {id} /\ Run("timers")
                  /\ timers' = IF id \in intervals THEN timers ELSE timers \ {id}
    /\ UNCHANGED <<posed, clock, queues, jobs, intervals, notes, verdict, outcome, exit>>

(* The time to the next timer decides what comes next.  It is negative when  *)
(* there is none, and also when one is overdue.                              *)
EndTimers ==
    /\ pc = "timers" /\ firing = {}
    /\ \/ /\ timers = {} \/ due # {}
          /\ IF pending # <<>> THEN GoTo("top") ELSE Drain("quiet")
       \/ due # {} /\ GoTo("top")
       \/ timers # {} /\ due = {} /\ GoTo("sleep")
    /\ UNCHANGED <<posed, clock, queues, jobs, timerVars, notes, verdict, outcome, exit>>

Sleep ==
    /\ pc = "sleep"
    /\ due # {} \/ expired
    /\ GoTo("top")
    /\ UNCHANGED <<posed, clock, queues, jobs, timerVars, notes, verdict, outcome, exit>>

(* After the loop: the outcome.                                              *)
Fold ==
    /\ pc = "fold"
    /\ outcome' = IF timed_out THEN "timeout" ELSE IF errors THEN "error"
                  ELSE IF tests THEN "failed" ELSE "passed"
    /\ diagnostics' = diagnostics \cup (IF timed_out THEN {"TIMEOUT"} ELSE {})
    /\ GoTo("print")
    /\ UNCHANGED <<posed, clock, queues, jobs, timerVars, tests, logs, verdict, exit>>

(* run_probe prints what there is; only a harness error is not an exit of 0. *)
PrintOutput ==
    /\ pc = "print"
    /\ exit' = (IF "INTERNAL" \in diagnostics THEN 4 ELSE 0) /\ GoTo("done")
    /\ UNCHANGED <<posed, clock, queues, jobs, timerVars, notes, verdict, outcome>>

Engine ==
    ReadCase \/ SetUp \/ Top \/ Execute \/ EndBatch \/ DrainJob \/ DrainExpired \/ Drained \/ Collect \/ Fire
    \/ EndTimers \/ Sleep \/ Fold \/ PrintOutput

Done == pc = "done" /\ UNCHANGED vars

Next == Deadline \/ TimerDue \/ Code \/ Interrupt \/ Engine \/ Done

(* Time passes, the engine's own steps are taken, and QuickJS calls the      *)
(* interrupt handler while code runs; code need not end by itself.           *)
Fairness == WF_vars(Deadline) /\ WF_vars(Engine) /\ WF_vars(Interrupt)

Spec == Init /\ [][Next]_vars /\ Fairness

-----------------------------------------------------------------------------
TypeOK ==
    /\ pc \in {"args", "code", "top", "batch", "drain", "collect", "timers", "sleep", "fold",
               "setup", "print", "done"}
    /\ caller \in {"script", "job", "timers"} /\ after \in {"idle", "batch", "quiet"}
    /\ jobs \in 0..MaxJobs /\ logs \in 0..MaxLogs
    /\ intervals \subseteq TimerIds /\ due \subseteq timers /\ timers \subseteq TimerIds
    /\ diagnostics \subseteq Codes
    /\ outcome \in {"none", "passed", "failed", "error", "timeout"}

(* A verdict is given only when no child request and no promise job is left: *)
(* every request sent by the script, a job or a callback was executed once,  *)
(* in the order of sending, and none of them after the deadline.  In any     *)
(* case at most one request is begun late, and a timeout is reported only    *)
(* after the deadline or for an exception taken for an interrupt.  It does   *)
(* not say that nothing was thrown: what is thrown in a reaction is lost.    *)
(* (run_script_with_executor, drain_jobs, is_interrupted)                    *)
VerdictIsFinal ==
    /\ \A i \in DOMAIN records : records[i].op = i
    /\ lateCalls <= 1
    /\ outcome = "timeout" => expired \/ posed
    /\ outcome \in {"passed", "failed"} =>
         Len(records) = next_op - 1 /\ jobs = 0 /\ lateCalls = 0

(* As the comment of the loop has it, timers are pumped until nothing is     *)
(* left: no verdict is given while a timer is armed.                         *)
TimersPumped == outcome \in {"passed", "failed"} => timers = {}

(* Whatever the script does, timers and intervals that arm themselves again, *)
(* requests out of callbacks, code that never ends: the probe returns.       *)
(* (the deadline in the loop, drain_jobs and the interrupt handler)          *)
ProbeEnds == <>(exit # 99)
=============================================================================
