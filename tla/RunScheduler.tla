---------------------------- MODULE RunScheduler ----------------------------
(***************************************************************************)
(* crates/mdok-cli: `run` over several documents.  With --fail-fast, one    *)
(* job or one document the calling thread processes them in order, and may  *)
(* stream an event per step with --json-lines; otherwise `jobs` threads     *)
(* take document indices from a shared stack and store results in shared    *)
(* slots.  The report and its events are put together afterwards.           *)
(*                                                                         *)
(* A step's report is 0 when it passed and a diagnostic code otherwise.     *)
(* Documents meet in one place: with --artifact every transfer that has a    *)
(* response promotes its body to the same file, which is never overwritten.  *)
(* It does so before the step's checks are looked at; exec steps, and steps  *)
(* that fail before they have a response, promote nothing.                   *)
(***************************************************************************)
EXTENDS Integers, Sequences, FiniteSets, SequencesExt, ExitCodes

CONSTANTS Count,        \* number of discovered documents
          MaxJobs,      \* bound: the larger of --jobs and the configured jobs
          MaxSteps,     \* bound: steps of a document
          StepCodes,    \* what the steps of a document answer
          PlanCodes,    \* what planning a document answers, 0 for a plan
          Bodies,       \* which steps of a document have a body to promote
          None

ASSUME RunAssumption ==
    /\ Count \in Nat \ {0} /\ MaxJobs \in Nat \ {0} /\ MaxSteps \in Nat
    /\ StepCodes \subseteq Nat /\ PlanCodes \subseteq Nat /\ 0 \in PlanCodes
    /\ Bodies \subseteq SUBSET Nat /\ None \notin Nat

Docs == 1..Count
Answers == UNION {[1..k -> StepCodes] : k \in 0..MaxSteps}
Places == Docs \X (1..MaxSteps)

(* What becomes of a document by itself: its plan's code, what its steps     *)
(* report, and which of them have a body to promote.                         *)
Source(c, a, b) == [code |-> c, steps |-> a, bodies |-> b]
Planned == {Source(0, a, b) : a \in Answers, b \in Bodies}
Sources == {s \in Planned : s.bodies \subseteq DOMAIN s.steps}
           \cup {Source(c, <<>>, {}) : c \in PlanCodes \ {0}}

VARIABLES
    opts,           \* fail_fast, json_lines
    jobs,           \* the larger of --jobs and the configured jobs
    source,         \* document -> what planning and its steps will answer
    main,           \* position of the calling thread
    slots,          \* process_documents_parallel: indices still to take
    work,           \* per thread: position, document in hand, steps reported
    results,        \* document -> finished DocumentReport or None
    artifact,       \* document and step that own the artifact file, or None
    docs,           \* Report::documents
    events,         \* Report::events
    lines,          \* event lines that reached stdout while streaming
    streamError,    \* stream_error: a line could not be written
    exit            \* exit status of the run, or None

vars == <<opts, jobs, source, main, slots, work, results, artifact, docs, events, lines,
          streamError, exit>>

Parallel == IF jobs < Count THEN jobs ELSE Count
Sequential == opts.fail_fast \/ Parallel = 1
Streaming == opts.json_lines /\ Sequential
Threads == 1..MaxJobs
Idle == [pc |-> "idle", doc |-> 0, steps |-> <<>>]
Ready == [pc |-> "take", doc |-> 0, steps |-> <<>>]
FailedReport(r) == r.code # 0 \/ \E i \in DOMAIN r.steps : r.steps[i] # 0

Init ==
    /\ opts \in [fail_fast : BOOLEAN, json_lines : BOOLEAN]
    /\ jobs \in 1..MaxJobs
    /\ source \in [Docs -> Sources]
    /\ main = "start"
    /\ slots = <<>>
    /\ work = [t \in Threads |-> Idle]
    /\ results = [d \in Docs |-> None]
    /\ artifact = None
    /\ docs = <<>> /\ events = <<>> /\ lines = <<>>
    /\ streamError = FALSE
    /\ exit = None

StepEvent(d, i) == [doc |-> d, step |-> i]
DocEvent(d) == [doc |-> d, step |-> 0]

-----------------------------------------------------------------------------
(* Choosing the schedule.  The threads of the pool, or the calling thread   *)
(* itself (thread 1), are ready to take a document.                         *)
Start ==
    /\ main = "start"
    /\ main' = "running"
    /\ slots' = [d \in Docs |-> d]
    /\ work' = [t \in Threads |->
                  IF t <= (IF Sequential THEN 1 ELSE Parallel)
                    THEN Ready ELSE Idle]
    /\ UNCHANGED <<opts, jobs, source, results, artifact, docs, events, lines, streamError, exit>>

Thread(t, w) == work' = [work EXCEPT ![t] = w]
Goto(t, p) == Thread(t, [pc |-> p, doc |-> work[t].doc, steps |-> work[t].steps])

(* slots.pop() under the lock in the pool; the next path in order otherwise.*)
Take(t) ==
    /\ work[t].pc = "take" /\ slots # <<>>
    /\ LET d == IF Sequential THEN Head(slots) ELSE Last(slots)
       IN Thread(t, [pc |-> "plan", doc |-> d, steps |-> <<>>])
    /\ slots' = IF Sequential THEN Tail(slots) ELSE Front(slots)
    /\ UNCHANGED <<opts, jobs, source, main, results, artifact, docs, events, lines,
                   streamError, exit>>

(* Bug: a thread polls the empty stack for more.                            *)
NoMoreSlotsPolls(t) ==
    /\ work[t].pc = "take" /\ slots = <<>>
    /\ UNCHANGED vars

NoMoreSlots(t) ==
    /\ work[t].pc = "take" /\ slots = <<>>
    /\ Thread(t, Idle)
    /\ UNCHANGED <<opts, jobs, source, main, slots, results, artifact, docs, events, lines,
                   streamError, exit>>

Plan(t) ==
    /\ work[t].pc = "plan"
    /\ Goto(t, IF source[work[t].doc].code # 0 THEN "store" ELSE "step")
    /\ UNCHANGED <<opts, jobs, source, main, slots, results, artifact, docs, events, lines,
                   streamError, exit>>

(* Bug: the stream goes on after a line was lost.                           *)
HookIgnoresError(d, i) ==
    IF ~Streaming
      THEN UNCHANGED <<events, lines, streamError>>
      ELSE /\ events' = Append(events, StepEvent(d, i))
           /\ \/ lines' = Append(lines, StepEvent(d, i)) /\ UNCHANGED streamError
              \/ streamError' = TRUE /\ UNCHANGED lines

(* The hook of a streaming run, called for every finished step: after the   *)
(* first line that cannot be written the steps go on, the stream does not.  *)
Hook(d, i) ==
    IF ~Streaming \/ streamError
      THEN UNCHANGED <<events, lines, streamError>>
      ELSE /\ events' = Append(events, StepEvent(d, i))
           /\ \/ lines' = Append(lines, StepEvent(d, i)) /\ UNCHANGED streamError
              \/ streamError' = TRUE /\ UNCHANGED lines

(* A step of the document in hand ends with code c.                         *)
EndStep(t, c) ==
    LET steps == Append(work[t].steps, c)
        stop == c # 0 /\ opts.fail_fast
    IN /\ Thread(t, [pc |-> IF stop THEN "store" ELSE "step", doc |-> work[t].doc,
                     steps |-> steps])
       /\ Hook(work[t].doc, Len(steps))

NextStep(t) == Len(work[t].steps) + 1
Answer(t) == source[work[t].doc].steps[NextStep(t)]
HasBody(t) == NextStep(t) \in source[work[t].doc].bodies

(* execute_command or transfer: with a body to promote the step goes on in   *)
(* promote_to_artifact, and its checks come later.                           *)
RunStep(t) ==
    /\ work[t].pc = "step" /\ Len(work[t].steps) < Len(source[work[t].doc].steps)
    /\ \/ /\ HasBody(t)
          /\ Goto(t, "promote")
          /\ UNCHANGED <<events, lines, streamError>>
       \/ /\ ~HasBody(t)
          /\ EndStep(t, Answer(t))
    /\ UNCHANGED <<opts, jobs, source, main, slots, results, artifact, docs, exit>>

(* promote_to_artifact: the destination is looked at before the body is     *)
(* copied.  A file that is there is the transfer's error, and no check is    *)
(* evaluated ...                                                            *)
Promote(t) ==
    /\ work[t].pc = "promote"
    /\ \/ /\ artifact # None
          /\ EndStep(t, 303)
       \/ /\ artifact = None
          /\ Goto(t, "persist")
          /\ UNCHANGED <<events, lines, streamError>>
    /\ UNCHANGED <<opts, jobs, source, main, slots, results, artifact, docs, exit>>

(* ... and persist_noclobber decides who gets it; the owner then reports     *)
(* what its checks say.                                                      *)
Persist(t) ==
    /\ work[t].pc = "persist"
    /\ IF artifact = None
         THEN artifact' = <<work[t].doc, NextStep(t)>> /\ EndStep(t, Answer(t))
         ELSE UNCHANGED artifact /\ EndStep(t, 303)
    /\ UNCHANGED <<opts, jobs, source, main, slots, results, docs, exit>>

LastStep(t) ==
    /\ work[t].pc = "step" /\ Len(work[t].steps) = Len(source[work[t].doc].steps)
    /\ Goto(t, "store")
    /\ UNCHANGED <<opts, jobs, source, main, slots, results, artifact, docs, events, lines,
                   streamError, exit>>

Report(t) == [code |-> source[work[t].doc].code, steps |-> work[t].steps]
Stops(r) == FailedReport(r) /\ opts.fail_fast

(* Bug: the slot is the stack's height, not the document's index.           *)
StoreAtHeight(t) ==
    /\ work[t].pc = "store" /\ ~Streaming
    /\ results' = [results EXCEPT ![Len(slots) + 1] = Report(t)]
    /\ Thread(t, IF Stops(Report(t)) THEN Idle ELSE Ready)
    /\ UNCHANGED <<opts, jobs, source, main, slots, artifact, docs, events, lines,
                   streamError, exit>>

(* A pool thread stores its result; the calling thread pushes it and stops  *)
(* at the first failed document when asked to.                              *)
Store(t) ==
    LET d == work[t].doc
    IN /\ work[t].pc = "store" /\ ~Streaming
       /\ results' = [results EXCEPT ![d] = Report(t)]
       /\ Thread(t, IF Stops(Report(t)) THEN Idle ELSE Ready)
       /\ UNCHANGED <<opts, jobs, source, main, slots, artifact, docs, events, lines,
                      streamError, exit>>

(* The end of a streamed document: a stream error ends the run, otherwise   *)
(* the document's event follows, and the document joins the report.         *)
StreamDocument(t) ==
    LET d == work[t].doc
    IN /\ work[t].pc = "store" /\ Streaming
       /\ results' = [results EXCEPT ![d] = Report(t)]
       /\ \/ /\ streamError
             /\ exit' = 4 /\ main' = "aborted" /\ Thread(t, Idle)
             /\ UNCHANGED <<docs, events, lines>>
          \/ /\ ~streamError      \* the document's line cannot be written
             /\ events' = Append(events, DocEvent(d))
             /\ exit' = 4 /\ main' = "aborted" /\ Thread(t, Idle)
             /\ UNCHANGED <<docs, lines>>
          \/ /\ ~streamError
             /\ events' = Append(events, DocEvent(d))
             /\ lines' = Append(lines, DocEvent(d))
             /\ docs' = Append(docs, Report(t))
             /\ Thread(t, IF Stops(Report(t)) THEN Idle ELSE Ready)
             /\ UNCHANGED <<main, exit>>
       /\ UNCHANGED <<opts, jobs, source, slots, artifact, streamError>>

-----------------------------------------------------------------------------
(* All threads are done.  append_report_document for every stored result,   *)
(* in input order: its step events, its document event, the document.       *)
DocEvents(d, r) == Append([i \in 1..Len(r.steps) |-> StepEvent(d, i)], DocEvent(d))

(* into_iter().flatten(): the results there are, in the order of their      *)
(* documents.                                                               *)
NthOf(S, k) == CHOOSE d \in S : Cardinality({e \in S : e <= d}) = k

Assembled ==
    LET done == {d \in Docs : results[d] # None}
        n == Cardinality(done)
    IN [docs   |-> [k \in 1..n |-> results[NthOf(done, k)]],
        events |-> FoldLeft(LAMBDA es, k : es \o DocEvents(k, results[NthOf(done, k)]),
                            <<>>, [k \in 1..n |-> k])]

(* Bug: the report is put together before the pool is joined.               *)
AssembleEarly ==
    /\ main = "running" /\ slots = <<>>
    /\ IF Streaming THEN UNCHANGED <<docs, events>>
                    ELSE docs' = Assembled.docs /\ events' = Assembled.events
    /\ main' = "emit"
    /\ UNCHANGED <<opts, jobs, source, slots, work, results, artifact, lines, streamError, exit>>

Assemble ==
    /\ main = "running" /\ \A t \in Threads : work[t].pc = "idle"
    /\ IF Streaming THEN UNCHANGED <<docs, events>>
                    ELSE docs' = Assembled.docs /\ events' = Assembled.events
    /\ main' = "emit"
    /\ UNCHANGED <<opts, jobs, source, slots, work, results, artifact, lines, streamError, exit>>

CodesOf(r) == ({r.code} \cup {r.steps[i] : i \in DOMAIN r.steps}) \ {0}

(* emit_report: a file or stdout that cannot be written is an internal      *)
(* error, whatever the documents did.                                       *)
Emit(ok) ==
    /\ main = "emit"
    /\ exit' = IF ok THEN ReportExitCode(UNION {CodesOf(docs[k]) : k \in DOMAIN docs},
                                         \E k \in DOMAIN docs : FailedReport(docs[k]))
                     ELSE 4
    /\ main' = "exited"
    /\ UNCHANGED <<opts, jobs, source, slots, work, results, artifact, docs, events, lines,
                   streamError>>

ThreadStep(t) ==
    \/ Take(t) \/ NoMoreSlots(t) \/ Plan(t) \/ RunStep(t) \/ Promote(t) \/ Persist(t)
    \/ LastStep(t) \/ Store(t) \/ StreamDocument(t)

Done == main \in {"exited", "aborted"} /\ UNCHANGED vars

Next ==
    \/ Start
    \/ \E t \in Threads : ThreadStep(t)
    \/ Assemble
    \/ \E ok \in BOOLEAN : Emit(ok)
    \/ Done

(* Threads of the pool are scheduled by the operating system.               *)
Fairness ==
    /\ WF_vars(Start \/ Assemble \/ \E ok \in BOOLEAN : Emit(ok))
    /\ \A t \in Threads : WF_vars(ThreadStep(t))

Spec == Init /\ [][Next]_vars /\ Fairness

-----------------------------------------------------------------------------
StepReports == UNION {[1..k -> StepCodes \cup {303}] : k \in 0..MaxSteps}
DocReports == [code : PlanCodes, steps : StepReports]
Events == [doc : Docs, step : 0..MaxSteps]

ASSUME NoneAssumption == None \notin DocReports \cup Places

(* Every variable has its type.                                             *)
TypeOK ==
    /\ opts \in [fail_fast : BOOLEAN, json_lines : BOOLEAN]
    /\ jobs \in 1..MaxJobs
    /\ source \in [Docs -> Sources]
    /\ main \in {"start", "running", "emit", "exited", "aborted"}
    /\ slots \in Seq(Docs)
    /\ work \in [Threads -> [pc : {"idle", "take", "plan", "step", "promote", "persist", "store"},
                             doc : 0..Count, steps : StepReports]]
    /\ results \in [Docs -> DocReports \cup {None}]
    /\ artifact \in Places \cup {None}
    /\ docs \in Seq(DocReports) /\ events \in Seq(Events) /\ lines \in Seq(Events)
    /\ streamError \in BOOLEAN
    /\ exit \in 0..4 \cup {None}

(* Where step i of document d met the artifact file of another step, it      *)
(* reports that; otherwise what it answers by itself.                        *)
Lost(d, i) == i \in source[d].bodies /\ artifact # <<d, i>>
Given(d, i) == IF Lost(d, i) THEN 303 ELSE source[d].steps[i]

(* The schedule, the number of jobs and streaming make no difference: a      *)
(* document reports what it answers by itself, to its end or, with           *)
(* --fail-fast, to its first failure, and a finished run reports the         *)
(* documents in input order, all of them or up to a failed one.  The one     *)
(* difference is who gets the artifact file: one step at most, whatever its  *)
(* checks say, and every other step with a body reports that it was there.   *)
(* (process_documents_parallel, execute_plan, promote_to_artifact)           *)
ScheduleInvisible ==
    /\ \A d \in Docs : results[d] # None =>
         LET s == results[d].steps
             whole == source[d].steps
         IN /\ results[d].code = source[d].code
            /\ \A i \in 1..Len(s) : s[i] = Given(d, i) /\ (Lost(d, i) => artifact # None)
            /\ \/ Len(s) = Len(whole)
               \/ opts.fail_fast /\ Len(s) \in 1..Len(whole) /\ s[Len(s)] # 0
    /\ main = "exited" =>
         /\ \A d \in DOMAIN docs : docs[d] = results[d]
         /\ \/ Len(docs) = Count
            \/ opts.fail_fast /\ Len(docs) \in 1..Count /\ FailedReport(docs[Len(docs)])

(* Streamed lines are a gapless prefix of the events, the whole of them when *)
(* the run was not aborted, and an aborted run does not look successful.     *)
StreamIsPrefix ==
    /\ Streaming => IsPrefix(lines, events)
    /\ Streaming /\ main = "exited" => lines = events
    /\ main = "exited" => ~streamError
    /\ main = "aborted" => exit = 4

(* Every schedule implements the contract of RunContract.                    *)
Contract == INSTANCE RunContract WITH
              Reports <- DocReports, Failing <- FailedReport, result <- results,
              report <- IF main \in {"emit", "exited"} THEN docs ELSE None
ContractSpec == Contract!Spec

(* A run ends: the pool drains the stack and the calling thread joins it.    *)
RunEnds == <>(main \in {"exited", "aborted"})
=============================================================================
