------------------------- MODULE RunSchedulerProofs -------------------------
(***************************************************************************)
(* Proofs about RunScheduler, for any number of documents, threads and      *)
(* steps: the inductive invariant IInv, the invariants ScheduleInvisible     *)
(* and StreamIsPrefix that follow from it, and the refinement of RunContract.*)
(*                                                                         *)
(* IInv says where every document is: still in `slots`, in the hands of      *)
(* exactly one thread, or in `results`.  The stack is consumed from one end, *)
(* so its length tells which documents have been taken (Taken), and a thread *)
(* that has left the pool tells that nothing is left to take, or that the    *)
(* last document taken failed under --fail-fast (Halted).                    *)
(***************************************************************************)
EXTENDS RunScheduler, SequenceTheorems, FiniteSetTheorems, TLAPS

(* Codes a step can be reported with; 303 is a lost artifact.               *)
Codes == StepCodes \cup {303}
Hands == [pc : {"idle", "take", "plan", "step", "promote", "persist", "store"},
          doc : 0..Count, steps : Seq(Codes)]
USE DEF Hands

(* A thread has a document in hand.                                         *)
Busy(t) == work[t].pc \in {"plan", "step", "promote", "persist", "store"}
(* The threads that take part in the run.                                   *)
Workers == 1..(IF Sequential THEN 1 ELSE Parallel)
(* The documents that have left the stack.                                  *)
Taken == IF Sequential THEN 1..(Count - Len(slots)) ELSE (Len(slots) + 1)..Count
(* s is a prefix of r, element by element.                                  *)
PrefixOf(s, r) == Len(s) <= Len(r) /\ \A i \in 1..Len(s) : s[i] = r[i]

(* Types, with the steps in hand as unbounded sequences.                    *)
TypeInv ==
    /\ opts \in [fail_fast : BOOLEAN, json_lines : BOOLEAN]
    /\ jobs \in 1..MaxJobs
    /\ source \in [Docs -> Sources]
    /\ main \in {"start", "running", "emit", "exited", "aborted"}
    /\ slots \in Seq(Docs)
    /\ work \in [Threads -> Hands]
    /\ results \in [Docs -> DocReports \cup {None}]
    /\ artifact \in Places \cup {None}
    /\ streamError \in BOOLEAN

(* The stack holds an end segment (in order) or a start segment (pool) of   *)
(* the documents; before the start nothing has happened.                    *)
SlotInv ==
    /\ Len(slots) <= Count
    /\ \A i \in 1..Len(slots) : slots[i] = IF Sequential THEN Count - Len(slots) + i ELSE i
    /\ main = "start" => /\ \A t \in Threads : work[t].pc = "idle"
                         /\ \A d \in Docs : results[d] = None
                         /\ docs = <<>> /\ artifact = None

(* Only workers of a running pool hold documents, each its own, taken and   *)
(* without a result.                                                        *)
HandInv ==
    /\ \A t \in Threads : work[t].pc # "idle" => main = "running" /\ t \in Workers
    /\ \A t \in Threads : Busy(t) =>
         /\ work[t].doc \in Docs \cap Taken
         /\ results[work[t].doc] = None
         /\ Sequential => work[t].doc = Count - Len(slots)
    /\ \A t, u \in Threads : Busy(t) /\ Busy(u) /\ work[t].doc = work[u].doc => t = u

(* A document that was taken has a result or is in some thread's hands.     *)
DoneInv ==
    /\ main # "start" =>
       \A d \in Docs : d \in Taken <=>
          \/ results[d] # None
          \/ \E t \in Threads : Busy(t) /\ work[t].doc = d

(* The run stopped at the last document taken, because it failed.           *)
Halted == /\ opts.fail_fast /\ Len(slots) < Count
          /\ results[Count - Len(slots)] # None
          /\ FailedReport(results[Count - Len(slots)])

(* A worker that is gone left nothing to take behind, or the run halted.    *)
StopInv ==
    main = "running" =>
      \A t \in Workers : work[t].pc = "idle" => slots = <<>> \/ Halted

(* A report of documents 1..n is complete.                                  *)
Covers(n) ==
    /\ n \in 0..Count
    /\ \A d \in 1..n : results[d] # None
    /\ n < Count => n > 0 /\ opts.fail_fast /\ FailedReport(results[n])

(* A streaming run's report so far is the results so far; a finished        *)
(* report is the results in input order.                                    *)
DocsInv ==
    /\ main = "running" /\ Streaming =>
         /\ DOMAIN docs = 1..(IF Busy(1) THEN Count - Len(slots) - 1 ELSE Count - Len(slots))
         /\ docs = [d \in DOMAIN docs |-> results[d]]
    /\ main \in {"emit", "exited"} =>
         \E n \in 0..Count : Covers(n) /\ docs = [d \in 1..n |-> results[d]]

(* The steps s reported for d so far, or all of them, are what its source r  *)
(* answers; a body met the file of another step, whose owner is a.  The      *)
(* steps end early only at a failure, under --fail-fast.                     *)
Told(r, d, s, whole, a, fail_fast) ==
    /\ Len(s) <= Len(r.steps)
    /\ \A i \in 1..Len(s) :
         IF i \in r.bodies /\ a # <<d, i>> THEN s[i] = 303 /\ a # None ELSE s[i] = r.steps[i]
    /\ whole => \/ r.code # 0
                \/ Len(s) = Len(r.steps)
                \/ fail_fast /\ Len(s) > 0 /\ s[Len(s)] # 0

Faithful(d, s, whole) == Told(source[d], d, s, whole, artifact, opts.fail_fast)

(* Steps in hand and results are faithful; only a body is promoted.          *)
AnswerInv ==
    /\ \A t \in Threads : Busy(t) =>
         /\ Faithful(work[t].doc, work[t].steps, work[t].pc = "store")
         /\ work[t].pc \in {"step", "promote", "persist"} => source[work[t].doc].code = 0
         /\ work[t].pc \in {"promote", "persist"} =>
              HasBody(t) /\ Len(work[t].steps) < Len(source[work[t].doc].steps)
    /\ \A d \in Docs : results[d] # None =>
         results[d].code = source[d].code /\ Faithful(d, results[d].steps, TRUE)

(* The step that owns the artifact file has been reported.                   *)
OwnerInv ==
    artifact # None =>
      /\ artifact[1] \in Taken
      /\ \A t \in Threads : Busy(t) /\ work[t].doc = artifact[1] =>
           artifact[2] <= Len(work[t].steps)

(* The lines written are a prefix of the events, all of them unless a       *)
(* line was lost; a lost line keeps the thread busy until the run is        *)
(* aborted.                                                                 *)
StreamInv ==
    /\ Streaming =>
         /\ lines \in Seq(Events) /\ events \in Seq(Events)
         /\ PrefixOf(lines, events)
         /\ ~streamError /\ main # "aborted" => lines = events
    /\ streamError => Streaming /\ main \in {"running", "aborted"}
    /\ streamError /\ main = "running" => Busy(1)
    /\ main = "aborted" => exit = 4

(* The inductive invariant.                                                 *)
IInv == /\ TypeInv /\ SlotInv /\ HandInv /\ DoneInv /\ StopInv /\ DocsInv
        /\ AnswerInv /\ OwnerInv /\ StreamInv

-----------------------------------------------------------------------------
(* A short enough sequence of codes is a step report.                       *)
LEMMA StepReportsAre ==
    ASSUME NEW s \in Seq(Codes), Len(s) <= MaxSteps
    PROVE  s \in StepReports
<1>1. Len(s) \in 0..MaxSteps
  BY LenProperties, RunAssumption
<1>2. s \in [1..Len(s) -> Codes]
  BY LenProperties
<1> QED
  BY <1>1, <1>2 DEF StepReports, Codes

(* What planning and the steps of a document answer.                        *)
LEMMA SourceType ==
    ASSUME TypeInv, NEW d \in Docs
    PROVE  /\ source[d].code \in PlanCodes
           /\ source[d].steps \in Seq(StepCodes)
           /\ Len(source[d].steps) \in 0..MaxSteps
           /\ source[d].code # 0 => Len(source[d].steps) = 0
<1>1. source[d] \in Sources
  BY DEF TypeInv
<1>2. CASE source[d] \in Planned
  <2>1. PICK a \in Answers, b \in Bodies : source[d] = Source(0, a, b)
    BY <1>2 DEF Planned
  <2>2. PICK k \in 0..MaxSteps : a \in [1..k -> StepCodes]
    BY DEF Answers
  <2>3. a \in Seq(StepCodes) /\ Len(a) = k
    BY <2>2, RunAssumption
  <2>4. source[d].code = 0 /\ source[d].steps = a
    BY <2>1 DEF Source
  <2> QED
    BY <2>3, <2>4, RunAssumption
<1>3. CASE \E c \in PlanCodes \ {0} : source[d] = Source(c, <<>>, {})
  <2>1. <<>> \in Seq(StepCodes) /\ Len(<<>>) = 0
    OBVIOUS
  <2> QED
    BY <1>3, <2>1, RunAssumption DEF Source
<1> QED
  BY <1>1, <1>2, <1>3 DEF Sources

(* When nobody owned the file no body was reported: an owner changes nothing *)
(* of what was.                                                              *)
LEMMA ToldKept ==
    ASSUME NEW d \in Docs, NEW r, Len(r.steps) \in 0..MaxSteps, NEW s \in Seq(Codes),
           NEW whole \in BOOLEAN, NEW fail_fast \in BOOLEAN, NEW a,
           Told(r, d, s, whole, None, fail_fast)
    PROVE  Told(r, d, s, whole, a, fail_fast)
<1>1. ASSUME NEW i \in 1..Len(s)
      PROVE  i \notin r.bodies /\ s[i] = r.steps[i]
  <2>1. <<d, i>> \in Places
    BY LenProperties, RunAssumption DEF Told, Places
  <2>2. None # <<d, i>>
    BY <2>1, NoneAssumption
  <2> QED
    BY <2>2 DEF Told
<1> QED
  BY <1>1 DEF Told

(* A step more, with a body or without, in each of its three ends.           *)
LEMMA ToldMore ==
    ASSUME NEW d, NEW r, NEW s \in Seq(Codes), NEW fail_fast \in BOOLEAN, NEW a, NEW b,
           NEW c \in Codes, Told(r, d, s, FALSE, a, fail_fast), Len(r.steps) \in Nat, Len(s) < Len(r.steps),
           \A i \in 1..Len(s) : i \in r.bodies /\ a # <<d, i>> => b # <<d, i>> /\ b # None,
           \A i \in 1..Len(s) : i \in r.bodies /\ a = <<d, i>> => b = <<d, i>>,
           IF Len(s) + 1 \in r.bodies /\ b # <<d, Len(s) + 1>>
             THEN c = 303 /\ b # None ELSE c = r.steps[Len(s) + 1]
    PROVE  /\ Told(r, d, Append(s, c), FALSE, b, fail_fast)
           /\ fail_fast /\ c # 0 => Told(r, d, Append(s, c), TRUE, b, fail_fast)
<1>1. /\ Len(s) \in Nat /\ Len(Append(s, c)) = Len(s) + 1 /\ Append(s, c)[Len(s) + 1] = c
      /\ \A i \in 1..Len(s) : Append(s, c)[i] = s[i]
  BY AppendProperties
<1> DEFINE z == Append(s, c)
<1>2. Len(z) <= Len(r.steps)
  BY <1>1
<1>3. ASSUME NEW i \in 1..Len(z)
      PROVE  IF i \in r.bodies /\ b # <<d, i>> THEN z[i] = 303 /\ b # None ELSE z[i] = r.steps[i]
  <2>1. i = Len(s) + 1 \/ i \in 1..Len(s)
    BY <1>1
  <2>2. CASE i = Len(s) + 1
    BY <1>1, <2>2
  <2>3. CASE i \in 1..Len(s)
    <3>1. z[i] = s[i]
      BY <1>1, <2>3
    <3>2. IF i \in r.bodies /\ a # <<d, i>> THEN s[i] = 303 /\ a # None ELSE s[i] = r.steps[i]
      BY <2>3 DEF Told
    <3> QED
      BY <2>3, <3>1, <3>2
  <2> QED
    BY <2>1, <2>2, <2>3
<1>4. c # 0 => Len(z) > 0 /\ z[Len(z)] # 0
  BY <1>1
<1> HIDE DEF z
<1>5. /\ Told(r, d, z, FALSE, b, fail_fast)
      /\ fail_fast /\ c # 0 => Told(r, d, z, TRUE, b, fail_fast)
  BY <1>2, <1>3, <1>4 DEF Told
<1> QED
  BY <1>5 DEF z

(* The options and the number of jobs fix the schedule (run, mode           *)
(* choice).                                                                 *)
LEMMA Frame ==
    ASSUME UNCHANGED <<opts, jobs>>
    PROVE  /\ Sequential' = Sequential /\ Streaming' = Streaming /\ Workers' = Workers
BY DEF Sequential, Streaming, Workers, Parallel

(* Workers are threads, the first one always takes part, and alone in a     *)
(* sequential run.                                                          *)
LEMMA WorkersAre ==
    ASSUME TypeInv
    PROVE  /\ Workers \subseteq Threads /\ 1 \in Workers /\ 1 \in Threads
           /\ Sequential => Workers = {1}
BY RunAssumption DEF TypeInv, Workers, Threads, Parallel

-----------------------------------------------------------------------------
(* Thread t goes on with its document at position p.                        *)
Moved(t, p, s) == work' = [work EXCEPT ![t] = [pc |-> p, doc |-> work[t].doc, steps |-> s]]

(* Thread t reported a step of its document.                                *)
Ended(t, c) ==
    LET s == Append(work[t].steps, c)
    IN /\ Moved(t, IF c # 0 /\ opts.fail_fast THEN "store" ELSE "step", s)
       /\ Hook(work[t].doc, Len(s))

(* Steps of a thread that report nothing: planning, a body that goes on     *)
(* to the artifact file, the last step.                                     *)
Silent(t, p) ==
    /\ Busy(t) /\ Moved(t, p, work[t].steps)
    /\ p \in {"step", "promote", "persist", "store"}
    /\ LET r == source[work[t].doc]
       IN /\ p # "store" => r.code = 0
          /\ p = "store" => r.code # 0 \/ Len(work[t].steps) = Len(r.steps)
          /\ p \in {"promote", "persist"} => HasBody(t) /\ Len(work[t].steps) < Len(r.steps)
    /\ UNCHANGED <<opts, jobs, source, main, slots, results, artifact, docs, events, lines,
                   streamError, exit>>

(* Steps of a thread that report a code: what the document answers, or a    *)
(* lost artifact.                                                           *)
Says(t, c) ==
    /\ Busy(t) /\ Ended(t, c)
    /\ LET r == source[work[t].doc]
       IN r.code = 0 /\ Len(work[t].steps) < Len(r.steps)
    /\ \/ ~HasBody(t) /\ c = Answer(t) /\ UNCHANGED artifact
       \/ HasBody(t) /\ artifact # None /\ c = 303 /\ UNCHANGED artifact
       \/ /\ HasBody(t) /\ artifact = None /\ c = Answer(t)
          /\ artifact' = <<work[t].doc, NextStep(t)>>
    /\ artifact' \in Places \cup {None}
    /\ UNCHANGED <<opts, jobs, source, main, slots, results, docs, exit>>

(* Planning reports nothing.                                                *)
LEMMA PlanIs ==
    ASSUME IInv, NEW t \in Threads, Plan(t)
    PROVE  \E p \in {"step", "store"} : Silent(t, p)
<1> DEFINE p == IF source[work[t].doc].code # 0 THEN "store" ELSE "step"
<1>1. Busy(t)
  BY DEF Plan, Busy
<1>2. Moved(t, p, work[t].steps)
  BY DEF Plan, Goto, Thread, Moved
<1>3. p = "step" => source[work[t].doc].code = 0
  OBVIOUS
<1>4. p = "store" => source[work[t].doc].code # 0
  OBVIOUS
<1>5. p \in {"step", "store"}
  OBVIOUS
<1> HIDE DEF p
<1> QED
  BY <1>1, <1>2, <1>3, <1>4, <1>5 DEF Silent, Plan

(* Neither does the end of the steps.                                       *)
LEMMA LastStepIs ==
    ASSUME IInv, NEW t \in Threads, LastStep(t)
    PROVE  Silent(t, "store")
<1>1. Busy(t)
  BY DEF LastStep, Busy
<1>2. Moved(t, "store", work[t].steps)
  BY DEF LastStep, Goto, Thread, Moved
<1> QED
  BY <1>1, <1>2 DEF Silent, LastStep

(* EndStep in the form the proofs use.                                      *)
LEMMA EndStepIs ==
    ASSUME NEW t \in Threads, NEW c, EndStep(t, c)
    PROVE  Ended(t, c)
BY DEF EndStep, Ended, Moved, Thread

(* The answer to the next step is a step code.                              *)
LEMMA AnswerType ==
    ASSUME IInv, NEW t \in Threads, Busy(t),
           Len(work[t].steps) < Len(source[work[t].doc].steps)
    PROVE  Answer(t) \in StepCodes
<1>1. work[t].doc \in Docs /\ work[t].steps \in Seq(Codes)
  BY DEF IInv, HandInv, TypeInv
<1>2. source[work[t].doc].steps \in Seq(StepCodes)
  BY <1>1, SourceType DEF IInv
<1>3. Len(work[t].steps) + 1 \in 1..Len(source[work[t].doc].steps)
  BY <1>1, <1>2
<1> QED
  BY <1>2, <1>3 DEF Answer, NextStep

(* A step is reported, or its body goes on to the artifact file.            *)
LEMMA RunStepIs ==
    ASSUME IInv, NEW t \in Threads, RunStep(t)
    PROVE  Silent(t, "promote") \/ \E c \in Codes : Says(t, c)
<1>1. Busy(t) /\ work[t].pc = "step" /\ Len(work[t].steps) < Len(source[work[t].doc].steps)
  BY DEF RunStep, Busy
<1>2. source[work[t].doc].code = 0
  BY <1>1 DEF IInv, AnswerInv
<1>3. CASE HasBody(t)
  <2>1. Moved(t, "promote", work[t].steps)
    BY <1>3 DEF RunStep, Goto, Thread, Moved
  <2> QED
    BY <1>1, <1>2, <1>3, <2>1 DEF Silent, RunStep
<1>4. CASE ~HasBody(t)
  <2>1. Ended(t, Answer(t))
    BY <1>4, EndStepIs DEF RunStep
  <2>2. Answer(t) \in Codes
    BY <1>1, AnswerType DEF Codes
  <2>3. artifact \in Places \cup {None}
    BY DEF IInv, TypeInv
  <2>4. UNCHANGED <<opts, jobs, source, main, slots, results, artifact, docs, exit>>
    BY DEF RunStep
  <2>5. Says(t, Answer(t))
    BY <1>1, <1>2, <1>4, <2>1, <2>3, <2>4 DEF Says
  <2> QED
    BY <2>2, <2>5
<1> QED
  BY <1>3, <1>4

(* promote_to_artifact reports a file that is there, or goes on.            *)
LEMMA PromoteIs ==
    ASSUME IInv, NEW t \in Threads, Promote(t)
    PROVE  Silent(t, "persist") \/ \E c \in Codes : Says(t, c)
<1>1. Busy(t) /\ work[t].pc = "promote"
  BY DEF Promote, Busy
<1>2. /\ source[work[t].doc].code = 0 /\ HasBody(t)
      /\ Len(work[t].steps) < Len(source[work[t].doc].steps)
  BY <1>1 DEF IInv, AnswerInv
<1>3. CASE artifact # None
  <2>1. Ended(t, 303)
    BY <1>3, EndStepIs DEF Promote
  <2>3. artifact \in Places \cup {None}
    BY DEF IInv, TypeInv
  <2>4. UNCHANGED <<opts, jobs, source, main, slots, results, artifact, docs, exit>>
    BY DEF Promote
  <2>5. Says(t, 303)
    BY <1>1, <1>2, <1>3, <2>1, <2>3, <2>4 DEF Says
  <2> QED
    BY <2>5 DEF Codes
<1>4. CASE artifact = None
  <2>1. Moved(t, "persist", work[t].steps)
    BY <1>4 DEF Promote, Goto, Thread, Moved
  <2>2. UNCHANGED <<opts, jobs, source, main, slots, results, artifact, docs, exit,
                    events, lines, streamError>>
    BY <1>4 DEF Promote
  <2> QED
    BY <1>1, <1>2, <2>1, <2>2 DEF Silent
<1> QED
  BY <1>3, <1>4

(* persist_noclobber reports either way, and takes a free file.             *)
LEMMA PersistIs ==
    ASSUME IInv, NEW t \in Threads, Persist(t)
    PROVE  \E c \in Codes : Says(t, c)
<1>1. Busy(t) /\ work[t].pc = "persist"
  BY DEF Persist, Busy
<1>2. /\ source[work[t].doc].code = 0 /\ HasBody(t)
      /\ Len(work[t].steps) < Len(source[work[t].doc].steps)
  BY <1>1 DEF IInv, AnswerInv
<1>3. UNCHANGED <<opts, jobs, source, main, slots, results, docs, exit>>
  BY DEF Persist
<1>4. CASE artifact # None
  <2>1. Ended(t, 303) /\ UNCHANGED artifact
    BY <1>4, EndStepIs DEF Persist
  <2>2. artifact \in Places \cup {None}
    BY DEF IInv, TypeInv
  <2>3. Says(t, 303)
    BY <1>1, <1>2, <1>3, <1>4, <2>1, <2>2 DEF Says
  <2> QED
    BY <2>3 DEF Codes
<1>5. CASE artifact = None
  <2>1. Ended(t, Answer(t)) /\ artifact' = <<work[t].doc, NextStep(t)>>
    BY <1>5, EndStepIs DEF Persist
  <2>2. <<work[t].doc, NextStep(t)>> \in Places
    <3>1. work[t].doc \in Docs /\ work[t].steps \in Seq(Codes)
      BY <1>1 DEF IInv, HandInv, TypeInv
    <3>2. Len(source[work[t].doc].steps) \in 0..MaxSteps
      BY <3>1, SourceType DEF IInv
    <3>3. NextStep(t) \in 1..MaxSteps
      BY <1>2, <3>1, <3>2, RunAssumption DEF NextStep
    <3> QED
      BY <3>1, <3>3 DEF Places
  <2>3. Says(t, Answer(t))
    BY <1>1, <1>2, <1>3, <1>5, <2>1, <2>2 DEF Says
  <2>4. Answer(t) \in Codes
    BY <1>1, <1>2, AnswerType DEF Codes
  <2> QED
    BY <2>3, <2>4
<1> QED
  BY <1>4, <1>5

(* The steps between taking and storing are silent or report one code.      *)
LEMMA Inners ==
    ASSUME IInv, NEW t \in Threads,
           Plan(t) \/ RunStep(t) \/ Promote(t) \/ Persist(t) \/ LastStep(t)
    PROVE  (\E p \in {"step", "promote", "persist", "store"} : Silent(t, p))
           \/ (\E c \in Codes : Says(t, c))
BY PlanIs, RunStepIs, PromoteIs, PersistIs, LastStepIs

(* What the steps of a thread between taking and storing have in common.    *)
Inner(t) ==
    /\ Busy(t) /\ Busy(t)' /\ work'[t].doc = work[t].doc
    /\ \A u \in Threads \ {t} : work'[u] = work[u]
    /\ UNCHANGED <<opts, jobs, source, main, slots, results, docs, exit>>

(* What moving one thread changes and keeps.                                *)
LEMMA MovedIs ==
    ASSUME TypeInv, NEW t \in Threads, Busy(t),
           NEW p \in {"step", "promote", "persist", "store"},
           NEW s \in Seq(Codes), Moved(t, p, s)
    PROVE  /\ work' \in [Threads -> Hands]
           /\ Busy(t)'
           /\ work'[t].doc = work[t].doc /\ work'[t].pc = p /\ work'[t].steps = s
           /\ \A u \in Threads \ {t} : work'[u] = work[u]
BY DEF TypeInv, Busy, Moved

(* A silent step is an inner step and keeps the types.                      *)
LEMMA SilentInner ==
    ASSUME IInv, NEW t \in Threads, NEW p, Silent(t, p)
    PROVE  /\ Inner(t) /\ TypeInv'
           /\ work'[t].pc = p /\ work'[t].steps = work[t].steps
<1>1. TypeInv /\ Busy(t) /\ Moved(t, p, work[t].steps)
      /\ p \in {"step", "promote", "persist", "store"}
  BY DEF Silent, IInv
<1>2. work[t].steps \in Seq(Codes)
  BY <1>1 DEF TypeInv
<1>3. UNCHANGED <<opts, jobs, source, main, slots, results, artifact, docs, streamError, exit>>
  BY DEF Silent
<1>4. Inner(t) /\ work'[t].pc = p /\ work'[t].steps = work[t].steps
  BY <1>1, <1>2, <1>3, MovedIs DEF Inner
<1>5. TypeInv'
  BY <1>1, <1>2, <1>3, MovedIs DEF TypeInv
<1> QED
  BY <1>4, <1>5

(* A reported step is an inner step and keeps the types.                    *)
LEMMA SaysInner ==
    ASSUME IInv, NEW t \in Threads, NEW c \in Codes, Says(t, c)
    PROVE  /\ Inner(t) /\ TypeInv'
           /\ work'[t].pc = IF c # 0 /\ opts.fail_fast THEN "store" ELSE "step"
           /\ work'[t].steps = Append(work[t].steps, c)
           /\ Hook(work[t].doc, Len(work[t].steps) + 1)
<1> DEFINE p == IF c # 0 /\ opts.fail_fast THEN "store" ELSE "step"
<1> DEFINE s == Append(work[t].steps, c)
<1>1. TypeInv /\ Busy(t) /\ Moved(t, p, s) /\ Hook(work[t].doc, Len(s))
  BY DEF Says, IInv, Ended
<1>2. work[t].steps \in Seq(Codes)
  BY <1>1 DEF TypeInv
<1>3. s \in Seq(Codes) /\ Len(s) = Len(work[t].steps) + 1
  BY <1>2, AppendProperties
<1>4. p \in {"step", "promote", "persist", "store"}
  OBVIOUS
<1>5. UNCHANGED <<opts, jobs, source, main, slots, results, docs, exit>>
      /\ artifact' \in Places \cup {None}
  BY DEF Says
<1>6. streamError' \in BOOLEAN
  BY <1>1 DEF Hook, TypeInv
<1> HIDE DEF p, s
<1>7. Inner(t) /\ work'[t].pc = p /\ work'[t].steps = s
  BY <1>1, <1>3, <1>4, <1>5, MovedIs DEF Inner
<1>8. TypeInv'
  BY <1>1, <1>3, <1>4, <1>5, <1>6, MovedIs DEF TypeInv
<1> QED
  BY <1>1, <1>3, <1>7, <1>8 DEF p, s

(* Inner steps leave the schedule's invariants alone: no document changes   *)
(* place.                                                                   *)
LEMMA InnerSchedule ==
    ASSUME IInv, NEW t \in Threads, Inner(t)
    PROVE  SlotInv' /\ HandInv' /\ DoneInv' /\ StopInv' /\ DocsInv'
<1>1. /\ Sequential' = Sequential /\ Streaming' = Streaming /\ Workers' = Workers
      /\ Taken' = Taken
  BY Frame DEF Inner, Taken
<1>2. \A u \in Threads : /\ Busy(u)' <=> Busy(u)
                         /\ work'[u].doc = work[u].doc
                         /\ work'[u].pc = "idle" <=> work[u].pc = "idle"
  BY DEF Inner, Busy
<1>3. UNCHANGED <<opts, main, slots, results, docs>>
  BY DEF Inner
<1>4. work[t].pc # "idle" /\ main = "running"
  BY DEF Inner, Busy, IInv, HandInv
<1>5. SlotInv'
  BY <1>1, <1>3, <1>4 DEF IInv, SlotInv
<1>6. HandInv'
  BY <1>1, <1>2, <1>3 DEF IInv, HandInv
<1>7. DoneInv'
  BY <1>1, <1>2, <1>3 DEF IInv, DoneInv
<1>8. Halted' <=> Halted
  BY <1>3 DEF Halted
<1>9. StopInv'
  BY <1>1, <1>2, <1>3, <1>8, WorkersAre DEF IInv, StopInv
<1>10. 1 \in Threads
  BY WorkersAre DEF IInv
<1>11. DocsInv'
  BY <1>1, <1>2, <1>3, <1>4, <1>10 DEF IInv, DocsInv
<1> QED
  BY <1>5, <1>6, <1>7, <1>9, <1>11

(* An inner step leaves the other threads and their documents alone.        *)
LEMMA InnerOthers ==
    ASSUME IInv, NEW t \in Threads, Inner(t), NEW u \in Threads, u # t, Busy(u)'
    PROVE  /\ Busy(u) /\ work'[u] = work[u] /\ work[u].doc \in Docs
           /\ work[u].doc # work[t].doc
           /\ HasBody(u)' <=> HasBody(u)
<1>1. work'[u] = work[u]
  BY DEF Inner
<1>2. Busy(u) /\ Busy(t)
  BY <1>1 DEF Busy, Inner
<1>3. source' = source
  BY DEF Inner
<1>4. HasBody(u)' <=> HasBody(u)
  BY <1>1, <1>3 DEF HasBody, NextStep
<1> QED
  BY <1>1, <1>2, <1>4 DEF IInv, HandInv

(* What was reported stays faithful when the file finds its owner.           *)
LEMMA FaithfulKept ==
    ASSUME IInv, UNCHANGED <<opts, source>>, artifact' = artifact \/ artifact = None,
           NEW d \in Docs, NEW s \in Seq(Codes), NEW whole \in BOOLEAN, Faithful(d, s, whole)
    PROVE  Told(source'[d], d, s, whole, artifact', opts'.fail_fast)
<1>1. opts.fail_fast \in BOOLEAN /\ Len(source[d].steps) \in 0..MaxSteps
  BY SourceType DEF IInv, TypeInv
<1>2. Told(source[d], d, s, whole, artifact, opts.fail_fast)
  BY DEF Faithful
<1>3. CASE artifact = None
  BY <1>1, <1>2, <1>3, ToldKept
<1>4. CASE artifact' = artifact
  BY <1>2, <1>4
<1> QED
  BY <1>3, <1>4

(* So do the results.                                                       *)
LEMMA ResultsKept ==
    ASSUME IInv, UNCHANGED <<opts, source, results>>, artifact' = artifact \/ artifact = None,
           NEW d \in Docs, results'[d] # None
    PROVE  results'[d].code = source'[d].code /\ Faithful(d, results[d].steps, TRUE)'
<1>1. results[d].code = source[d].code /\ Faithful(d, results[d].steps, TRUE)
  BY DEF IInv, AnswerInv
<1>2. results[d].steps \in Seq(Codes)
  <2>1. results[d] \in DocReports
    BY DEF IInv, TypeInv
  <2> QED
    BY <2>1, RunAssumption DEF DocReports, StepReports, Codes
<1>3. Told(source'[d], d, results[d].steps, TRUE, artifact', opts'.fail_fast)
  BY <1>1, <1>2, FaithfulKept
<1> QED
  BY <1>1, <1>3 DEF Faithful

(* And so do the steps in the hands of the other threads.                   *)
LEMMA OthersKept ==
    ASSUME IInv, NEW t \in Threads, Inner(t), artifact' = artifact \/ artifact = None,
           NEW u \in Threads, u # t, Busy(u)'
    PROVE  /\ Faithful(work[u].doc, work[u].steps, work[u].pc = "store")'
           /\ work'[u].pc \in {"step", "promote", "persist"} => source'[work'[u].doc].code = 0
           /\ work'[u].pc \in {"promote", "persist"} =>
                HasBody(u)' /\ Len(work'[u].steps) < Len(source'[work'[u].doc].steps)
<1>1. /\ Busy(u) /\ work'[u] = work[u] /\ (HasBody(u)' <=> HasBody(u)) /\ work[u].doc \in Docs
  BY InnerOthers
<1>2. UNCHANGED <<opts, source>>
  BY DEF Inner
<1>3. /\ Faithful(work[u].doc, work[u].steps, work[u].pc = "store")
      /\ work[u].pc \in {"step", "promote", "persist"} => source[work[u].doc].code = 0
      /\ work[u].pc \in {"promote", "persist"} =>
           HasBody(u) /\ Len(work[u].steps) < Len(source[work[u].doc].steps)
  BY <1>1 DEF IInv, AnswerInv
<1>4. work[u].steps \in Seq(Codes)
  BY DEF IInv, TypeInv
<1>5. Told(source'[work[u].doc], work[u].doc, work[u].steps, work[u].pc = "store", artifact',
           opts'.fail_fast)
  BY <1>1, <1>2, <1>3, <1>4, FaithfulKept
<1> QED
  BY <1>1, <1>2, <1>3, <1>5 DEF Faithful

(* A silent step keeps what is reported faithful, and its owner.            *)
LEMMA SilentAnswers ==
    ASSUME IInv, NEW t \in Threads, NEW p, Silent(t, p)
    PROVE  AnswerInv' /\ OwnerInv'
<1>1. /\ Inner(t) /\ work'[t].pc = p /\ work'[t].steps = work[t].steps
      /\ work'[t].doc = work[t].doc /\ Busy(t)
  BY SilentInner DEF Inner
<1>2. UNCHANGED <<opts, source, results, artifact, slots, jobs>>
  BY DEF Silent
<1>3. HasBody(t)' <=> HasBody(t)
  BY <1>1, <1>2 DEF HasBody, NextStep
<1>4. /\ p \in {"step", "promote", "persist", "store"}
      /\ p # "store" => source[work[t].doc].code = 0
      /\ p = "store" => \/ source[work[t].doc].code # 0
                        \/ Len(work[t].steps) = Len(source[work[t].doc].steps)
      /\ p \in {"promote", "persist"} =>
           HasBody(t) /\ Len(work[t].steps) < Len(source[work[t].doc].steps)
  BY DEF Silent
<1>5. Faithful(work[t].doc, work[t].steps, work[t].pc = "store")'
  <2>1. Faithful(work[t].doc, work[t].steps, work[t].pc = "store")
    BY <1>1 DEF IInv, AnswerInv
  <2> QED
    BY <1>1, <1>2, <1>4, <2>1 DEF Faithful, Told
<1>6. ASSUME NEW u \in Threads, Busy(u)'
      PROVE  /\ Faithful(work[u].doc, work[u].steps, work[u].pc = "store")'
             /\ work'[u].pc \in {"step", "promote", "persist"} => source'[work'[u].doc].code = 0
             /\ work'[u].pc \in {"promote", "persist"} =>
                  HasBody(u)' /\ Len(work'[u].steps) < Len(source'[work'[u].doc].steps)
  <2>1. CASE u = t
    BY <1>1, <1>2, <1>3, <1>4, <1>5, <2>1
  <2>2. CASE u # t
    BY <1>1, <1>2, <1>6, <2>2, OthersKept
  <2> QED
    BY <2>1, <2>2
<1>7. AnswerInv'
  BY <1>2, <1>6, ResultsKept DEF AnswerInv
<1>8. OwnerInv'
  <2>1. Taken' = Taken
    BY <1>2, Frame DEF Taken
  <2>2. ASSUME NEW u \in Threads, Busy(u)'
        PROVE  Busy(u) /\ work'[u].doc = work[u].doc /\ work'[u].steps = work[u].steps
    BY <1>1, <2>2, InnerOthers
  <2> QED
    BY <1>2, <2>1, <2>2 DEF IInv, OwnerInv
<1> QED
  BY <1>7, <1>8

(* A reported code is what the document answers, or a lost artifact.         *)
LEMMA SaysAnswers ==
    ASSUME IInv, NEW t \in Threads, NEW c \in Codes, Says(t, c)
    PROVE  AnswerInv'
<1>1. /\ Inner(t) /\ work'[t].steps = Append(work[t].steps, c)
      /\ work'[t].pc = IF c # 0 /\ opts.fail_fast THEN "store" ELSE "step"
      /\ work'[t].doc = work[t].doc /\ Busy(t)
  BY SaysInner DEF Inner
<1>2. UNCHANGED <<opts, source, results>> /\ (artifact' = artifact \/ artifact = None)
  BY DEF Says
<1>3. work[t].doc \in Docs /\ work[t].steps \in Seq(Codes)
  BY <1>1 DEF IInv, HandInv, TypeInv
<1>4. PICK d \in Docs, s \in Seq(Codes) : d = work[t].doc /\ s = work[t].steps
  BY <1>3
<1>5. /\ source[d].code = 0 /\ Len(s) < Len(source[d].steps)
      /\ Len(source[d].steps) \in 0..MaxSteps
  BY <1>4, SourceType DEF Says, IInv
<1>6. Told(source[d], d, s, FALSE, artifact, opts.fail_fast)
  <2>1. Faithful(d, s, work[t].pc = "store")
    BY <1>1, <1>4 DEF IInv, AnswerInv
  <2> QED
    BY <2>1 DEF Faithful, Told
<1>7. Len(s) \in Nat /\ Len(s) + 1 \in 1..MaxSteps
  BY <1>4, <1>5, LenProperties, RunAssumption
<1>8. \A i \in 1..(Len(s) + 1) : None # <<d, i>>
  <2> SUFFICES ASSUME NEW i \in 1..(Len(s) + 1) PROVE None # <<d, i>>
    OBVIOUS
  <2>1. <<d, i>> \in Places
    BY <1>7, RunAssumption DEF Places
  <2> QED
    BY <2>1, NoneAssumption
<1>9. \A i \in 1..Len(s) : i \in source[d].bodies /\ artifact # <<d, i>> => artifact # None
  BY <1>6 DEF Told
<1>10. artifact # <<d, Len(s) + 1>>
  <2> SUFFICES ASSUME artifact = <<d, Len(s) + 1>> PROVE FALSE
    OBVIOUS
  <2>1. artifact # None /\ artifact[1] = d /\ artifact[2] = Len(s) + 1
    BY <1>7, <1>8
  <2>2. artifact[2] <= Len(s)
    BY <1>1, <1>4, <2>1 DEF IInv, OwnerInv
  <2> QED
    BY <1>7, <2>1, <2>2
<1>11. /\ HasBody(t) <=> Len(s) + 1 \in source[d].bodies
       /\ Answer(t) = source[d].steps[Len(s) + 1]
  BY <1>4 DEF HasBody, Answer, NextStep
<1>12. \/ ~HasBody(t) /\ c = Answer(t) /\ artifact' = artifact
       \/ HasBody(t) /\ artifact # None /\ c = 303 /\ artifact' = artifact
       \/ HasBody(t) /\ artifact = None /\ c = Answer(t) /\ artifact' = <<d, Len(s) + 1>>
  BY <1>4 DEF Says, NextStep
<1>13. IF Len(s) + 1 \in source[d].bodies /\ artifact' # <<d, Len(s) + 1>>
         THEN c = 303 /\ artifact' # None ELSE c = source[d].steps[Len(s) + 1]
  BY <1>10, <1>11, <1>12
<1>14. ASSUME NEW i \in 1..Len(s), i \in source[d].bodies
       PROVE  /\ artifact # <<d, i>> => artifact' # <<d, i>> /\ artifact' # None
              /\ artifact = <<d, i>> => artifact' = <<d, i>>
  <2>1. artifact # None
    BY <1>7, <1>8, <1>9, <1>14
  <2> QED
    BY <1>12, <2>1
<1>15. Faithful(work[t].doc, work[t].steps, work[t].pc = "store")'
  <2>1. opts.fail_fast \in BOOLEAN
    BY DEF IInv, TypeInv
  <2>2. Len(source[d].steps) \in Nat
    BY <1>5, RunAssumption
  <2>3. /\ \A i \in 1..Len(s) : i \in source[d].bodies /\ artifact # <<d, i>> =>
             artifact' # <<d, i>> /\ artifact' # None
        /\ \A i \in 1..Len(s) : i \in source[d].bodies /\ artifact = <<d, i>> =>
             artifact' = <<d, i>>
    BY <1>14
  <2>4. /\ Told(source[d], d, Append(s, c), FALSE, artifact', opts.fail_fast)
        /\ opts.fail_fast /\ c # 0 =>
             Told(source[d], d, Append(s, c), TRUE, artifact', opts.fail_fast)
    BY <1>5, <1>6, <1>13, <2>1, <2>2, <2>3, ToldMore
  <2>5. CASE c # 0 /\ opts.fail_fast
    <3>1. work'[t].pc = "store"
      BY <1>1, <2>5
    <3> QED
      BY <1>1, <1>2, <1>4, <2>4, <2>5, <3>1 DEF Faithful
  <2>6. CASE ~(c # 0 /\ opts.fail_fast)
    <3>1. work'[t].pc = "step"
      BY <1>1, <2>6
    <3> QED
      BY <1>1, <1>2, <1>4, <2>4, <3>1 DEF Faithful
  <2> QED
    BY <2>5, <2>6
<1>16. ASSUME NEW u \in Threads, Busy(u)'
       PROVE  /\ Faithful(work[u].doc, work[u].steps, work[u].pc = "store")'
              /\ work'[u].pc \in {"step", "promote", "persist"} => source'[work'[u].doc].code = 0
              /\ work'[u].pc \in {"promote", "persist"} =>
                   HasBody(u)' /\ Len(work'[u].steps) < Len(source'[work'[u].doc].steps)
  <2>1. CASE u = t
    BY <1>1, <1>2, <1>4, <1>5, <1>15, <2>1
  <2>2. CASE u # t
    BY <1>1, <1>2, <1>16, <2>2, OthersKept
  <2> QED
    BY <2>1, <2>2
<1> QED
  BY <1>2, <1>16, ResultsKept DEF AnswerInv

(* The step that takes the file is the one reported; its owner's steps only  *)
(* grow.                                                                     *)
LEMMA SaysOwns ==
    ASSUME IInv, NEW t \in Threads, NEW c \in Codes, Says(t, c)
    PROVE  OwnerInv'
<1>1. /\ Inner(t) /\ work'[t].steps = Append(work[t].steps, c)
      /\ work'[t].doc = work[t].doc /\ Busy(t)
  BY SaysInner DEF Inner
<1>2. UNCHANGED <<opts, jobs, slots>>
  BY DEF Says
<1>3. Taken' = Taken
  BY <1>2, Frame DEF Taken
<1>4. work[t].doc \in Docs \cap Taken /\ work[t].steps \in Seq(Codes)
  BY <1>1 DEF IInv, HandInv, TypeInv
<1>5. Len(work[t].steps) \in Nat /\ Len(work'[t].steps) = Len(work[t].steps) + 1
  BY <1>1, <1>4, AppendProperties
<1>6. CASE artifact' = artifact
  <2> SUFFICES ASSUME artifact # None
               PROVE  /\ artifact[1] \in Taken
                      /\ \A u \in Threads : Busy(u)' /\ work'[u].doc = artifact[1] =>
                           artifact[2] <= Len(work'[u].steps)
    BY <1>3, <1>6 DEF OwnerInv
  <2>1. /\ artifact[1] \in Taken
        /\ \A u \in Threads : Busy(u) /\ work[u].doc = artifact[1] =>
             artifact[2] <= Len(work[u].steps)
    BY DEF IInv, OwnerInv
  <2>2. artifact[2] \in Nat
    BY RunAssumption DEF IInv, TypeInv, Places
  <2>3. ASSUME NEW u \in Threads, Busy(u)', work'[u].doc = artifact[1]
        PROVE  artifact[2] <= Len(work'[u].steps)
    <3>1. CASE u = t
      <4>1. artifact[2] <= Len(work[t].steps)
        BY <1>1, <2>1, <2>3, <3>1
      <4> QED
        BY <1>5, <2>2, <3>1, <4>1
    <3>2. CASE u # t
      <4>1. Busy(u) /\ work'[u] = work[u]
        BY <1>1, <2>3, <3>2, InnerOthers
      <4> QED
        BY <2>1, <2>3, <4>1
    <3> QED
      BY <3>1, <3>2
  <2> QED
    BY <2>1, <2>3
<1>7. CASE artifact' = <<work[t].doc, NextStep(t)>>
  <2>1. artifact'[1] = work[t].doc /\ artifact'[2] = Len(work[t].steps) + 1
    BY <1>7 DEF NextStep
  <2>2. ASSUME NEW u \in Threads, Busy(u)', work'[u].doc = artifact'[1]
        PROVE  u = t
    BY <1>1, <2>1, <2>2, InnerOthers
  <2>3. artifact'[2] <= Len(work'[t].steps)
    BY <1>5, <2>1
  <2> QED
    BY <1>3, <1>4, <2>1, <2>2, <2>3 DEF OwnerInv
<1> QED
  BY <1>6, <1>7 DEF Says

(* A prefix stays one when the longer sequence grows.                       *)
LEMMA PrefixAppend ==
    ASSUME NEW S, NEW s \in Seq(S), NEW r \in Seq(S), NEW x \in S, PrefixOf(s, r)
    PROVE  PrefixOf(s, Append(r, x))
<1>1. /\ Len(Append(r, x)) = Len(r) + 1 /\ Len(s) \in Nat /\ Len(r) \in Nat
      /\ \A i \in 1..Len(r) : Append(r, x)[i] = r[i]
  BY AppendProperties
<1> QED
  BY <1>1 DEF PrefixOf

(* A sequence is a prefix of itself.                                        *)
LEMMA PrefixSelf ==
    ASSUME NEW S, NEW s \in Seq(S)
    PROVE  PrefixOf(s, s)
BY LenProperties DEF PrefixOf

(* A silent step writes nothing.                                            *)
LEMMA SilentStream ==
    ASSUME IInv, NEW t \in Threads, NEW p, Silent(t, p)
    PROVE  StreamInv'
<1>1. Inner(t)
  BY SilentInner
<1>2. Streaming' = Streaming
  BY <1>1, Frame DEF Inner
<1>3. UNCHANGED <<main, events, lines, streamError, exit>>
  BY DEF Silent
<1>4. Busy(1) => Busy(1)'
  BY <1>1, WorkersAre DEF Inner, Busy, IInv
<1> QED
  BY <1>2, <1>3, <1>4 DEF IInv, StreamInv

(* The hook appends the same event to both, or loses the line and           *)
(* remembers.                                                               *)
LEMMA SaysStream ==
    ASSUME IInv, NEW t \in Threads, NEW c \in Codes, Says(t, c)
    PROVE  StreamInv'
<1> DEFINE n == Len(work[t].steps) + 1
<1> DEFINE e == StepEvent(work[t].doc, n)
<1>1. Inner(t) /\ Hook(work[t].doc, n) /\ Busy(t)
  BY SaysInner DEF Inner
<1>2. Streaming' = Streaming
  BY <1>1, Frame DEF Inner
<1>3. UNCHANGED <<main, exit>>
  BY DEF Says
<1>4. main = "running" /\ t \in Workers
  BY <1>1 DEF IInv, HandInv, Busy
<1>5. e \in Events
  <2>1. work[t].doc \in Docs /\ work[t].steps \in Seq(Codes)
    BY <1>1 DEF IInv, HandInv, TypeInv
  <2>2. Len(source[work[t].doc].steps) \in 0..MaxSteps
    BY <2>1, SourceType DEF IInv
  <2>3. Len(work[t].steps) < Len(source[work[t].doc].steps) /\ Len(work[t].steps) \in Nat
    BY <2>1 DEF Says
  <2>4. n \in 0..MaxSteps
    BY <2>2, <2>3, RunAssumption
  <2> HIDE DEF n
  <2> QED
    BY <2>1, <2>4 DEF StepEvent, Events
<1>6. CASE ~Streaming \/ streamError
  <2>1. UNCHANGED <<events, lines, streamError>>
    BY <1>1, <1>6 DEF Hook
  <2>2. Busy(1) => Busy(1)'
    BY <1>1, WorkersAre DEF Inner, Busy, IInv
  <2> QED
    BY <1>2, <1>3, <2>1, <2>2 DEF IInv, StreamInv
<1>7. CASE Streaming /\ ~streamError
  <2>1. /\ events \in Seq(Events) /\ lines = events
    BY <1>4, <1>7 DEF IInv, StreamInv
  <2>2. /\ events' = Append(events, e)
        /\ \/ lines' = Append(lines, e) /\ UNCHANGED streamError
           \/ streamError' = TRUE /\ UNCHANGED lines
    BY <1>1, <1>7 DEF Hook
  <2>3. events' \in Seq(Events) /\ lines' \in Seq(Events)
    BY <1>5, <2>1, <2>2
  <2>4. PrefixOf(lines', events')
    <3> HIDE DEF e
    <3>1. PrefixOf(events, events) /\ PrefixOf(events', events')
      BY <2>1, <2>3, PrefixSelf
    <3>2. PrefixOf(events, Append(events, e))
      BY <1>5, <2>1, <3>1, PrefixAppend
    <3> QED
      BY <2>1, <2>2, <3>1, <3>2
  <2>5. streamError' = FALSE => lines' = events'
    BY <1>7, <2>1, <2>2
  <2>6. Busy(1)'
    <3>1. t = 1
      BY <1>4, <1>7, WorkersAre DEF Streaming, IInv
    <3> QED
      BY <1>1, <3>1 DEF Inner
  <2>7. streamError' \in BOOLEAN
    BY SaysInner DEF TypeInv
  <2> QED
    BY <1>2, <1>3, <1>4, <1>7, <2>3, <2>4, <2>5, <2>6, <2>7 DEF StreamInv, PrefixOf
<1> QED
  BY <1>6, <1>7 DEF IInv, TypeInv

(* Inner steps preserve the invariant.                                      *)
LEMMA InnerStep ==
    ASSUME IInv, NEW t \in Threads,
           Plan(t) \/ RunStep(t) \/ Promote(t) \/ Persist(t) \/ LastStep(t)
    PROVE  IInv'
<1>1. CASE \E p \in {"step", "promote", "persist", "store"} : Silent(t, p)
  BY <1>1, SilentInner, SilentAnswers, SilentStream, InnerSchedule DEF IInv
<1>2. CASE \E c \in Codes : Says(t, c)
  BY <1>2, SaysInner, SaysAnswers, SaysOwns, SaysStream, InnerSchedule DEF IInv
<1> QED
  BY <1>1, <1>2, Inners

-----------------------------------------------------------------------------
(* Taking a document, from either end of the stack, preserves the           *)
(* invariant: it is in nobody's hands and has no result.                    *)
LEMMA TakeStep ==
    ASSUME IInv, NEW t \in Threads, Take(t)
    PROVE  IInv'
<1> DEFINE d == IF Sequential THEN Head(slots) ELSE Last(slots)
<1>1. /\ work[t].pc = "take" /\ slots # <<>> /\ slots \in Seq(Docs)
      /\ work' = [work EXCEPT ![t] = [pc |-> "plan", doc |-> d, steps |-> <<>>]]
      /\ slots' = IF Sequential THEN Tail(slots) ELSE Front(slots)
      /\ UNCHANGED <<opts, jobs, source, main, results, artifact, docs, events, lines,
                     streamError, exit>>
  BY DEF Take, Thread, IInv, TypeInv
<1>2. main = "running" /\ t \in Workers /\ 1 \in Workers /\ 1 \in Threads
      /\ (Sequential => t = 1 /\ Workers = {1})
  BY <1>1, WorkersAre DEF IInv, HandInv
<1>3. /\ Sequential' = Sequential /\ Streaming' = Streaming /\ Workers' = Workers
  BY <1>1, Frame
<1> DEFINE n == Len(slots)
<1>4. n \in 1..Count
  BY <1>1, RunAssumption DEF IInv, SlotInv
<1>5. /\ slots' \in Seq(Docs) /\ Len(slots') = n - 1
      /\ \A i \in 1..(n - 1) : slots'[i] = IF Sequential THEN slots[i + 1] ELSE slots[i]
  <2>1. CASE Sequential
    BY <1>1, <1>4, <2>1, HeadTailProperties
  <2>2. CASE ~Sequential
    <3>1. slots' = SubSeq(slots, 1, n - 1)
      BY <1>1, <2>2 DEF Front
    <3>2. \A i \in 1..(n - 1) : slots[i] \in Docs
      BY <1>1, <1>4
    <3>3. 1 \in Int /\ n - 1 \in Int /\ n - 1 - 1 + 1 = n - 1 /\ n - 1 >= 0
      BY <1>4, RunAssumption
    <3> HIDE DEF n
    <3>4. /\ SubSeq(slots, 1, n - 1) \in Seq(Docs)
          /\ Len(SubSeq(slots, 1, n - 1)) = IF 1 <= n - 1 THEN n - 1 - 1 + 1 ELSE 0
          /\ \A i \in 1..(n - 1 - 1 + 1) : SubSeq(slots, 1, n - 1)[i] = slots[1 + i - 1]
      BY <3>2, <3>3, SubSeqProperties
    <3>5. \A i \in 1..(n - 1) : 1 + i - 1 = i
      BY <3>3
    <3> QED
      BY <2>2, <3>1, <3>3, <3>4, <3>5
  <2> QED
    BY <2>1, <2>2
<1>6. d = IF Sequential THEN Count - n + 1 ELSE n
  BY <1>1, <1>4, RunAssumption DEF IInv, SlotInv, Last
<1>7. d \in Docs
  BY <1>4, <1>6, RunAssumption DEF Docs
<1>8. Taken' = Taken \cup {d} /\ d \notin Taken
  BY <1>3, <1>4, <1>5, <1>6, RunAssumption DEF Taken
<1> HIDE DEF d
<1>9. /\ work' \in [Threads -> Hands]
      /\ Busy(t)' /\ ~Busy(t)
      /\ work'[t].doc = d /\ work'[t].pc = "plan" /\ work'[t].steps = <<>>
      /\ \A u \in Threads \ {t} : work'[u] = work[u]
  <2>1. d \in 0..Count /\ <<>> \in Seq(Codes)
    BY <1>7, RunAssumption DEF Docs
  <2> QED
    BY <1>1, <2>1 DEF IInv, TypeInv, Busy
<1>10. \A u \in Threads \ {t} : (Busy(u)' <=> Busy(u)) /\ work'[u].doc = work[u].doc
  BY <1>9 DEF Busy
<1>11. results[d] = None /\ \A u \in Threads : Busy(u) => work[u].doc # d
  BY <1>2, <1>7, <1>8 DEF IInv, DoneInv
<1>12. TypeInv'
  BY <1>1, <1>5, <1>9 DEF IInv, TypeInv
<1>13. SlotInv'
  <2>1. \A i \in 1..n : slots[i] = IF Sequential THEN Count - n + i ELSE i
    BY DEF IInv, SlotInv
  <2>2. \A i \in 1..(n - 1) : slots'[i] = IF Sequential THEN Count - (n - 1) + i ELSE i
    BY <1>4, <1>5, <2>1, RunAssumption
  <2> QED
    <3>1. Len(slots') <= Count /\ main' # "start"
      BY <1>1, <1>2, <1>4, <1>5, RunAssumption
    <3>2. \A i \in 1..Len(slots') :
             slots'[i] = IF Sequential' THEN Count - Len(slots') + i ELSE i
      BY <1>3, <1>5, <2>2
    <3> QED
      BY <3>1, <3>2 DEF SlotInv
<1>14. HandInv'
  <2>1. \A u \in Threads : work'[u].pc # "idle" => main' = "running" /\ u \in Workers'
    BY <1>1, <1>2, <1>3, <1>9 DEF IInv, HandInv
  <2>2. ASSUME NEW u \in Threads, Busy(u)'
        PROVE  /\ work'[u].doc \in Docs \cap Taken'
               /\ results'[work'[u].doc] = None
               /\ Sequential => work'[u].doc = Count - Len(slots')
    <3>1. CASE u = t
      BY <1>1, <1>4, <1>5, <1>6, <1>7, <1>8, <1>9, <1>11, <3>1, RunAssumption
    <3>2. CASE u # t
      <4>1. Busy(u) /\ work'[u].doc = work[u].doc
        BY <1>10, <2>2, <3>2
      <4>2. ~Sequential
        BY <1>2, <3>2, <4>1 DEF IInv, HandInv, Busy
      <4> QED
        BY <1>1, <1>8, <4>1, <4>2 DEF IInv, HandInv
    <3> QED
      BY <3>1, <3>2
  <2>3. ASSUME NEW u \in Threads, NEW v \in Threads, Busy(u)', Busy(v)',
               work'[u].doc = work'[v].doc
        PROVE  u = v
    BY <1>9, <1>10, <1>11, <2>3 DEF IInv, HandInv
  <2> QED
    BY <1>3, <2>1, <2>2, <2>3 DEF HandInv
<1>15. DoneInv'
  <2>1. ASSUME NEW x \in Docs
        PROVE  x \in Taken' <=> \/ results[x] # None
                                \/ \E u \in Threads : Busy(u)' /\ work'[u].doc = x
    <3>1. x \in Taken <=> \/ results[x] # None
                          \/ \E u \in Threads : Busy(u) /\ work[u].doc = x
      BY <1>2 DEF IInv, DoneInv
    <3>2. (\E u \in Threads : Busy(u)' /\ work'[u].doc = x)
          <=> x = d \/ \E u \in Threads : Busy(u) /\ work[u].doc = x
      BY <1>9, <1>10
    <3> QED
      BY <1>8, <3>1, <3>2
  <2> QED
    BY <1>1, <2>1 DEF DoneInv
<1>16. StopInv'
  <2>1. ASSUME NEW u \in Workers, work'[u].pc = "idle"
        PROVE  FALSE
    <3>1. u # t /\ u \in Threads /\ work[u].pc = "idle"
      BY <1>9, <2>1, WorkersAre DEF IInv
    <3>2. Halted /\ ~Sequential
      BY <1>1, <1>2, <2>1, <3>1 DEF IInv, StopInv
    <3> QED
      BY <3>2 DEF Halted, Sequential
  <2> QED
    BY <1>3, <2>1 DEF StopInv
<1>17. DocsInv'
  <2>1. Streaming => /\ DOMAIN docs = 1..(Count - n)
                     /\ docs = [x \in DOMAIN docs |-> results[x]]
    BY <1>2, <1>9 DEF IInv, DocsInv, Streaming
  <2>2. Streaming => Busy(1)'
    BY <1>2, <1>9 DEF Streaming
  <2>3. Count - n = Count - Len(slots') - 1
    BY <1>4, <1>5, RunAssumption
  <2> QED
    BY <1>1, <1>2, <1>3, <2>1, <2>2, <2>3 DEF DocsInv
<1>18. AnswerInv'
  <2>1. ASSUME NEW u \in Threads, Busy(u)'
        PROVE  /\ Faithful(work[u].doc, work[u].steps, work[u].pc = "store")'
               /\ work'[u].pc \in {"step", "promote", "persist"} => source'[work'[u].doc].code = 0
               /\ work'[u].pc \in {"promote", "persist"} =>
                    HasBody(u)' /\ Len(work'[u].steps) < Len(source'[work'[u].doc].steps)
    <3>1. CASE u = t
      <4>1. Len(source[d].steps) \in 0..MaxSteps
        BY <1>7, SourceType DEF IInv
      <4>2. Told(source[d], d, <<>>, FALSE, artifact, opts.fail_fast)
        BY <4>1, RunAssumption DEF Told
      <4> QED
        BY <1>1, <1>9, <3>1, <4>2 DEF Faithful
    <3>2. CASE u # t
      <4>1. Busy(u) /\ work'[u] = work[u]
        BY <1>9, <1>10, <2>1, <3>2
      <4> QED
        BY <1>1, <4>1 DEF IInv, AnswerInv, Faithful, HasBody, NextStep
    <3> QED
      BY <3>1, <3>2
  <2> QED
    BY <1>1, <2>1, ResultsKept DEF AnswerInv
<1>19. OwnerInv'
  <2> SUFFICES ASSUME artifact # None
               PROVE  /\ artifact[1] \in Taken'
                      /\ \A u \in Threads : Busy(u)' /\ work'[u].doc = artifact[1] =>
                           artifact[2] <= Len(work'[u].steps)
    BY <1>1 DEF OwnerInv
  <2>1. /\ artifact[1] \in Taken
        /\ \A u \in Threads : Busy(u) /\ work[u].doc = artifact[1] =>
             artifact[2] <= Len(work[u].steps)
    BY DEF IInv, OwnerInv
  <2>2. artifact[1] # d
    BY <1>8, <2>1
  <2> QED
    BY <1>8, <1>9, <1>10, <2>1, <2>2
<1>20. StreamInv'
  <2>1. ~streamError
    BY <1>2, <1>9 DEF IInv, StreamInv, Streaming
  <2> QED
    BY <1>1, <1>3, <2>1 DEF IInv, StreamInv
<1> QED
  BY <1>12, <1>13, <1>14, <1>15, <1>16, <1>17, <1>18, <1>19, <1>20 DEF IInv

-----------------------------------------------------------------------------
(* What Store and StreamDocument have in common.                            *)
Stored(t) ==
    /\ work[t].pc = "store"
    /\ results' = [results EXCEPT ![work[t].doc] = Report(t)]
    /\ \/ Thread(t, Ready) /\ UNCHANGED main
       \/ Thread(t, Idle) /\ UNCHANGED main /\ Stops(Report(t))
       \/ Thread(t, Idle) /\ main' = "aborted" /\ Streaming
    /\ UNCHANGED <<opts, jobs, source, slots, artifact, streamError>>

(* What storing a result changes and keeps; the slot was free.              *)
LEMMA StoredFacts ==
    ASSUME IInv, NEW t \in Threads, Stored(t)
    PROVE  /\ Busy(t) /\ work[t].doc \in Docs /\ results[work[t].doc] = None
           /\ main = "running" /\ t \in Workers
           /\ Sequential => t = 1 /\ work[t].doc = Count - Len(slots)
           /\ Report(t) \in DocReports /\ Report(t) # None
           /\ Report(t).steps = work[t].steps
           /\ Report(t).code = source[work[t].doc].code
           /\ results'[work[t].doc] = Report(t)
           /\ \A d \in Docs \ {work[t].doc} : results'[d] = results[d]
           /\ work'[t].pc \in {"idle", "take"} /\ ~Busy(t)'
           /\ \A u \in Threads \ {t} : /\ work'[u] = work[u] /\ (Busy(u)' <=> Busy(u))
                                       /\ HasBody(u)' <=> HasBody(u)
           /\ Sequential' = Sequential /\ Streaming' = Streaming /\ Workers' = Workers
           /\ Taken' = Taken
<1>1. Busy(t) /\ work[t].pc = "store"
  BY DEF Stored, Busy
<1>2. /\ work[t].doc \in Docs /\ results[work[t].doc] = None /\ main = "running"
      /\ t \in Workers /\ (Sequential => work[t].doc = Count - Len(slots))
  BY <1>1 DEF IInv, HandInv
<1>3. Sequential => t = 1
  BY <1>2, WorkersAre DEF IInv
<1>4. Report(t).steps = work[t].steps /\ Report(t).code = source[work[t].doc].code
  BY DEF Report
<1>5. Report(t) \in DocReports
  <2>1. work[t].steps \in Seq(Codes)
    BY DEF IInv, TypeInv
  <2>2. /\ source[work[t].doc].code \in PlanCodes
        /\ Len(source[work[t].doc].steps) \in 0..MaxSteps
    BY <1>2, SourceType DEF IInv
  <2>3. Len(work[t].steps) <= Len(source[work[t].doc].steps) /\ Len(work[t].steps) \in Nat
    BY <1>1, <2>1 DEF IInv, AnswerInv, Faithful, Told
  <2>4. Len(work[t].steps) <= MaxSteps
    BY <2>2, <2>3, RunAssumption
  <2>5. work[t].steps \in StepReports
    BY <2>1, <2>4, StepReportsAre
  <2> QED
    BY <2>2, <2>5 DEF Report, DocReports
<1>6. Report(t) # None
  BY <1>5, NoneAssumption
<1>7. results'[work[t].doc] = Report(t) /\ \A d \in Docs \ {work[t].doc} : results'[d] = results[d]
  BY <1>2 DEF Stored, IInv, TypeInv
<1>8. work'[t] \in {Idle, Ready} /\ \A u \in Threads \ {t} : work'[u] = work[u]
  BY DEF Stored, Thread, IInv, TypeInv
<1>9. work'[t].pc \in {"idle", "take"} /\ ~Busy(t)'
  BY <1>8 DEF Idle, Ready, Busy
<1>10. source' = source
  BY DEF Stored
<1>11. \A u \in Threads \ {t} : (Busy(u)' <=> Busy(u)) /\ (HasBody(u)' <=> HasBody(u))
  BY <1>8, <1>10 DEF Busy, HasBody, NextStep
<1>12. Sequential' = Sequential /\ Streaming' = Streaming /\ Workers' = Workers
  BY Frame DEF Stored
<1>13. Taken' = Taken
  BY <1>12 DEF Taken, Stored
<1> QED
  BY <1>1, <1>2, <1>3, <1>4, <1>5, <1>6, <1>7, <1>8, <1>9, <1>11, <1>12, <1>13

(* Storing moves the document from the thread's hands to the results; a     *)
(* thread that stops does so at the last document taken.                    *)
LEMMA StoredSchedule ==
    ASSUME IInv, NEW t \in Threads, Stored(t)
    PROVE  TypeInv' /\ SlotInv' /\ HandInv' /\ DoneInv' /\ StopInv'
<1>1. UNCHANGED <<opts, jobs, source, slots, artifact, streamError>>
  BY DEF Stored
<1>2. main' = "running" \/ (main' = "aborted" /\ work' = [work EXCEPT ![t] = Idle] /\ Sequential)
  BY StoredFacts DEF Stored, Thread, Streaming
<1>3. TypeInv'
  <2>1. results' \in [Docs -> DocReports \cup {None}]
    BY StoredFacts DEF IInv, TypeInv, Stored
  <2>2. <<>> \in Seq(Codes) /\ 0 \in 0..Count
    BY RunAssumption
  <2>3. Idle \in Hands
    BY <2>2 DEF Idle
  <2>4. Ready \in Hands
    BY <2>2 DEF Ready
  <2>5. work' \in [Threads -> Hands]
    BY <2>3, <2>4 DEF IInv, TypeInv, Stored, Thread
  <2> QED
    BY <1>1, <1>2, <2>1, <2>5 DEF IInv, TypeInv
<1>4. SlotInv'
  BY <1>1, <1>2, StoredFacts DEF IInv, SlotInv
<1>5. HandInv'
  <2>1. ASSUME NEW u \in Threads, work'[u].pc # "idle"
        PROVE  main' = "running" /\ u \in Workers'
    <3>1. u \in Workers'
      BY <2>1, StoredFacts DEF IInv, HandInv
    <3>2. CASE main' = "aborted"
      <4>1. u # t
        BY <1>2, <2>1, <3>2 DEF Idle, IInv, TypeInv
      <4>2. Workers = {1} /\ t = 1
        BY <1>2, <3>2, StoredFacts, WorkersAre DEF IInv
      <4> QED
        BY <3>1, <4>1, <4>2, StoredFacts
    <3> QED
      BY <1>2, <3>1, <3>2
  <2>2. ASSUME NEW u \in Threads, Busy(u)'
        PROVE  /\ work'[u].doc \in Docs \cap Taken'
               /\ results'[work'[u].doc] = None
               /\ Sequential => work'[u].doc = Count - Len(slots')
    <3>1. u # t /\ Busy(u) /\ work'[u] = work[u]
      BY <2>2, StoredFacts
    <3>2. work[u].doc # work[t].doc
      BY <3>1, StoredFacts DEF IInv, HandInv
    <3> QED
      BY <1>1, <3>1, <3>2, StoredFacts DEF IInv, HandInv
  <2>3. ASSUME NEW u \in Threads, NEW v \in Threads, Busy(u)', Busy(v)',
               work'[u].doc = work'[v].doc
        PROVE  u = v
    BY <2>3, StoredFacts DEF IInv, HandInv
  <2> QED
    BY <2>1, <2>2, <2>3, StoredFacts DEF HandInv
<1>6. DoneInv'
  <2>1. ASSUME NEW x \in Docs
        PROVE  x \in Taken' <=> \/ results'[x] # None
                                \/ \E u \in Threads : Busy(u)' /\ work'[u].doc = x
    <3>1. x \in Taken <=> \/ results[x] # None
                          \/ \E u \in Threads : Busy(u) /\ work[u].doc = x
      BY StoredFacts DEF IInv, DoneInv
    <3>2. CASE x = work[t].doc
      BY <3>1, <3>2, StoredFacts
    <3>3. CASE x # work[t].doc
      <4>1. (\E u \in Threads : Busy(u)' /\ work'[u].doc = x)
            <=> \E u \in Threads : Busy(u) /\ work[u].doc = x
        BY <3>3, StoredFacts
      <4> QED
        BY <3>1, <3>3, <4>1, StoredFacts
    <3> QED
      BY <3>2, <3>3
  <2> QED
    BY <2>1 DEF DoneInv
<1>7. StopInv'
  <2>1. ASSUME NEW u \in Workers, work'[u].pc = "idle", main' = "running"
        PROVE  slots' = <<>> \/ Halted'
    <3>1. u \in Threads
      BY WorkersAre DEF IInv
    <3>2. CASE u = t
      <4>1. work'[t].pc # "take"
        BY <2>1, <3>2
      <4>2. Stops(Report(t))
        BY <2>1, <4>1 DEF Stored, Thread, Ready, IInv, TypeInv
      <4>3. opts.fail_fast /\ FailedReport(Report(t))
        BY <4>2 DEF Stops
      <4>4. work[t].doc = Count - Len(slots)
        BY <4>3, StoredFacts DEF Sequential
      <4>5. Len(slots) < Count
        <5>1. Len(slots) \in Nat /\ work[t].doc \in 1..Count
          BY StoredFacts DEF IInv, TypeInv, Docs
        <5> QED
          BY <4>4, <5>1, RunAssumption
      <4> QED
        BY <1>1, <4>3, <4>4, <4>5, StoredFacts DEF Halted
    <3>3. CASE u # t
      <4>1. work[u].pc = "idle" /\ ~Sequential
        BY <2>1, <3>1, <3>3, StoredFacts, WorkersAre DEF IInv
      <4>2. slots = <<>> \/ Halted
        BY <2>1, <4>1, StoredFacts DEF IInv, StopInv
      <4> QED
        BY <1>1, <4>1, <4>2 DEF Halted, Sequential
    <3> QED
      BY <3>2, <3>3
  <2> QED
    BY <2>1, StoredFacts DEF StopInv
<1> QED
  BY <1>3, <1>4, <1>5, <1>6, <1>7

(* A stored result is as faithful as the steps it was made of.              *)
LEMMA StoredAnswers ==
    ASSUME IInv, NEW t \in Threads, Stored(t)
    PROVE  AnswerInv' /\ OwnerInv'
<1>1. UNCHANGED <<opts, jobs, source, artifact, slots>>
  BY DEF Stored
<1>2. ASSUME NEW u \in Threads, Busy(u)'
      PROVE  /\ Faithful(work[u].doc, work[u].steps, work[u].pc = "store")'
             /\ work'[u].pc \in {"step", "promote", "persist"} => source'[work'[u].doc].code = 0
             /\ work'[u].pc \in {"promote", "persist"} =>
                  HasBody(u)' /\ Len(work'[u].steps) < Len(source'[work'[u].doc].steps)
  <2>1. Busy(u) /\ work'[u] = work[u] /\ (HasBody(u)' <=> HasBody(u))
    BY <1>2, StoredFacts
  <2>2. /\ Faithful(work[u].doc, work[u].steps, work[u].pc = "store")
        /\ work[u].pc \in {"step", "promote", "persist"} => source[work[u].doc].code = 0
        /\ work[u].pc \in {"promote", "persist"} =>
             HasBody(u) /\ Len(work[u].steps) < Len(source[work[u].doc].steps)
    BY <2>1 DEF IInv, AnswerInv
  <2> QED
    BY <1>1, <2>1, <2>2 DEF Faithful
<1>3. ASSUME NEW d \in Docs, results'[d] # None
      PROVE  results'[d].code = source'[d].code /\ Faithful(d, results[d].steps, TRUE)'
  <2>1. CASE d = work[t].doc
    <3>1. Faithful(work[t].doc, work[t].steps, TRUE)
      BY StoredFacts DEF IInv, AnswerInv, Stored
    <3>2. results'[d].steps = work[t].steps /\ results'[d].code = source[d].code
      BY <2>1, StoredFacts
    <3> QED
      BY <1>1, <2>1, <3>1, <3>2 DEF Faithful
  <2>2. CASE d # work[t].doc
    <3>1. results'[d] = results[d]
      BY <2>2, StoredFacts
    <3> QED
      BY <1>1, <1>3, <3>1 DEF IInv, AnswerInv, Faithful
  <2> QED
    BY <2>1, <2>2
<1>4. OwnerInv'
  <2>1. Taken' = Taken /\ \A u \in Threads : Busy(u)' => Busy(u) /\ work'[u] = work[u]
    BY StoredFacts
  <2> QED
    BY <1>1, <2>1 DEF IInv, OwnerInv
<1> QED
  BY <1>2, <1>3, <1>4 DEF AnswerInv

(* Storing a result preserves the invariant.                                *)
LEMMA StoreStep ==
    ASSUME IInv, NEW t \in Threads, Store(t)
    PROVE  IInv'
<1>1. Stored(t) /\ ~Streaming /\ UNCHANGED <<main, docs, events, lines, streamError, exit>>
  BY DEF Store, Stored
<1>2. DocsInv'
  BY <1>1, StoredFacts DEF DocsInv
<1>3. StreamInv'
  BY <1>1, StoredFacts DEF IInv, StreamInv
<1> QED
  BY <1>1, <1>2, <1>3, StoredSchedule, StoredAnswers DEF IInv

(* Ending a streamed document preserves the invariant, on all three         *)
(* paths.                                                                   *)
LEMMA StreamDocumentStep ==
    ASSUME IInv, NEW t \in Threads, StreamDocument(t)
    PROVE  IInv'
<1>1. Streaming /\ work[t].pc = "store" /\ UNCHANGED streamError
  BY DEF StreamDocument
<1> DEFINE e == DocEvent(work[t].doc)
<1>2. CASE streamError
  <2>1. /\ exit' = 4 /\ main' = "aborted" /\ Thread(t, Idle)
        /\ UNCHANGED <<docs, events, lines>>
    BY <1>2 DEF StreamDocument
  <2>2. Stored(t)
    BY <1>1, <2>1 DEF StreamDocument, Stored
  <2>3. DocsInv'
    BY <2>1 DEF DocsInv
  <2>4. StreamInv'
    BY <1>1, <2>1, <2>2, StoredFacts DEF IInv, StreamInv
  <2> QED
    BY <2>2, <2>3, <2>4, StoredSchedule, StoredAnswers DEF IInv
<1>3. CASE ~streamError /\ main' = "aborted"
  <2>1. /\ events' = Append(events, e) /\ exit' = 4 /\ Thread(t, Idle)
        /\ UNCHANGED lines /\ main = "running"
    BY <1>3 DEF StreamDocument, IInv, HandInv
  <2>2. Stored(t)
    BY <1>1, <1>3, <2>1 DEF StreamDocument, Stored
  <2>3. DocsInv'
    BY <1>3 DEF DocsInv
  <2>4. e \in Events
    BY <2>2, StoredFacts, RunAssumption DEF DocEvent, Events
  <2>5. events \in Seq(Events) /\ lines = events
    BY <1>1, <1>3, <2>1 DEF IInv, StreamInv
  <2> HIDE DEF e
  <2>6. PrefixOf(lines', events') /\ events' \in Seq(Events) /\ lines' \in Seq(Events)
    BY <2>1, <2>4, <2>5, PrefixSelf, PrefixAppend, AppendProperties
  <2>7. StreamInv'
    BY <1>1, <1>3, <2>1, <2>2, <2>6, StoredFacts DEF IInv, StreamInv, PrefixOf
  <2> QED
    BY <2>2, <2>3, <2>7, StoredSchedule, StoredAnswers DEF IInv
<1>4. CASE ~streamError /\ main' # "aborted"
  <2>1. /\ events' = Append(events, e) /\ lines' = Append(lines, e)
        /\ docs' = Append(docs, Report(t))
        /\ Thread(t, IF Stops(Report(t)) THEN Idle ELSE Ready)
        /\ UNCHANGED <<main, exit>>
    BY <1>4 DEF StreamDocument
  <2>2. Stored(t)
    BY <1>1, <2>1 DEF StreamDocument, Stored
  <2>3. e \in Events /\ main = "running" /\ t = 1 /\ ~Busy(1)'
    <3>1. Sequential
      BY <1>1 DEF Streaming
    <3>2. main = "running" /\ t = 1 /\ ~Busy(1)' /\ work[t].doc \in Docs
      BY <2>2, <3>1, StoredFacts
    <3> QED
      BY <3>2, RunAssumption DEF DocEvent, Events
  <2>4. events \in Seq(Events) /\ lines = events
    BY <1>1, <1>4, <2>3 DEF IInv, StreamInv
  <2> HIDE DEF e
  <2>5. PrefixOf(lines', events') /\ events' \in Seq(Events) /\ lines' = events'
    BY <2>1, <2>3, <2>4, PrefixSelf, AppendProperties
  <2>6. StreamInv'
    BY <1>1, <1>4, <2>1, <2>2, <2>3, <2>5, StoredFacts DEF IInv, StreamInv, PrefixOf
  <2>7. DocsInv'
    <3> DEFINE n == Count - Len(slots) - 1
    <3>1. DOMAIN docs = 1..n /\ docs = [d \in DOMAIN docs |-> results[d]]
      BY <1>1, <2>2, <2>3, StoredFacts DEF IInv, DocsInv
    <3>2. work[t].doc = n + 1 /\ n \in Nat /\ n + 1 = Count - Len(slots') /\ n + 1 \in 1..Count
      <4>1. Len(slots) \in Nat /\ work[t].doc \in 1..Count /\ work[t].doc = Count - Len(slots)
        <5>1. Sequential
          BY <1>1 DEF Streaming
        <5>2. work[t].doc \in Docs /\ work[t].doc = Count - Len(slots)
          BY <2>2, <5>1, StoredFacts
        <5> QED
          BY <5>2 DEF Docs, IInv, TypeInv
      <4>2. slots' = slots
        BY <2>2 DEF Stored
      <4> QED
        BY <4>1, <4>2, RunAssumption
    <3> HIDE DEF n
    <3>3. docs = [d \in 1..n |-> results[d]]
      BY <3>1
    <3>4. \A d \in 1..n : results[d] \in DocReports \cup {None}
      BY <3>2, RunAssumption DEF IInv, TypeInv, Docs
    <3>5. docs \in Seq(DocReports \cup {None}) /\ Len(docs) = n
      BY <3>2, <3>3, <3>4
    <3>6. /\ docs' \in Seq(DocReports \cup {None}) /\ Len(docs') = n + 1
          /\ \A d \in 1..n : docs'[d] = docs[d]
          /\ docs'[n + 1] = Report(t)
      BY <2>1, <2>2, <3>5, StoredFacts, AppendProperties
    <3>7. DOMAIN docs' = 1..(n + 1)
      BY <3>6
    <3>8. \A d \in 1..(n + 1) : docs'[d] = results'[d]
      <4>1. ASSUME NEW d \in 1..n
            PROVE  results'[d] = results[d]
        BY <2>2, <3>2, StoredFacts, RunAssumption DEF Docs
      <4>2. \A d \in 1..(n + 1) : d \in 1..n \/ d = n + 1
        BY <3>2
      <4> QED
        BY <2>2, <3>2, <3>3, <3>6, <4>1, <4>2, StoredFacts
    <3>9. docs' = [d \in 1..(n + 1) |-> results'[d]]
      BY <3>6, <3>7, <3>8
    <3> QED
      BY <2>1, <2>3, <3>2, <3>7, <3>9 DEF DocsInv
  <2> QED
    BY <2>2, <2>6, <2>7, StoredSchedule, StoredAnswers DEF IInv
<1> QED
  BY <1>2, <1>3, <1>4 DEF IInv, TypeInv

-----------------------------------------------------------------------------
(* Leaving the pool preserves the invariant: the stack is empty.            *)
LEMMA NoMoreSlotsStep ==
    ASSUME IInv, NEW t \in Threads, NoMoreSlots(t)
    PROVE  IInv'
<1>1. /\ work[t].pc = "take" /\ slots = <<>> /\ work' = [work EXCEPT ![t] = Idle]
      /\ UNCHANGED <<opts, jobs, source, main, slots, results, artifact, docs, events, lines,
                     streamError, exit>>
  BY DEF NoMoreSlots, Thread
<1>2. main = "running" /\ t \in Workers
  BY <1>1 DEF IInv, HandInv
<1>3. /\ Sequential' = Sequential /\ Streaming' = Streaming /\ Workers' = Workers
      /\ Taken' = Taken
  BY <1>1, Frame DEF Taken
<1>4. work'[t] = Idle /\ \A u \in Threads \ {t} : work'[u] = work[u]
  BY <1>1 DEF IInv, TypeInv
<1>5. \A u \in Threads : (Busy(u)' <=> Busy(u)) /\ (Busy(u) => work'[u] = work[u])
  BY <1>1, <1>4 DEF Busy, Idle
<1>6. \A u \in Threads : Busy(u) => (HasBody(u)' <=> HasBody(u))
  BY <1>1, <1>5 DEF HasBody, NextStep
<1>7. TypeInv'
  <2>1. Idle \in Hands
    BY RunAssumption DEF Idle
  <2> QED
    BY <1>1, <2>1 DEF IInv, TypeInv
<1>8. SlotInv'
  BY <1>1, <1>2, <1>3 DEF IInv, SlotInv
<1>9. HandInv'
  BY <1>1, <1>2, <1>3, <1>4, <1>5 DEF IInv, HandInv, Idle
<1>10. DoneInv'
  BY <1>1, <1>2, <1>3, <1>5 DEF IInv, DoneInv
<1>11. StopInv'
  BY <1>1 DEF StopInv
<1>12. Busy(1)' <=> Busy(1)
  BY <1>5, WorkersAre DEF IInv
<1>13. DocsInv'
  BY <1>1, <1>2, <1>3, <1>12 DEF IInv, DocsInv
<1>14. AnswerInv'
  BY <1>1, <1>5, <1>6 DEF IInv, AnswerInv, Faithful
<1>15. OwnerInv'
  BY <1>1, <1>3, <1>5 DEF IInv, OwnerInv
<1>16. StreamInv'
  BY <1>1, <1>3, <1>12 DEF IInv, StreamInv
<1> QED
  BY <1>7, <1>8, <1>9, <1>10, <1>11, <1>13, <1>14, <1>15, <1>16 DEF IInv

(* Starting the run preserves the invariant.                                *)
LEMMA StartStep ==
    ASSUME IInv, Start
    PROVE  IInv'
<1>1. /\ main = "start" /\ main' = "running" /\ slots' = [d \in Docs |-> d]
      /\ UNCHANGED <<opts, jobs, source, results, artifact, docs, events, lines, streamError, exit>>
  BY DEF Start
<1>2. /\ Sequential' = Sequential /\ Streaming' = Streaming /\ Workers' = Workers
  BY <1>1, Frame
<1>3. work' = [t \in Threads |-> IF t \in Workers THEN Ready ELSE Idle]
  <2>1. \A t \in Threads : t \in Workers <=> t <= (IF Sequential THEN 1 ELSE Parallel)
    BY RunAssumption DEF Threads, Workers, Parallel, IInv, TypeInv
  <2> QED
    BY <2>1 DEF Start
<1>4. \A t \in Threads : /\ ~Busy(t)' /\ (t \in Workers => work'[t].pc = "take")
                         /\ (t \notin Workers => work'[t].pc = "idle")
  BY <1>3 DEF Busy, Ready, Idle
<1>5. /\ \A d \in Docs : results[d] = None
      /\ docs = <<>> /\ artifact = None
  BY <1>1 DEF IInv, SlotInv
<1>6. slots' \in Seq(Docs) /\ Len(slots') = Count /\ \A i \in 1..Count : slots'[i] = i
  BY <1>1, RunAssumption DEF Docs
<1>7. TypeInv'
  <2>1. /\ Idle \in Hands
        /\ Ready \in Hands
    BY RunAssumption DEF Idle, Ready
  <2> QED
    BY <1>1, <1>3, <1>6, <2>1 DEF IInv, TypeInv
<1>8. SlotInv'
  BY <1>1, <1>6, RunAssumption DEF SlotInv
<1>9. HandInv'
  BY <1>1, <1>2, <1>4 DEF HandInv
<1>10. Taken' = {}
  BY <1>6, RunAssumption DEF Taken
<1>11. DoneInv'
  BY <1>1, <1>4, <1>5, <1>10 DEF DoneInv
<1>12. StopInv'
  BY <1>2, <1>4, WorkersAre DEF StopInv, IInv
<1>13. ~Busy(1)'
  BY <1>4, WorkersAre DEF IInv
<1>14. DocsInv'
  <2>1. Count - Len(slots') = 0 /\ DOMAIN docs' = {} /\ 1..0 = {}
    BY <1>1, <1>5, <1>6, RunAssumption
  <2>2. docs' = [d \in {} |-> results'[d]]
    BY <1>1, <1>5
  <2> QED
    BY <1>1, <1>13, <2>1, <2>2 DEF DocsInv
<1>15. AnswerInv' /\ OwnerInv'
  BY <1>1, <1>4, <1>5 DEF AnswerInv, OwnerInv
<1>16. StreamInv'
  BY <1>1, <1>2 DEF IInv, StreamInv
<1> QED
  BY <1>7, <1>8, <1>9, <1>11, <1>12, <1>14, <1>15, <1>16 DEF IInv

-----------------------------------------------------------------------------
(* 1..n has n elements.                                                     *)
LEMMA CardinalityInterval ==
    ASSUME NEW n \in Nat
    PROVE  Cardinality(1..n) = n
BY FS_Interval

(* The k-th smallest of 1..n is k.                                          *)
LEMMA NthOfInterval ==
    ASSUME NEW n \in Nat, NEW k \in 1..n
    PROVE  NthOf(1..n, k) = k
<1>1. ASSUME NEW d \in 1..n
      PROVE  Cardinality({e \in 1..n : e <= d}) = d
  <2>1. {e \in 1..n : e <= d} = 1..d
    OBVIOUS
  <2>2. d \in Nat
    OBVIOUS
  <2> QED
    BY <2>1, <2>2, CardinalityInterval
<1>2. \A d \in 1..n : Cardinality({e \in 1..n : e <= d}) = k <=> d = k
  BY <1>1
<1> QED
  BY <1>2 DEF NthOf

(* When documents 1..n have results, the report lists them in input         *)
(* order.                                                                   *)
LEMMA AssembledDocs ==
    ASSUME NEW n \in Nat, {d \in Docs : results[d] # None} = 1..n
    PROVE  Assembled.docs = [d \in 1..n |-> results[d]]
<1> DEFINE done == {d \in Docs : results[d] # None}
<1>1. Assembled.docs = [k \in 1..Cardinality(done) |-> results[NthOf(done, k)]]
  BY DEF Assembled
<1>2. Cardinality(done) = n
  BY CardinalityInterval
<1>3. \A k \in 1..n : NthOf(done, k) = k
  BY NthOfInterval
<1> HIDE DEF done
<1> QED
  BY <1>1, <1>2, <1>3

(* When all threads are idle, documents 1..n have results for some n that   *)
(* ends the run, and the report is made of exactly them.                    *)
LEMMA AssembleFacts ==
    ASSUME IInv, Assemble
    PROVE  \E n \in 0..Count : Covers(n) /\ docs' = [d \in 1..n |-> results[d]]
<1>1. /\ main = "running" /\ \A t \in Threads : work[t].pc = "idle"
      /\ IF Streaming THEN docs' = docs ELSE docs' = Assembled.docs
  BY DEF Assemble
<1>2. 1 \in Workers /\ 1 \in Threads
  BY WorkersAre DEF IInv
<1>3. slots = <<>> \/ Halted
  BY <1>1, <1>2 DEF IInv, StopInv
<1> DEFINE n == Count - Len(slots)
<1>4. Len(slots) \in Nat /\ Len(slots) <= Count /\ n \in 0..Count
  BY RunAssumption DEF IInv, TypeInv, SlotInv
<1>5. \A t \in Threads : ~Busy(t)
  BY <1>1 DEF Busy
<1>6. Taken = 1..n
  <2>1. CASE slots = <<>>
    BY <2>1, RunAssumption DEF Taken
  <2>2. CASE Halted
    BY <2>2 DEF Halted, Sequential, Taken
  <2> QED
    BY <1>3, <2>1, <2>2
<1>7. \A d \in Docs : d \in 1..n <=> results[d] # None
  BY <1>1, <1>5, <1>6 DEF IInv, DoneInv
<1>8. 1..n \subseteq Docs
  BY <1>4, RunAssumption DEF Docs
<1>9. {d \in Docs : results[d] # None} = 1..n
  BY <1>7, <1>8
<1>10. Covers(n)
  <2>1. n < Count => Halted
    BY <1>3, RunAssumption
  <2> QED
    BY <1>4, <1>7, <1>8, <2>1, RunAssumption DEF Covers, Halted
<1>11. docs' = [d \in 1..n |-> results[d]]
  <2>1. CASE Streaming
    BY <1>1, <1>2, <1>5, <2>1 DEF IInv, DocsInv
  <2>2. CASE ~Streaming
    <3>1. n \in Nat /\ docs' = Assembled.docs
      BY <1>1, <1>4, <2>2
    <3> HIDE DEF n
    <3> QED
      BY <1>9, <3>1, AssembledDocs
  <2> QED
    BY <2>1, <2>2
<1> QED
  BY <1>4, <1>10, <1>11

(* Putting the report together preserves the invariant.                     *)
LEMMA AssembleStep ==
    ASSUME IInv, Assemble
    PROVE  IInv'
<1>1. /\ main = "running" /\ \A t \in Threads : work[t].pc = "idle"
      /\ main' = "emit"
      /\ UNCHANGED <<opts, jobs, source, slots, work, results, artifact, lines, streamError, exit>>
      /\ Streaming => UNCHANGED events
  BY DEF Assemble
<1>2. /\ Sequential' = Sequential /\ Streaming' = Streaming /\ Workers' = Workers
      /\ Taken' = Taken
  BY <1>1, Frame DEF Taken
<1>3. \A t \in Threads : ~Busy(t) /\ ~Busy(t)'
  BY <1>1 DEF Busy
<1>4. TypeInv'
  BY <1>1 DEF IInv, TypeInv
<1>5. SlotInv' /\ HandInv' /\ DoneInv' /\ StopInv'
  BY <1>1, <1>2, <1>3 DEF IInv, SlotInv, HandInv, DoneInv, StopInv
<1>6. DocsInv'
  BY <1>1, AssembleFacts DEF DocsInv, Covers
<1>7. AnswerInv' /\ OwnerInv'
  BY <1>1, <1>2, <1>3 DEF IInv, AnswerInv, OwnerInv, Faithful
<1>8. ~streamError
  BY <1>1, <1>3, WorkersAre DEF IInv, StreamInv
<1>9. StreamInv'
  BY <1>1, <1>2, <1>8 DEF IInv, StreamInv
<1> QED
  BY <1>4, <1>5, <1>6, <1>7, <1>9 DEF IInv

(* Emitting the report preserves the invariant.                             *)
LEMMA EmitStep ==
    ASSUME IInv, NEW ok \in BOOLEAN, Emit(ok)
    PROVE  IInv'
<1>1. /\ main = "emit" /\ main' = "exited"
      /\ UNCHANGED <<opts, jobs, source, slots, work, results, artifact, docs, events, lines,
                     streamError>>
  BY DEF Emit
<1>2. /\ Sequential' = Sequential /\ Streaming' = Streaming /\ Workers' = Workers
      /\ Taken' = Taken
  BY <1>1, Frame DEF Taken
<1>3. \A t \in Threads : ~Busy(t) /\ ~Busy(t)' /\ work[t].pc = "idle"
  BY <1>1 DEF IInv, HandInv, Busy
<1>4. TypeInv'
  BY <1>1 DEF IInv, TypeInv
<1>5. SlotInv' /\ HandInv' /\ DoneInv' /\ StopInv'
  BY <1>1, <1>2, <1>3 DEF IInv, SlotInv, HandInv, DoneInv, StopInv
<1>6. DocsInv'
  BY <1>1 DEF IInv, DocsInv, Covers
<1>7. AnswerInv' /\ OwnerInv'
  BY <1>1, <1>2, <1>3 DEF IInv, AnswerInv, OwnerInv, Faithful
<1>8. StreamInv'
  BY <1>1, <1>2 DEF IInv, StreamInv
<1> QED
  BY <1>4, <1>5, <1>6, <1>7, <1>8 DEF IInv

(* So does a stuttering step.                                               *)
LEMMA StutterStep ==
    ASSUME IInv, UNCHANGED vars
    PROVE  IInv'
<1>1. /\ Sequential' = Sequential /\ Streaming' = Streaming /\ Workers' = Workers
      /\ Taken' = Taken
  BY Frame DEF Taken, vars
<1>2. \A t \in Threads : Busy(t)' <=> Busy(t)
  BY DEF Busy, vars
<1>3. TypeInv' /\ SlotInv' /\ HandInv' /\ DoneInv'
  BY <1>1, <1>2 DEF IInv, TypeInv, SlotInv, HandInv, DoneInv, vars
<1>4. StopInv' /\ DocsInv'
  BY <1>1, <1>2, WorkersAre DEF IInv, StopInv, Halted, DocsInv, Covers, vars
<1>5. AnswerInv' /\ OwnerInv'
  BY <1>1, <1>2 DEF IInv, AnswerInv, OwnerInv, Faithful, HasBody, NextStep, vars
<1>6. StreamInv'
  BY <1>1, <1>2, WorkersAre DEF IInv, StreamInv, vars
<1> QED
  BY <1>3, <1>4, <1>5, <1>6 DEF IInv

-----------------------------------------------------------------------------
(* The invariant holds initially.                                           *)
LEMMA InitInv ==
    ASSUME Init
    PROVE  IInv
<1>1. TypeInv
  <2>1. Idle \in Hands
    BY RunAssumption, EmptySeq DEF Idle
  <2>2. slots = <<>> /\ main = "start" /\ streamError \in BOOLEAN
    BY DEF Init
  <2>3. work \in [Threads -> Hands]
    BY <2>1 DEF Init
  <2>4. results \in [Docs -> DocReports \cup {None}] /\ artifact \in Places \cup {None}
    BY DEF Init
  <2> QED
    BY <2>2, <2>3, <2>4, EmptySeq DEF Init, TypeInv
<1>2. \A t \in Threads : work[t].pc = "idle" /\ ~Busy(t)
  BY DEF Init, Idle, Busy
<1>3. /\ main = "start" /\ slots = <<>> /\ docs = <<>> /\ artifact = None
      /\ \A d \in Docs : results[d] = None
  BY DEF Init
<1>4. SlotInv
  BY <1>2, <1>3, RunAssumption DEF SlotInv
<1>5. HandInv /\ DoneInv /\ StopInv /\ DocsInv
  BY <1>2, <1>3 DEF HandInv, DoneInv, StopInv, DocsInv
<1>6. AnswerInv /\ OwnerInv
  BY <1>2, <1>3 DEF AnswerInv, OwnerInv
<1>7. StreamInv
  <2>1. lines = <<>> /\ events = <<>> /\ streamError = FALSE
    BY DEF Init
  <2>2. <<>> \in Seq(Events)
    OBVIOUS
  <2> QED
    BY <1>3, <2>1, <2>2 DEF StreamInv, PrefixOf
<1> QED
  BY <1>1, <1>4, <1>5, <1>6, <1>7 DEF IInv

(* Every step preserves the invariant.                                      *)
LEMMA NextInv ==
    ASSUME IInv, [Next]_vars
    PROVE  IInv'
<1>1. CASE Start
  BY <1>1, StartStep
<1>2. CASE \E t \in Threads : ThreadStep(t)
  <2>1. PICK t \in Threads : ThreadStep(t)
    BY <1>2
  <2>2. CASE Take(t)
    BY <2>2, TakeStep
  <2>3. CASE NoMoreSlots(t)
    BY <2>3, NoMoreSlotsStep
  <2>4. CASE Plan(t) \/ RunStep(t) \/ Promote(t) \/ Persist(t) \/ LastStep(t)
    BY <2>4, InnerStep
  <2>5. CASE Store(t)
    BY <2>5, StoreStep
  <2>6. CASE StreamDocument(t)
    BY <2>6, StreamDocumentStep
  <2> QED
    BY <2>1, <2>2, <2>3, <2>4, <2>5, <2>6 DEF ThreadStep
<1>3. CASE Assemble
  BY <1>3, AssembleStep
<1>4. CASE \E ok \in BOOLEAN : Emit(ok)
  BY <1>4, EmitStep
<1>5. CASE Done \/ UNCHANGED vars
  BY <1>5, StutterStep DEF Done
<1> QED
  BY <1>1, <1>2, <1>3, <1>4, <1>5 DEF Next

(* Spec implies the inductive invariant, whatever the schedule.             *)
THEOREM Inductive == Spec => []IInv
BY InitInv, NextInv, PTL DEF Spec

(* PrefixOf is the library's IsPrefix.                                      *)
LEMMA IsPrefixIf ==
    ASSUME NEW S, NEW s \in Seq(S), NEW r \in Seq(S), PrefixOf(s, r)
    PROVE  IsPrefix(s, r)
<1>1. Len(s) \in Nat /\ Len(r) \in Nat /\ Len(s) <= Len(r)
  BY DEF PrefixOf
<1>2. SubSeq(s, 1, Len(s)) = SubSeq(r, 1, Len(s))
  BY <1>1 DEF PrefixOf
<1> QED
  BY <1>1, <1>2 DEF IsPrefix

(* For any number of documents and steps, the lines a --json-lines run      *)
(* streams are a gapless prefix of the report's events, all of them when    *)
(* the run is not aborted; no run with a lost line exits normally, and an   *)
(* aborted one exits with 4.                                                *)
THEOREM StreamIsPrefixHolds == Spec => []StreamIsPrefix
<1>1. IInv => StreamIsPrefix
  <2> SUFFICES ASSUME IInv PROVE StreamIsPrefix
    OBVIOUS
  <2>1. Streaming => IsPrefix(lines, events)
    BY IsPrefixIf DEF IInv, StreamInv
  <2> QED
    BY <2>1 DEF IInv, StreamInv, StreamIsPrefix
<1> QED
  BY Inductive, <1>1, PTL

(* A stored result tells what its document answers by itself, to its end or, *)
(* with --fail-fast, to its first failure.                                   *)
LEMMA ResultTells ==
    ASSUME IInv, NEW d \in Docs, results[d] # None
    PROVE  LET s == results[d].steps
               whole == source[d].steps
           IN /\ results[d].code = source[d].code
              /\ \A i \in 1..Len(s) : s[i] = Given(d, i) /\ (Lost(d, i) => artifact # None)
              /\ \/ Len(s) = Len(whole)
                 \/ opts.fail_fast /\ Len(s) \in 1..Len(whole) /\ s[Len(s)] # 0
<1> DEFINE s == results[d].steps
<1> DEFINE whole == source[d].steps
<1>1. /\ results[d].code = source[d].code
      /\ Told(source[d], d, s, TRUE, artifact, opts.fail_fast)
  BY DEF IInv, AnswerInv, Faithful
<1>2. /\ Len(whole) \in Nat
      /\ source[d].code # 0 => Len(whole) = 0
  BY SourceType DEF IInv
<1>3. Len(s) \in Nat
  <2>1. results[d] \in DocReports
    BY DEF IInv, TypeInv
  <2>2. PICK k \in 0..MaxSteps : s \in [1..k -> Codes]
    BY <2>1 DEF DocReports, StepReports, Codes
  <2>3. s \in Seq(Codes)
    BY <2>2, RunAssumption
  <2> QED
    BY <2>3, LenProperties
<1> HIDE DEF s, whole
<1>4. Len(s) <= Len(whole)
  BY <1>1 DEF Told, whole
<1>5. \A i \in 1..Len(s) : s[i] = Given(d, i) /\ (Lost(d, i) => artifact # None)
  BY <1>1 DEF Told, Given, Lost
<1>6. \/ source[d].code # 0
      \/ Len(s) = Len(whole)
      \/ opts.fail_fast /\ Len(s) > 0 /\ s[Len(s)] # 0
  BY <1>1 DEF Told, whole
<1>7. \/ Len(s) = Len(whole)
      \/ opts.fail_fast /\ Len(s) \in 1..Len(whole) /\ s[Len(s)] # 0
  BY <1>2, <1>3, <1>4, <1>6
<1> QED
  BY <1>1, <1>5, <1>7 DEF s, whole

(* For any number of documents, jobs and steps, whatever the schedule: each  *)
(* document reports what it answers by itself, to its end or to its first    *)
(* failure; a step with a body that does not own the artifact file reports   *)
(* that it was there; and a finished run reports the documents in input      *)
(* order, all of them or up to a failed one.                                 *)
THEOREM ScheduleInvisibleHolds == Spec => []ScheduleInvisible
<1>1. ASSUME IInv, main = "exited"
      PROVE  /\ \A d \in DOMAIN docs : docs[d] = results[d]
             /\ \/ Len(docs) = Count
                \/ /\ opts.fail_fast /\ Len(docs) \in 1..Count
                   /\ FailedReport(docs[Len(docs)])
  <2>1. PICK n \in 0..Count : Covers(n) /\ docs = [d \in 1..n |-> results[d]]
    BY <1>1 DEF IInv, DocsInv
  <2>2. Len(docs) = n /\ DOMAIN docs = 1..n
    BY <2>1, RunAssumption
  <2>3. \A d \in DOMAIN docs : docs[d] = results[d]
    BY <2>1, <2>2
  <2>4. n < Count => n > 0 /\ opts.fail_fast /\ FailedReport(results[n])
    BY <2>1 DEF Covers
  <2>5. n < Count => n \in 1..Count /\ docs[n] = results[n]
    BY <2>2, <2>3, <2>4, RunAssumption
  <2>6. n < Count \/ n = Count
    BY RunAssumption
  <2> QED
    BY <2>2, <2>3, <2>4, <2>5, <2>6
<1>2. IInv => ScheduleInvisible
  BY <1>1, ResultTells DEF ScheduleInvisible
<1> QED
  BY Inductive, <1>2, PTL

-----------------------------------------------------------------------------
(* The initial states map to initial states of the contract.                *)
LEMMA ContractInit ==
    ASSUME Init
    PROVE  Contract!Init
BY DEF Init, Contract!Init, Docs

(* Store and StreamDocument complete a document of the contract that had    *)
(* no result, Assemble assembles its report, and every other step           *)
(* stutters.                                                                *)
LEMMA ContractStep ==
    ASSUME IInv, [Next]_vars
    PROVE  [Contract!Next]_Contract!vars
<1>1. CASE Start
  BY <1>1 DEF Start, Contract!vars
<1>2. CASE \E t \in Threads : ThreadStep(t)
  <2>1. PICK t \in Threads : ThreadStep(t)
    BY <1>2
  <2>2. CASE Take(t) \/ NoMoreSlots(t)
    BY <2>2 DEF Take, NoMoreSlots, Contract!vars
  <2>3. CASE Plan(t) \/ RunStep(t) \/ Promote(t) \/ Persist(t) \/ LastStep(t)
    <3>1. UNCHANGED <<main, results, docs>>
      BY <2>3 DEF Plan, RunStep, Promote, Persist, LastStep
    <3> QED
      BY <3>1 DEF Contract!vars
  <2>4. CASE Store(t) \/ StreamDocument(t)
    <3>1. Stored(t)
      <4>1. CASE Store(t)
        BY <4>1 DEF Store, Stored
      <4>2. CASE StreamDocument(t)
        BY <4>2 DEF StreamDocument, Stored
      <4> QED
        BY <2>4, <4>1, <4>2
    <3>2. main = "running" /\ main' \in {"running", "aborted"}
      BY <3>1, StoredFacts DEF Stored
    <3>3. /\ work[t].doc \in 1..Count /\ Report(t) \in DocReports
          /\ results[work[t].doc] = None
          /\ results' = [results EXCEPT ![work[t].doc] = Report(t)]
      BY <3>1, StoredFacts DEF Stored, Docs
    <3>4. Contract!Complete(work[t].doc, Report(t))
      BY <3>2, <3>3 DEF Contract!Complete
    <3> QED
      BY <3>3, <3>4 DEF Contract!Next
  <2> QED
    BY <2>1, <2>2, <2>3, <2>4 DEF ThreadStep
<1>3. CASE Assemble
  <2>1. PICK n \in 0..Count : Covers(n) /\ docs' = [d \in 1..n |-> results[d]]
    BY <1>3, AssembleFacts
  <2>2. main = "running" /\ main' = "emit" /\ results' = results
    BY <1>3 DEF Assemble
  <2>3. Contract!Assemble(n)
    BY <2>1, <2>2 DEF Contract!Assemble, Covers
  <2> QED
    BY <2>3 DEF Contract!Next
<1>4. CASE \E ok \in BOOLEAN : Emit(ok)
  BY <1>4 DEF Emit, Contract!vars
<1>5. CASE Done \/ UNCHANGED vars
  BY <1>5 DEF Done, vars, Contract!vars
<1> QED
  BY <1>1, <1>2, <1>3, <1>4, <1>5 DEF Next

(* Every schedule, sequential, fail-fast, streaming or parallel,            *)
(* implements RunContract: a slot is filled at most once, and the report    *)
(* is the results in input order, complete or up to a failure.              *)
THEOREM RefinesContract == Spec => ContractSpec
<1>1. Init => Contract!Init
  BY ContractInit
<1>2. IInv /\ [Next]_vars => [Contract!Next]_Contract!vars
  BY ContractStep
<1> QED
  BY Inductive, <1>1, <1>2, PTL DEF Spec, ContractSpec, Contract!Spec
=============================================================================
