---------------------------- MODULE DocumentsProofs ----------------------------
(***************************************************************************)
(* Proofs about the three loops that execute a document, for documents of   *)
(* any length.                                                              *)
(*                                                                         *)
(* DocumentExec: captures are published all or nothing                      *)
(* (CapturesAllOrNothing), and exit status 0 means that every planned step  *)
(* ran and every check was true (ExitZeroMeansVerified).  Neither is        *)
(* inductive.  IInv adds what is true inside a step: a report that has not  *)
(* failed has a "true" for every check evaluated so far, the temporary map  *)
(* holds nothing but values of the step at hand and shares no name with the *)
(* variables, it has every captured key as long as no diagnostic was added, *)
(* and a step whose output is tainted never gets to capture anything.       *)
(*                                                                         *)
(* Library: the context of a step is current (ContextIsCurrent), because a  *)
(* snapshot that is kept is one of the variables as they are.               *)
(*                                                                         *)
(* Go: a document that passes was verified (PassedMeansVerified), because   *)
(* as long as it has not failed, what it has come past is.                  *)
(***************************************************************************)
EXTENDS MCDocuments, SequenceTheorems, FiniteSetTheorems, WellFoundedInduction, TLAPS

(* A step is under way.                                                     *)
Handing == {"run", "check", "capture"}
(* The report r of step i has every planned check, and all are true.        *)
RanClean(i, r) == r.checks = [k \in 1..plan[i].checks |-> "true"]
(* Step i runs a process whose output is tainted by secrets.                *)
Unsafe(i) == plan[i].kind = "exec" /\ plan[i].tainted

(* Types; the variables can be counted (total_capture_bytes).               *)
TypeInv == TypeOK /\ IsFiniteSet(DOMAIN variables)

(* Where the document is tells how far its report is.                       *)
PlaceInv ==
    /\ pc \in Handing => Len(steps) < Len(plan)
    /\ pc = "plan" => steps = <<>> /\ \A n \in DOMAIN variables : variables[n].from = 0
    /\ pc \notin {"plan", "done"} => mode = "test"
    /\ pc # "done" => doc.status = "none"
    /\ mode = "test" /\ pc # "done" => \A i \in DOMAIN steps : steps[i].status \in {"passed", "failed"}

(* A variable comes from a finished step that was not tainted.              *)
VarInv == \A n \in DOMAIN variables :
            /\ variables[n].from <= Len(steps)
            /\ variables[n].from > 0 => ~Unsafe(variables[n].from)

(* The step at hand, from its rendering to its captures.                    *)
CurInv ==
    /\ pc \in {"plan", "next", "run", "check"} => cur.captured = {}
    /\ pc \in {"plan", "next", "run"} => cur.status = "passed" /\ cur.checks = <<>>
    /\ pc = "check" => /\ cur.status \in {"passed", "failed"}
                       /\ cur.status = "passed" =>
                            /\ left <= Step.checks
                            /\ cur.checks = [k \in 1..(Step.checks - left) |-> "true"]
    /\ pc = "capture" => /\ cur.status = "passed" /\ RanClean(Idx, cur)
                         /\ cur.codes = {} => cur.captured \subseteq DOMAIN published
                         /\ \A n \in DOMAIN published : published[n].from = Idx
                         /\ DOMAIN published \cap DOMAIN variables = {}
                         /\ IsFiniteSet(DOMAIN published)
                         /\ left > 0 \/ DOMAIN published # {} => ~Unsafe(Idx)

(* The finished steps: a passed one has published all of its keys and has   *)
(* verified all of its checks, another has published none.                  *)
CaptureInv == \A i \in DOMAIN steps :
    IF steps[i].status = "passed"
      THEN mode = "test" =>
             /\ \A n \in steps[i].captured : n \in DOMAIN variables /\ variables[n].from = i
             /\ RanClean(i, steps[i])
      ELSE \A n \in DOMAIN variables : variables[n].from # i

(* Why the loop stopped early, and what a document that is done has shown.  *)
FailInv ==
    /\ pc = "finish" => \E i \in DOMAIN steps : steps[i].status = "failed"
    /\ pc = "done" /\ mode = "test" =>
         \/ IsFailure(doc.status)
         \/ /\ Len(steps) = Len(plan)
            /\ \A i \in DOMAIN steps : steps[i].status = "passed"

(* The inductive invariant.                                                 *)
IInv == TypeInv /\ PlaceInv /\ VarInv /\ CurInv /\ CaptureInv /\ FailInv

-----------------------------------------------------------------------------
(* The fields of a planned step have their types.                           *)
LEMMA PlanType ==
    ASSUME TypeInv, NEW i \in 1..Len(plan)
    PROVE  /\ plan[i].kind \in {"curl", "exec"} /\ plan[i].tainted \in BOOLEAN
           /\ plan[i].checks \in Nat /\ plan[i].captures \in Nat
<1>1. plan[i] \in StepPlans
  BY DEF TypeInv, TypeOK
<1> QED
  BY <1>1, DocumentAssumption

(* A fresh report passes, with no checks and no captures.                   *)
LEMMA FreshType ==
    /\ FreshReport \in StepReports
    /\ FreshReport.status = "passed" /\ FreshReport.captured = {} /\ FreshReport.checks = <<>>
<1>1. <<>> \in Seq({"true", "false"})
  BY EmptySeq
<1> QED
  BY <1>1 DEF FreshReport, StepReports, Statuses

(* Failing a report keeps its type.                                         *)
LEMMA FailedType ==
    ASSUME NEW r \in StepReports, NEW codes \in SUBSET Nat
    PROVE  Failed(r, codes) \in StepReports /\ Failed(r, codes).status = "failed"
BY DEF Failed, StepReports, Statuses

(* The step at hand is a planned one.                                       *)
LEMMA IdxIs ==
    ASSUME TypeInv, Len(steps) < Len(plan)
    PROVE  Idx \in 1..Len(plan) /\ Idx \in 1..MaxSteps /\ Idx = Len(steps) + 1
BY DocumentAssumption DEF TypeInv, TypeOK, Idx

(* Extend(f, g) is g where g is defined, else f.                            *)
LEMMA ExtendIs ==
    ASSUME NEW f, NEW g
    PROVE  /\ DOMAIN Extend(f, g) = DOMAIN f \cup DOMAIN g
           /\ \A n \in DOMAIN g : Extend(f, g)[n] = g[n]
           /\ \A n \in DOMAIN f \ DOMAIN g : Extend(f, g)[n] = f[n]
BY DEF Extend

(* One more true check.                                                     *)
LEMMA AllTrueGrows ==
    ASSUME NEW m \in Nat
    PROVE  Append([k \in 1..m |-> "true"], "true") = [k \in 1..(m + 1) |-> "true"]
OBVIOUS

(* A passed report r with the merge of the temporary map, as in Publish.    *)
Merges(r) ==
    /\ r.status = "passed" /\ pc = "capture" /\ RanClean(Idx, r)
    /\ r.captured \subseteq DOMAIN published
    /\ variables' = Extend(variables, published)

(* The end of a step keeps IInv, whether it failed and left the variables   *)
(* alone or passed and merged its captures: every path out of a step is one. *)
LEMMA EndStepStep ==
    ASSUME IInv, NEW r \in StepReports, EndStep(r), Len(steps) < Len(plan), mode = "test",
           pc # "done", pc # "plan",
           \/ r.status = "failed" /\ UNCHANGED variables
           \/ Merges(r),
           UNCHANGED <<left, published, total>>
    PROVE  IInv'
<1>1. /\ steps' = Append(steps, r) /\ summaries' = Append(summaries, r.status)
      /\ hooked' = Append(hooked, Idx) /\ cur' = FreshReport
      /\ pc' = IF IsFailure(r.status) /\ opts.fail_fast THEN "finish" ELSE "next"
      /\ UNCHANGED <<mode, opts, plan, doc>>
  BY DEF EndStep
<1>2. TypeOK /\ steps \in Seq(StepReports) /\ plan \in Seq(StepPlans)
  BY DEF IInv, TypeInv, TypeOK
<1>3. Idx \in 1..Len(plan) /\ Idx \in 1..MaxSteps /\ Idx = Len(steps) + 1
  BY IdxIs DEF IInv
<1>4. /\ steps' \in Seq(StepReports) /\ Len(steps') = Idx /\ steps'[Idx] = r
      /\ \A i \in 1..Len(steps) : steps'[i] = steps[i]
  BY <1>1, <1>2, <1>3, AppendProperties
<1>5. DOMAIN steps = 1..Len(steps) /\ DOMAIN steps' = 1..Idx
      /\ (\A i \in DOMAIN steps' : i \in DOMAIN steps \/ i = Idx)
      /\ Len(steps) \in Nat
  BY <1>2, <1>3, <1>4
<1>6. r.status \in {"passed", "failed"}
  BY DEF Merges
<1>7. pc' \in {"next", "finish"}
  BY <1>1
<1>8. \A n \in DOMAIN variables' :
         \/ n \in DOMAIN variables /\ variables'[n] = variables[n] /\ variables[n].from <= Len(steps)
         \/ /\ Merges(r) /\ n \in DOMAIN published /\ variables'[n] = published[n]
            /\ published[n].from = Idx
  <2>1. CASE UNCHANGED variables
    BY <2>1 DEF IInv, VarInv
  <2>2. CASE Merges(r)
    <3>1. variables' = Extend(variables, published)
      BY <2>2 DEF Merges
    <3>2. \A n \in DOMAIN published : published[n].from = Idx
      BY <2>2 DEF IInv, CurInv, Merges
    <3>3. \A n \in DOMAIN variables : variables[n].from <= Len(steps)
      BY DEF IInv, VarInv
    <3>4. /\ DOMAIN variables' = DOMAIN variables \cup DOMAIN published
          /\ \A n \in DOMAIN published : variables'[n] = published[n]
          /\ \A n \in DOMAIN variables \ DOMAIN published : variables'[n] = variables[n]
      BY <3>1 DEF Extend
    <3> QED
      BY <2>2, <3>2, <3>3, <3>4
  <2> QED
    BY <2>1, <2>2
<1>9. \A n \in DOMAIN variables : n \in DOMAIN variables' /\ variables'[n] = variables[n]
  <2>1. CASE Merges(r)
    <3>1. DOMAIN published \cap DOMAIN variables = {} /\ variables' = Extend(variables, published)
      BY <2>1 DEF IInv, CurInv, Merges
    <3> QED
      BY <3>1, ExtendIs
  <2> QED
    BY <2>1
<1>10. TypeInv'
  <2>1. summaries' \in Seq(Statuses)
    BY <1>1, <1>2 DEF TypeOK, StepReports
  <2>2. hooked' \in Seq(1..MaxSteps)
    BY <1>1, <1>2, <1>3 DEF TypeOK
  <2>3. cur' \in StepReports
    BY <1>1, FreshType
  <2>4. DOMAIN variables' \subseteq Names /\ \A n \in DOMAIN variables' : variables'[n] \in Values
    BY <1>2, <1>8 DEF TypeOK
  <2>5. IsFiniteSet(DOMAIN variables')
    <3>1. CASE UNCHANGED variables
      BY <3>1 DEF IInv, TypeInv
    <3>2. CASE Merges(r)
      <4>1. IsFiniteSet(DOMAIN published) /\ IsFiniteSet(DOMAIN variables)
        BY <3>2 DEF IInv, TypeInv, CurInv, Merges
      <4>2. DOMAIN variables' = DOMAIN variables \cup DOMAIN published
        BY <3>2, ExtendIs DEF Merges
      <4> QED
        BY <4>1, <4>2, FS_Union
    <3> QED
      BY <3>1, <3>2
  <2>6. Len(steps') <= Len(plan')
    BY <1>1, <1>3, <1>4
  <2> QED
    BY <1>1, <1>2, <1>4, <1>7, <2>1, <2>2, <2>3, <2>4, <2>5, <2>6 DEF TypeInv, TypeOK
<1>11. PlaceInv'
  BY <1>1, <1>4, <1>5, <1>6, <1>7 DEF IInv, PlaceInv, Handing
<1>12. VarInv'
  <2>1. ASSUME NEW n \in DOMAIN variables'
        PROVE  variables'[n].from <= Idx /\ (variables'[n].from > 0 => ~Unsafe(variables'[n].from))
    <3>1. CASE n \in DOMAIN variables /\ variables'[n] = variables[n]
      <4>1. variables[n].from \in 0..MaxSteps /\ variables[n].from <= Len(steps)
        BY <1>2, <3>1 DEF TypeOK, Values, IInv, VarInv
      <4>2. variables[n].from <= Idx
        BY <1>3, <1>5, <4>1, DocumentAssumption
      <4> QED
        BY <3>1, <4>2 DEF IInv, VarInv
    <3>2. CASE Merges(r) /\ n \in DOMAIN published /\ variables'[n].from = Idx
      <4>1. ~Unsafe(Idx)
        BY <3>2 DEF Merges, IInv, CurInv
      <4> QED
        BY <1>3, <3>2, <4>1
    <3> QED
      BY <1>8, <3>1, <3>2
  <2> QED
    BY <1>1, <1>4, <2>1 DEF VarInv, Unsafe
<1>13. CurInv'
  BY <1>1, <1>7, FreshType DEF CurInv
<1>14. CaptureInv'
  <2>1. ASSUME NEW i \in DOMAIN steps', i \in DOMAIN steps
        PROVE  IF steps'[i].status = "passed"
                 THEN /\ \A n \in steps'[i].captured :
                            n \in DOMAIN variables' /\ variables'[n].from = i
                      /\ RanClean(i, steps[i])'
                 ELSE \A n \in DOMAIN variables' : variables'[n].from # i
    <3>1. steps'[i] = steps[i] /\ i \in 1..Len(steps) /\ i # Idx
      BY <1>3, <1>4, <1>5, <2>1
    <3>2. CASE steps[i].status = "passed"
      <4>1. /\ \A n \in steps[i].captured : n \in DOMAIN variables /\ variables[n].from = i
            /\ RanClean(i, steps[i])
        BY <2>1, <3>2 DEF IInv, CaptureInv
      <4> QED
        BY <1>1, <1>9, <3>1, <3>2, <4>1 DEF RanClean
    <3>3. CASE steps[i].status # "passed"
      <4>1. \A n \in DOMAIN variables : variables[n].from # i
        BY <2>1, <3>3 DEF IInv, CaptureInv
      <4> QED
        BY <1>8, <3>1, <3>3, <4>1
    <3> QED
      BY <3>2, <3>3
  <2>2. IF r.status = "passed"
          THEN /\ \A n \in r.captured : n \in DOMAIN variables' /\ variables'[n].from = Idx
               /\ RanClean(Idx, r)
          ELSE \A n \in DOMAIN variables' : variables'[n].from # Idx
    <3>1. CASE Merges(r)
      <4>1. \A n \in DOMAIN published : published[n].from = Idx
        BY <3>1 DEF IInv, CurInv, Merges
      <4>2. \A n \in DOMAIN published : n \in DOMAIN variables' /\ variables'[n] = published[n]
        BY <3>1 DEF Merges, Extend
      <4> QED
        BY <3>1, <4>1, <4>2 DEF Merges
    <3>2. CASE r.status = "failed" /\ UNCHANGED variables
      <4>1. ASSUME NEW n \in DOMAIN variables
            PROVE  variables[n].from # Idx
        <5>1. variables[n].from \in 0..MaxSteps /\ variables[n].from <= Len(steps)
          BY <1>2 DEF TypeOK, Values, IInv, VarInv
        <5> QED
          BY <1>3, <1>5, <5>1, DocumentAssumption
      <4> QED
        BY <3>2, <4>1
    <3> QED
      BY <3>1, <3>2
  <2>3. ASSUME NEW i \in DOMAIN steps', i = Idx
        PROVE  IF steps'[i].status = "passed"
                 THEN /\ \A n \in steps'[i].captured :
                            n \in DOMAIN variables' /\ variables'[n].from = i
                      /\ RanClean(i, steps[i])'
                 ELSE \A n \in DOMAIN variables' : variables'[n].from # i
    BY <1>1, <1>4, <2>2, <2>3 DEF RanClean
  <2> QED
    BY <1>5, <2>1, <2>3 DEF CaptureInv
<1>15. FailInv'
  <2>1. pc' = "finish" => r.status = "failed"
    BY <1>1, <1>6 DEF IsFailure
  <2>2. Idx \in DOMAIN steps'
    BY <1>3, <1>5
  <2> QED
    BY <1>4, <1>7, <2>1, <2>2 DEF FailInv
<1> QED
  BY <1>10, <1>11, <1>12, <1>13, <1>14, <1>15 DEF IInv

-----------------------------------------------------------------------------
(* A plan that fails keeps IInv.                                            *)
LEMMA PlanFailsStep ==
    ASSUME IInv, NEW codes \in SUBSET Nat, PlanFails(codes)
    PROVE  IInv'
<1>1. /\ pc = "plan" /\ pc' = "done" /\ doc'.status \in {"failed", "error"}
      /\ doc' \in [status : Statuses \cup {"none"}, codes : SUBSET Nat]
      /\ UNCHANGED <<mode, opts, plan, variables, cur, left, published, total, steps,
                     summaries, hooked>>
  BY DEF PlanFails, Statuses
<1>2. TypeInv'
  BY <1>1 DEF IInv, TypeInv, TypeOK
<1>3. PlaceInv' /\ CurInv'
  BY <1>1 DEF PlaceInv, CurInv, Handing
<1>4. VarInv' /\ CaptureInv'
  BY <1>1 DEF IInv, VarInv, CaptureInv, Unsafe, RanClean
<1>5. FailInv'
  BY <1>1 DEF FailInv, IsFailure
<1> QED
  BY <1>2, <1>3, <1>4, <1>5 DEF IInv

(* The same report for every step keeps IInv: of `mdok test` it is an error. *)
LEMMA ReportAllStep ==
    ASSUME IInv, NEW status \in Statuses, NEW codes \in SUBSET Nat, NEW docStatus \in Statuses,
           pc = "plan", ReportAll(status, codes, docStatus),
           mode = "test" => status # "passed" /\ IsFailure(docStatus)
    PROVE  IInv'
<1> DEFINE r == [status |-> status, codes |-> codes, checks |-> <<>>, captured |-> {}]
<1>1. /\ steps' = [i \in 1..Len(plan) |-> r] /\ hooked' = [i \in 1..Len(plan) |-> i]
      /\ doc' = [status |-> docStatus, codes |-> doc.codes] /\ pc' = "done"
      /\ UNCHANGED <<mode, opts, plan, variables, cur, left, published, total, summaries>>
  BY DEF ReportAll
<1>2. TypeOK /\ Len(plan) \in 0..MaxSteps
  BY DEF IInv, TypeInv, TypeOK
<1>3. r \in StepReports
  BY EmptySeq DEF StepReports
<1>4. r.status = status
  OBVIOUS
<1> HIDE DEF r
<1>5. steps' \in Seq(StepReports) /\ Len(steps') = Len(plan) /\ hooked' \in Seq(1..MaxSteps)
  <2>1. \A i \in 1..Len(plan) : i \in 1..MaxSteps
    BY <1>2, DocumentAssumption
  <2> QED
    BY <1>1, <1>2, <1>3, <2>1
<1>6. doc' \in [status : Statuses \cup {"none"}, codes : SUBSET Nat] /\ doc'.status = docStatus
  BY <1>1, <1>2 DEF TypeOK
<1>7. TypeInv'
  BY <1>1, <1>2, <1>5, <1>6 DEF IInv, TypeInv, TypeOK
<1>8. PlaceInv' /\ CurInv'
  BY <1>1 DEF PlaceInv, CurInv, Handing
<1>9. \A n \in DOMAIN variables : variables[n].from = 0
  BY DEF IInv, PlaceInv
<1>10. \A i \in DOMAIN steps' : i \in 1..Len(plan) /\ steps'[i].status = status
  BY <1>1, <1>4
<1>11. VarInv'
  BY <1>1, <1>2, <1>5, <1>9 DEF VarInv
<1>12. CaptureInv'
  <2>1. ASSUME NEW i \in DOMAIN steps'
        PROVE  /\ i # 0 /\ steps'[i].status = status
               /\ \A n \in DOMAIN variables' : variables'[n].from # i
    BY <1>1, <1>2, <1>9, <1>10
  <2>2. mode' = "test" => status # "passed"
    BY <1>1
  <2> QED
    BY <2>1, <2>2 DEF CaptureInv
<1>13. FailInv'
  BY <1>1, <1>6 DEF FailInv
<1> QED
  BY <1>7, <1>8, <1>11, <1>12, <1>13 DEF IInv

(* The start of the loop keeps IInv.                                        *)
LEMMA StartDocumentStep ==
    ASSUME IInv, StartDocument
    PROVE  IInv'
<1>1. /\ pc = "plan" /\ pc' = "next" /\ mode = "test"
      /\ UNCHANGED <<mode, opts, plan, variables, cur, left, published, total, steps,
                     summaries, hooked, doc>>
  BY DEF StartDocument
<1>2. TypeInv' /\ PlaceInv' /\ VarInv' /\ CaptureInv' /\ FailInv'
  BY <1>1 DEF IInv, TypeInv, TypeOK, PlaceInv, VarInv, CaptureInv, FailInv, Handing, Unsafe,
              RanClean
<1>3. CurInv'
  BY <1>1 DEF IInv, CurInv
<1> QED
  BY <1>2, <1>3 DEF IInv

(* Rendering keeps IInv, with and without an error.                         *)
LEMMA RenderStep ==
    ASSUME IInv, NEW error \in SUBSET Nat, Render(error)
    PROVE  IInv'
<1>1. pc = "next" /\ Idx <= Len(plan) /\ UNCHANGED <<variables, left, published, total>>
  BY DEF Render
<1>2. mode = "test" /\ Len(steps) < Len(plan)
  BY <1>1 DEF IInv, PlaceInv, TypeInv, TypeOK, Idx
<1>3. CASE RenderCodes \cup error # {}
  <2>1. RenderCodes \cup error \in SUBSET Nat
    <3>1. RenderCodes \subseteq {404, 401}
      BY DEF RenderCodes
    <3> QED
      BY <3>1
  <2>2. /\ Failed(FreshReport, RenderCodes \cup error) \in StepReports
        /\ Failed(FreshReport, RenderCodes \cup error).status = "failed"
    BY <2>1, FreshType, FailedType
  <2>3. EndStep(Failed(FreshReport, RenderCodes \cup error))
    BY <1>3 DEF Render
  <2> QED
    BY <1>1, <1>2, <2>2, <2>3, EndStepStep
<1>4. CASE RenderCodes \cup error = {}
  <2>1. pc' = "run" /\ UNCHANGED <<mode, opts, plan, cur, steps, summaries, hooked, doc>>
    BY <1>4 DEF Render
  <2>2. TypeInv' /\ PlaceInv' /\ VarInv' /\ CaptureInv' /\ FailInv'
    BY <1>1, <1>2, <2>1 DEF IInv, TypeInv, TypeOK, PlaceInv, VarInv, CaptureInv, FailInv, Handing,
                            Unsafe, RanClean
  <2>3. CurInv'
    BY <1>1, <2>1 DEF IInv, CurInv
  <2> QED
    BY <2>2, <2>3 DEF IInv
<1> QED
  BY <1>3, <1>4

(* A step without a result keeps IInv.                                      *)
LEMMA RunFailsStep ==
    ASSUME IInv, NEW code \in Nat, RunFails(code)
    PROVE  IInv'
<1>1. pc = "run" /\ EndStep(Failed(cur, {code})) /\ UNCHANGED <<variables, left, published, total>>
  BY DEF RunFails
<1>2. mode = "test" /\ Len(steps) < Len(plan) /\ cur \in StepReports
  BY <1>1 DEF IInv, PlaceInv, Handing, TypeInv, TypeOK
<1>3. Failed(cur, {code}) \in StepReports /\ Failed(cur, {code}).status = "failed"
  BY <1>2, FailedType
<1> QED
  BY <1>1, <1>2, <1>3, EndStepStep

(* A result keeps IInv: the checks start from an empty list.                *)
LEMMA RunReturnsStep ==
    ASSUME IInv, NEW exit \in SUBSET Nat, RunReturns(exit)
    PROVE  IInv'
<1>1. /\ pc = "run" /\ pc' = "check" /\ left' = Step.checks
      /\ cur' = IF exit = {} THEN cur ELSE Failed(cur, exit)
      /\ UNCHANGED <<mode, opts, plan, variables, published, total, steps, summaries, hooked, doc>>
  BY DEF RunReturns
<1>2. mode = "test" /\ Len(steps) < Len(plan) /\ cur \in StepReports
  BY <1>1 DEF IInv, PlaceInv, Handing, TypeInv, TypeOK
<1>3. Idx \in 1..Len(plan)
  BY <1>2, IdxIs DEF IInv
<1>4. Step.checks \in Nat
  BY <1>3, PlanType DEF IInv, Step
<1>5. cur.status = "passed" /\ cur.checks = <<>> /\ cur.captured = {}
  BY <1>1 DEF IInv, CurInv
<1>6. /\ cur' \in StepReports /\ cur'.captured = {} /\ cur'.status \in {"passed", "failed"}
      /\ cur'.status = "passed" => cur'.checks = <<>>
  <2>1. CASE exit = {}
    BY <1>1, <1>2, <1>5, <2>1
  <2>2. CASE exit # {}
    <3>1. cur' = Failed(cur, exit)
      BY <1>1, <2>2
    <3>2. cur'.captured = cur.captured
      BY <3>1 DEF Failed
    <3> QED
      BY <1>2, <1>5, <3>1, <3>2, FailedType
  <2> QED
    BY <2>1, <2>2
<1>7. TypeInv'
  BY <1>1, <1>4, <1>6 DEF IInv, TypeInv, TypeOK
<1>8. PlaceInv' /\ VarInv' /\ CaptureInv' /\ FailInv'
  BY <1>1, <1>2 DEF IInv, PlaceInv, VarInv, CaptureInv, FailInv, Handing, Unsafe, RanClean
<1>9. CurInv'
  <2>1. Step' = Step
    BY <1>1 DEF Step, Idx
  <2>2. Step.checks - left' = 0 /\ left' <= Step.checks
    BY <1>1, <1>4
  <2>3. <<>> = [k \in 1..0 |-> "true"]
    OBVIOUS
  <2> QED
    BY <1>1, <1>6, <2>1, <2>2, <2>3 DEF CurInv
<1> QED
  BY <1>7, <1>8, <1>9 DEF IInv

(* One check keeps IInv: the list of true checks grows by one, or the step  *)
(* has failed.                                                              *)
LEMMA CheckStep ==
    ASSUME IInv, NEW result \in {"true", "false", "error"}, Check(result)
    PROVE  IInv'
<1> DEFINE bad == result # "true"
<1> DEFINE codes == IF result = "false" THEN {502} ELSE IF result = "error" THEN {501} ELSE {}
<1> DEFINE checks == IF result = "error" THEN cur.checks ELSE Append(cur.checks, result)
<1>1. /\ pc = "check" /\ left > 0
      /\ cur' = [status |-> IF bad THEN "failed" ELSE cur.status,
                 codes |-> cur.codes \cup codes, checks |-> checks, captured |-> cur.captured]
      /\ left' = IF bad /\ opts.fail_fast THEN 0 ELSE left - 1
      /\ UNCHANGED <<mode, opts, plan, pc, variables, published, total, steps, summaries,
                     hooked, doc>>
  BY DEF Check
<1>2. mode = "test" /\ Len(steps) < Len(plan) /\ cur \in StepReports /\ left \in Nat
  BY <1>1 DEF IInv, PlaceInv, Handing, TypeInv, TypeOK
<1>3. codes \in SUBSET Nat
  OBVIOUS
<1>4. cur.checks \in Seq({"true", "false"}) /\ checks \in Seq({"true", "false"})
  <2>1. cur.checks \in Seq({"true", "false"})
    BY <1>2 DEF StepReports
  <2>2. CASE result = "error"
    BY <2>1, <2>2
  <2>3. CASE result \in {"true", "false"}
    BY <2>1, <2>3, AppendProperties
  <2> QED
    BY <2>1, <2>2, <2>3
<1>5. cur.captured = {} /\ cur.status \in {"passed", "failed"}
  BY <1>1 DEF IInv, CurInv
<1>6. left' \in Nat
  BY <1>1, <1>2
<1>7. result = "true" => checks = Append(cur.checks, "true")
  OBVIOUS
<1> HIDE DEF codes, checks
<1>8. /\ cur' \in StepReports /\ cur'.captured = {} /\ cur'.status \in {"passed", "failed"}
      /\ cur'.checks = checks
      /\ cur'.status = "passed" => result = "true" /\ cur.status = "passed"
  BY <1>1, <1>2, <1>3, <1>4, <1>5 DEF StepReports, Statuses
<1>9. TypeInv'
  BY <1>1, <1>6, <1>8 DEF IInv, TypeInv, TypeOK
<1>10. PlaceInv' /\ VarInv' /\ CaptureInv' /\ FailInv'
  BY <1>1, <1>2 DEF IInv, PlaceInv, VarInv, CaptureInv, FailInv, Handing, Unsafe, RanClean
<1>11. CurInv'
  <2>1. Step' = Step
    BY <1>1 DEF Step, Idx
  <2>2. ASSUME cur'.status = "passed"
        PROVE  /\ left' <= Step.checks
               /\ cur'.checks = [k \in 1..(Step.checks - left') |-> "true"]
    <3>1. result = "true" /\ cur.status = "passed" /\ left' = left - 1
      BY <1>1, <1>8, <2>2
    <3>2. left <= Step.checks /\ cur.checks = [k \in 1..(Step.checks - left) |-> "true"]
      BY <1>1, <3>1 DEF IInv, CurInv
    <3>3. Step.checks \in Nat
      BY <1>2, IdxIs, PlanType DEF IInv, Step
    <3>4. Step.checks - left \in Nat /\ Step.checks - left' = (Step.checks - left) + 1
      BY <1>1, <1>2, <3>1, <3>2, <3>3
    <3>5. Append([k \in 1..(Step.checks - left) |-> "true"], "true")
          = [k \in 1..((Step.checks - left) + 1) |-> "true"]
      BY <3>4, AllTrueGrows
    <3>6. left' <= Step.checks
      BY <1>2, <3>1, <3>2, <3>3
    <3>7. cur'.checks = Append([k \in 1..(Step.checks - left) |-> "true"], "true")
      BY <1>7, <1>8, <3>1, <3>2
    <3> QED
      BY <3>4, <3>5, <3>6, <3>7
  <2> QED
    BY <1>1, <1>8, <2>1, <2>2 DEF CurInv
<1> QED
  BY <1>9, <1>10, <1>11 DEF IInv

(* The end of the checks keeps IInv: only a clean, untainted step captures. *)
LEMMA EndChecksStep ==
    ASSUME IInv, EndChecks
    PROVE  IInv'
<1>1. pc = "check" /\ left = 0
  BY DEF EndChecks
<1>2. mode = "test" /\ Len(steps) < Len(plan) /\ cur \in StepReports
  BY <1>1 DEF IInv, PlaceInv, Handing, TypeInv, TypeOK
<1>3. Idx \in 1..Len(plan) /\ Step.checks \in Nat /\ Step.captures \in Nat
  BY <1>2, IdxIs, PlanType DEF IInv, Step
<1>4. cur.status \in {"passed", "failed"} /\ cur.captured = {}
  BY <1>1 DEF IInv, CurInv
<1> DEFINE refused == Step.kind = "exec" /\ Step.tainted /\ Step.captures > 0
<1>5. CASE cur.status = "failed" \/ refused
  <2> DEFINE r == IF cur.status = "failed" THEN cur ELSE Failed(cur, {404})
  <2>1. EndStep(r) /\ UNCHANGED <<variables, left, published, total>>
    BY <1>4, <1>5 DEF EndChecks
  <2>2. r \in StepReports /\ r.status = "failed"
    BY <1>2, FailedType
  <2> HIDE DEF r
  <2> QED
    BY <1>1, <1>2, <2>1, <2>2, EndStepStep
<1>6. CASE cur.status = "passed" /\ ~refused
  <2>1. /\ left' = Step.captures /\ published' = <<>> /\ total' = Cardinality(DOMAIN variables)
        /\ pc' = "capture"
        /\ UNCHANGED <<mode, opts, plan, variables, cur, steps, summaries, hooked, doc>>
    BY <1>6 DEF EndChecks
  <2>2. DOMAIN published' = {}
    BY <2>1
  <2>3. total' \in Nat
    BY <2>1, FS_CardinalityType DEF IInv, TypeInv
  <2>4. TypeInv'
    BY <1>3, <2>1, <2>2, <2>3 DEF IInv, TypeInv, TypeOK
  <2>5. PlaceInv' /\ VarInv' /\ CaptureInv' /\ FailInv'
    BY <1>1, <1>2, <2>1 DEF IInv, PlaceInv, VarInv, CaptureInv, FailInv, Handing, Unsafe, RanClean
  <2>6. CurInv'
    <3>1. Idx' = Idx
      BY <2>1 DEF Idx
    <3>2. cur.checks = [k \in 1..(Step.checks - 0) |-> "true"]
      BY <1>1, <1>6 DEF IInv, CurInv
    <3>3. RanClean(Idx, cur)'
      BY <1>3, <2>1, <3>1, <3>2 DEF RanClean, Step
    <3>4. left' > 0 => ~Unsafe(Idx)'
      BY <1>6, <2>1, <3>1 DEF Unsafe, Step
    <3>5. IsFiniteSet({})
      BY FS_EmptySet
    <3> QED
      BY <1>4, <1>6, <2>1, <2>2, <3>3, <3>4, <3>5 DEF CurInv
  <2> QED
    BY <2>4, <2>5, <2>6 DEF IInv
<1> QED
  BY <1>4, <1>5, <1>6

(* A failed capture keeps IInv: it leaves a diagnostic.                     *)
LEMMA CaptureFailsStep ==
    ASSUME IInv, NEW code \in Nat, CaptureFails(code)
    PROVE  IInv'
<1>1. /\ pc = "capture" /\ left > 0 /\ left' = left - 1
      /\ cur' = [status |-> cur.status, codes |-> cur.codes \cup {code},
                 checks |-> cur.checks, captured |-> cur.captured]
      /\ UNCHANGED <<mode, opts, plan, pc, variables, published, total, steps, summaries,
                     hooked, doc>>
  BY DEF CaptureFails
<1>2. mode = "test" /\ Len(steps) < Len(plan) /\ cur \in StepReports /\ left \in Nat
  BY <1>1 DEF IInv, PlaceInv, Handing, TypeInv, TypeOK
<1>3. /\ cur' \in StepReports /\ cur'.status = cur.status /\ cur'.checks = cur.checks
      /\ cur'.codes # {} /\ left' \in Nat
  BY <1>1, <1>2 DEF StepReports
<1>4. TypeInv'
  BY <1>1, <1>3 DEF IInv, TypeInv, TypeOK
<1>5. PlaceInv' /\ VarInv' /\ CaptureInv' /\ FailInv'
  BY <1>1, <1>2 DEF IInv, PlaceInv, VarInv, CaptureInv, FailInv, Handing, Unsafe, RanClean
<1>6. Idx' = Idx /\ (Unsafe(Idx)' <=> Unsafe(Idx)) /\ (RanClean(Idx, cur)' <=> RanClean(Idx, cur))
  BY <1>1, <1>3 DEF Idx, Unsafe, RanClean
<1>7. CurInv'
  BY <1>1, <1>3, <1>6 DEF IInv, CurInv
<1> QED
  BY <1>4, <1>5, <1>7 DEF IInv

(* A captured object keeps IInv: without a diagnostic every key is new.     *)
LEMMA CaptureObjectStep ==
    ASSUME IInv, NEW keys \in Objects, NEW tainted \in BOOLEAN, CaptureObject(keys, tainted)
    PROVE  IInv'
<1> DEFINE good == keys \ (InvalidNames \cup DOMAIN variables \cup DOMAIN published)
<1> DEFINE over == total + Weight(keys) > CaptureBudget
<1> DEFINE codes == IF over THEN {700} ELSE {c \in {504} : good # keys}
<1> DEFINE new == [n \in good |-> Value(Idx, n \in SecretNames \/ tainted)]
<1>1. /\ pc = "capture" /\ left > 0 /\ left' = left - 1
      /\ cur' = [status |-> cur.status, codes |-> cur.codes \cup codes,
                 checks |-> cur.checks, captured |-> cur.captured \cup keys]
      /\ total' = IF over THEN total ELSE total + Weight(keys)
      /\ published' = IF over THEN published ELSE Extend(published, new)
      /\ UNCHANGED <<mode, opts, plan, pc, variables, steps, summaries, hooked, doc>>
  BY DEF CaptureObject, Captured
<1>2. mode = "test" /\ Len(steps) < Len(plan) /\ cur \in StepReports /\ left \in Nat
      /\ total \in Nat
  BY <1>1 DEF IInv, PlaceInv, Handing, TypeInv, TypeOK
<1>3. Idx \in 1..MaxSteps
  BY <1>2, IdxIs DEF IInv
<1>4. keys \subseteq Names /\ IsFiniteSet(keys) /\ Weight(keys) \in Nat
  <2>1. keys \subseteq Names /\ IsFiniteSet(keys)
    BY DocumentAssumption
  <2> QED
    BY <2>1, FS_CardinalityType DEF Weight
<1>5. good \subseteq keys /\ good \cap DOMAIN variables = {} /\ IsFiniteSet(good)
  <2>1. good \subseteq keys /\ good \cap DOMAIN variables = {}
    OBVIOUS
  <2> QED
    BY <1>4, <2>1, FS_Subset
<1>6. \A n \in good : new[n] \in Values /\ new[n].from = Idx
  BY <1>3 DEF Value, Values
<1>7. DOMAIN new = good
  OBVIOUS
<1>8. codes \in SUBSET Nat /\ (codes = {} => ~over /\ good = keys)
  OBVIOUS
<1> HIDE DEF good, over, codes, new
<1>9. /\ DOMAIN published' = IF over THEN DOMAIN published ELSE DOMAIN published \cup good
      /\ \A n \in DOMAIN published' :
            (published'[n] \in Values /\ published'[n].from = Idx)
            \/ (n \in DOMAIN published /\ published'[n] = published[n])
  <2>1. CASE over
    BY <1>1, <2>1
  <2>2. CASE ~over
    <3>1. published' = Extend(published, new)
      BY <1>1, <2>2
    <3>2. /\ DOMAIN published' = DOMAIN published \cup good
          /\ \A n \in good : published'[n] = new[n]
          /\ \A n \in DOMAIN published \ good : published'[n] = published[n]
      BY <1>7, <3>1 DEF Extend
    <3> QED
      BY <1>6, <2>2, <3>2
  <2> QED
    BY <2>1, <2>2
<1>10. \A n \in DOMAIN published : published[n] \in Values /\ published[n].from = Idx
  BY <1>1 DEF IInv, TypeInv, TypeOK, CurInv
<1>11. /\ cur' \in StepReports /\ cur'.status = cur.status /\ cur'.checks = cur.checks
       /\ cur'.codes = cur.codes \cup codes /\ cur'.captured = cur.captured \cup keys
  BY <1>1, <1>2, <1>4, <1>8 DEF StepReports
<1>12. left' \in Nat /\ total' \in Nat
  BY <1>1, <1>2, <1>4
<1>13. TypeInv'
  <2>1. DOMAIN published' \subseteq Names /\ \A n \in DOMAIN published' : published'[n] \in Values
    BY <1>4, <1>5, <1>9, <1>10 DEF IInv, TypeInv, TypeOK
  <2> QED
    BY <1>1, <1>11, <1>12, <2>1 DEF IInv, TypeInv, TypeOK
<1>14. PlaceInv' /\ VarInv' /\ CaptureInv' /\ FailInv'
  BY <1>1, <1>2 DEF IInv, PlaceInv, VarInv, CaptureInv, FailInv, Handing, Unsafe, RanClean
<1>15. Idx' = Idx /\ (Unsafe(Idx)' <=> Unsafe(Idx)) /\ (RanClean(Idx, cur)' <=> RanClean(Idx, cur))
  BY <1>1, <1>11 DEF Idx, Unsafe, RanClean
<1>16. CurInv'
  <2>1. /\ cur.status = "passed" /\ RanClean(Idx, cur) /\ IsFiniteSet(DOMAIN published)
        /\ cur.codes = {} => cur.captured \subseteq DOMAIN published
        /\ DOMAIN published \cap DOMAIN variables = {} /\ ~Unsafe(Idx)
    BY <1>1 DEF IInv, CurInv
  <2>2. IsFiniteSet(DOMAIN published')
    <3>1. IsFiniteSet(DOMAIN published \cup good)
      BY <1>5, <2>1, FS_Union
    <3>2. DOMAIN published' = DOMAIN published \/ DOMAIN published' = DOMAIN published \cup good
      BY <1>9
    <3> QED
      BY <2>1, <3>1, <3>2
  <2>3. cur'.codes = {} => cur'.captured \subseteq DOMAIN published'
    BY <1>8, <1>9, <1>11, <2>1
  <2>4. DOMAIN published' \cap DOMAIN variables' = {}
    BY <1>1, <1>5, <1>9, <2>1
  <2>5. \A n \in DOMAIN published' : published'[n].from = Idx
    BY <1>9, <1>10
  <2> QED
    BY <1>1, <1>11, <1>15, <2>1, <2>2, <2>3, <2>4, <2>5 DEF CurInv
<1> QED
  BY <1>13, <1>14, <1>16 DEF IInv

(* publish_captures keeps IInv.                                             *)
LEMMA PublishStep ==
    ASSUME IInv, Publish
    PROVE  IInv'
<1>1. /\ pc = "capture" /\ UNCHANGED <<left, published, total>>
      /\ variables' = IF cur.codes = {} THEN Extend(variables, published) ELSE variables
      /\ EndStep(IF cur.codes = {} THEN cur ELSE Failed(cur, {}))
  BY DEF Publish
<1>2. mode = "test" /\ Len(steps) < Len(plan) /\ cur \in StepReports
  BY <1>1 DEF IInv, PlaceInv, Handing, TypeInv, TypeOK
<1>3. CASE cur.codes = {}
  <2>1. Merges(cur)
    BY <1>1, <1>3 DEF IInv, CurInv, Merges
  <2> QED
    BY <1>1, <1>2, <1>3, <2>1, EndStepStep
<1>4. CASE cur.codes # {}
  <2>1. Failed(cur, {}) \in StepReports /\ Failed(cur, {}).status = "failed"
    BY <1>2, FailedType
  <2> QED
    BY <1>1, <1>2, <1>4, <2>1, EndStepStep
<1> QED
  BY <1>3, <1>4

(* The end of the loop keeps IInv.                                          *)
LEMMA FinishDocumentStep ==
    ASSUME IInv, FinishDocument
    PROVE  IInv'
<1>1. /\ pc = "finish" \/ (pc = "next" /\ Idx > Len(plan))
      /\ doc' = [status |-> IF \E i \in DOMAIN steps : IsFailure(steps[i].status)
                              THEN "failed" ELSE "passed",
                 codes  |-> doc.codes]
      /\ pc' = "done"
      /\ UNCHANGED <<mode, opts, plan, variables, cur, left, published, total, steps,
                     summaries, hooked>>
  BY DEF FinishDocument
<1>2. doc' \in [status : Statuses \cup {"none"}, codes : SUBSET Nat]
  BY <1>1 DEF IInv, TypeInv, TypeOK, Statuses
<1>3. TypeInv'
  BY <1>1, <1>2 DEF IInv, TypeInv, TypeOK
<1>4. PlaceInv' /\ CurInv'
  BY <1>1 DEF PlaceInv, CurInv, Handing
<1>5. VarInv' /\ CaptureInv'
  BY <1>1 DEF IInv, VarInv, CaptureInv, Unsafe, RanClean
<1>6. FailInv'
  <2>1. \A i \in DOMAIN steps : steps[i].status \in {"passed", "failed"}
    BY <1>1 DEF IInv, PlaceInv
  <2>2. CASE \E i \in DOMAIN steps : IsFailure(steps[i].status)
    BY <1>1, <2>2 DEF FailInv, IsFailure
  <2>3. CASE ~\E i \in DOMAIN steps : IsFailure(steps[i].status)
    <3>1. \A i \in DOMAIN steps : steps[i].status = "passed"
      BY <2>1, <2>3 DEF IsFailure
    <3>2. pc = "next" /\ Idx > Len(plan)
      BY <1>1, <3>1 DEF IInv, FailInv
    <3>3. Len(steps) = Len(plan)
      BY <3>2 DEF Idx, IInv, TypeInv, TypeOK
    <3> QED
      BY <1>1, <3>1, <3>3 DEF FailInv
  <2> QED
    BY <2>2, <2>3
<1> QED
  BY <1>3, <1>4, <1>5, <1>6 DEF IInv

-----------------------------------------------------------------------------
(* IInv holds of a document that has not been planned.                      *)
LEMMA InitInv ==
    ASSUME Init
    PROVE  IInv
<1>1. /\ pc = "plan" /\ steps = <<>> /\ summaries = <<>> /\ hooked = <<>> /\ published = <<>>
      /\ cur = FreshReport /\ left = 0 /\ total = 0 /\ doc = [status |-> "none", codes |-> {}]
      /\ variables = [n \in InitialNames |-> Value(0, n \in SecretNames)]
  BY DEF Init
<1>2. PICK k \in 0..MaxSteps : plan \in [1..k -> StepPlans]
  BY DEF Init, Bounded
<1>3. plan \in Seq(StepPlans) /\ Len(plan) = k
  BY <1>2, DocumentAssumption
<1>4. /\ DOMAIN variables = InitialNames
      /\ \A n \in DOMAIN variables : variables[n].from = 0 /\ variables[n] \in Values
  BY <1>1, DocumentAssumption DEF Value, Values
<1>5. DOMAIN published = {} /\ Len(steps) = 0 /\ DOMAIN steps = {}
  BY <1>1
<1>6. /\ steps \in Seq(StepReports) /\ summaries \in Seq(Statuses) /\ hooked \in Seq(1..MaxSteps)
  BY <1>1, EmptySeq
<1>7. doc \in [status : Statuses \cup {"none"}, codes : SUBSET Nat] /\ doc.status = "none"
  BY <1>1
<1>8. InitialNames \subseteq Names /\ IsFiniteSet(InitialNames)
  BY DocumentAssumption
<1>9. mode \in {"test", "lint", "plan", "list"} /\ opts \in [fail_fast : BOOLEAN, offline : BOOLEAN]
  BY DEF Init
<1>10. Len(steps) <= Len(plan) /\ Len(plan) <= MaxSteps
  BY <1>2, <1>3, <1>5, DocumentAssumption
<1>11. TypeInv
  BY <1>1, <1>3, <1>4, <1>5, <1>6, <1>7, <1>8, <1>9, <1>10, FreshType DEF TypeInv, TypeOK
<1>12. PlaceInv
  BY <1>1, <1>4, <1>5, <1>7 DEF PlaceInv, Handing
<1>13. VarInv /\ CurInv /\ CaptureInv /\ FailInv
  BY <1>1, <1>4, <1>5, FreshType DEF VarInv, CurInv, CaptureInv, FailInv
<1> QED
  BY <1>11, <1>12, <1>13 DEF IInv

(* Every step of process_document_with_hook keeps IInv.                     *)
LEMMA NextInv ==
    ASSUME IInv, [Next]_vars
    PROVE  IInv'
<1>1. CASE \E code \in {102, 201, 304, 312, 500, 700} : PlanFails({code})
  BY <1>1, PlanFailsStep
<1>2. CASE PlanReport
  <2> DEFINE status == IF mode = "lint" THEN "passed" ELSE "planned"
  <2>1. pc = "plan" /\ mode # "test" /\ ReportAll(status, {}, status)
    BY <1>2 DEF PlanReport
  <2>2. status \in Statuses
    BY DEF Statuses
  <2> HIDE DEF status
  <2> QED
    BY <2>1, <2>2, ReportAllStep
<1>3. CASE OfflineDenied
  <2>1. pc = "plan" /\ ReportAll("skipped", {302}, "error")
    BY <1>3 DEF OfflineDenied
  <2>2. "skipped" \in Statuses /\ "error" \in Statuses /\ {302} \in SUBSET Nat
        /\ IsFailure("error")
    BY DEF Statuses, IsFailure
  <2> QED
    BY <2>1, <2>2, ReportAllStep
<1>4. CASE StartDocument
  BY <1>4, StartDocumentStep
<1>5. CASE \E error \in {{}, {402}} : Render(error)
  BY <1>5, RenderStep
<1>6. CASE \E code \in {304, 308, 310, 600} : RunFails(code)
  BY <1>6, RunFailsStep
<1>7. CASE \E exit \in {{}, {309}, {310}, {311}} : RunReturns(exit)
  BY <1>7, RunReturnsStep
<1>8. CASE \E result \in {"true", "false", "error"} : Check(result)
  BY <1>8, CheckStep
<1>9. CASE EndChecks
  BY <1>9, EndChecksStep
<1>10. CASE \E code \in {501, 503, 700} : CaptureFails(code)
  BY <1>10, CaptureFailsStep
<1>11. CASE \E keys \in Objects, tainted \in BOOLEAN : CaptureObject(keys, tainted)
  BY <1>11, CaptureObjectStep
<1>12. CASE Publish
  BY <1>12, PublishStep
<1>13. CASE FinishDocument
  BY <1>13, FinishDocumentStep
<1>14. CASE Done \/ UNCHANGED vars
  <2>1. UNCHANGED vars
    BY <1>14 DEF Done
  <2>2. Idx' = Idx /\ Step' = Step
    BY <2>1 DEF vars, Idx, Step
  <2>3. TypeInv' /\ PlaceInv' /\ VarInv' /\ CaptureInv' /\ FailInv'
    BY <2>1 DEF vars, IInv, TypeInv, TypeOK, PlaceInv, VarInv, CaptureInv, FailInv, Handing,
                Unsafe, RanClean
  <2>4. CurInv'
    BY <2>1, <2>2 DEF vars, IInv, CurInv, RanClean, Unsafe
  <2> QED
    BY <2>3, <2>4 DEF IInv
<1> QED
  BY <1>1, <1>2, <1>3, <1>4, <1>5, <1>6, <1>7, <1>8, <1>9, <1>10, <1>11, <1>12, <1>13, <1>14
  DEF Next

(* IInv holds in every state of every document's execution.                 *)
THEOREM Inductive == Spec => []IInv
BY InitInv, NextInv, PTL DEF Spec

(* The variables of process_document_with_hook keep their types.            *)
THEOREM TypeCorrect == Spec => []TypeOK
<1>1. IInv => TypeOK
  BY DEF IInv, TypeInv
<1> QED
  BY Inductive, <1>1, PTL

(* publish_captures is all or nothing: a passed step has published every key *)
(* it captured, another step none, and a tainted process none.              *)
THEOREM CapturesCorrect == Spec => []CapturesAllOrNothing
<1>1. IInv => CapturesAllOrNothing
  BY DEF IInv, CaptureInv, VarInv, Unsafe, CapturesAllOrNothing
<1> QED
  BY Inductive, <1>1, PTL

(* Exit status 0 of `mdok test`, `call`, `record` or `replay` means that all *)
(* planned steps ran and all of their checks were evaluated to true.        *)
THEOREM ExitZeroCorrect == Spec => []ExitZeroMeansVerified
<1>1. IInv => ExitZeroMeansVerified
  <2>1. SUFFICES ASSUME IInv, pc = "done", mode = "test",
                        EXIT_OK \in {ExitCode, InvocationExitCode(Codes, doc.status)}
                 PROVE  /\ Len(steps) = Len(plan)
                        /\ \A i \in DOMAIN steps :
                             /\ steps[i].status = "passed"
                             /\ steps[i].checks = [k \in 1..plan[i].checks |-> "true"]
    BY DEF ExitZeroMeansVerified
  <2>2. ~IsFailure(doc.status)
    <3>1. CASE IsFailure(doc.status)
      <4>1. HasFailures
        BY <3>1 DEF HasFailures
      <4>2. ExitCode # EXIT_OK
        BY <4>1 DEF ExitCode, ReportExitCode, EXIT_OK, EXIT_POLICY, EXIT_INPUT, EXIT_CHECK_FAILED
      <4>3. InvocationExitCode(Codes, doc.status) # EXIT_OK
        BY <3>1 DEF InvocationExitCode, EXIT_OK, EXIT_POLICY, EXIT_INPUT, EXIT_CHECK_FAILED
      <4> QED
        BY <2>1, <4>2, <4>3
    <3> QED
      BY <3>1
  <2>3. Len(steps) = Len(plan) /\ \A i \in DOMAIN steps : steps[i].status = "passed"
    BY <2>1, <2>2 DEF IInv, FailInv
  <2> QED
    BY <2>1, <2>3 DEF IInv, CaptureInv, RanClean
<1> QED
  BY Inductive, <1>1, PTL

-----------------------------------------------------------------------------
(* The types of the library's variables: what a capture evaluates to and     *)
(* what a step leaves behind.                                                *)
Answers == {Library!NotObject} \cup {Library!Object(f) : f \in Library!Maps(Keys \cup {BadKey})}
StepResults == [passed : BOOLEAN, captures : Library!Maps(Keys)]

LibraryTypes ==
    /\ rOverride \in BOOLEAN /\ rInitial \in Library!Maps(Keys)
    /\ Library!TypeOK
    /\ rStep_summaries \in Seq(BOOLEAN)
    /\ rEvaluated \in Seq(Answers) /\ rResults \in Seq(StepResults)

(* A snapshot that is kept is one of the variables as they are.              *)
SnapshotInv == rVariables_json # <<>> => rVariables_json[1] = rVariables

LibraryInv ==
    /\ LibraryTypes /\ SnapshotInv /\ ContextIsCurrent
    /\ rPc # "returned" => rResult = "none"

-----------------------------------------------------------------------------
(* A non-empty set of natural numbers has a least element.                   *)
LEMMA LeastOf ==
    ASSUME NEW T, T \subseteq Nat, T # {}
    PROVE  \E x \in T : \A y \in T : x <= y
<1> DEFINE R == OpToRel(<, Nat)
<1>1. IsWellFoundedOn(R, Nat)
  BY NatLessThanWellFounded
<1>2. \A a, b \in Nat : a < b => <<a, b>> \in R
  BY DEF OpToRel
<1> HIDE DEF R
<1>3. PICK x \in T : \A y \in T : ~(<<y, x>> \in R)
  BY <1>1, WFMin
<1>4. ASSUME NEW y \in T PROVE x <= y
  <2>1. y \in Nat /\ x \in Nat
    BY <1>3
  <2>2. ~(y < x)
    BY <1>2, <1>3, <2>1
  <2> QED
    BY <2>1, <2>2
<1> QED
  BY <1>4

(* Of positions in a sequence there is a last one.                           *)
LEMMA LastIs ==
    ASSUME NEW n \in Nat, NEW S, S \subseteq 1..n, S # {}
    PROVE  Library!Last(S) \in S /\ \A j \in S : j <= Library!Last(S)
<1> DEFINE T == {n - i : i \in S}
<1>1. \A i \in S : i \in Nat /\ n - i \in Nat
  OBVIOUS
<1>2. PICK x \in T : \A y \in T : x <= y
  <2>1. T \subseteq Nat
    BY <1>1
  <2>2. T # {}
    OBVIOUS
  <2> HIDE DEF T
  <2> QED
    BY <2>1, <2>2, LeastOf
<1>3. PICK i \in S : x = n - i
  BY <1>2
<1>4. \A j \in S : j <= i
  <2> SUFFICES ASSUME NEW j \in S PROVE j <= i
    OBVIOUS
  <2>1. n - i <= n - j
    BY <1>2, <1>3
  <2> QED
    BY <1>1, <2>1
<1> QED
  BY <1>4 DEF Library!Last

(* A position that is added at the end is the last.                          *)
LEMMA LastAdded ==
    ASSUME NEW n \in Nat, NEW S, S \subseteq 1..n
    PROVE  Library!Last(S \cup {n + 1}) = n + 1
<1>1. S \cup {n + 1} \subseteq 1..(n + 1)
  OBVIOUS
<1> DEFINE T == S \cup {n + 1}
           k == Library!Last(T)
<1>2. n + 1 \in Nat /\ n + 1 \in T
  OBVIOUS
<1>3. T # {}
  BY <1>2
<1> HIDE DEF T
<1>4. k \in T /\ n + 1 <= k
  BY <1>1, <1>2, <1>3, LastIs DEF T
<1>5. k = n + 1 \/ k \in 1..n
  BY <1>4 DEF T
<1> HIDE DEF k
<1>6. k = n + 1
  BY <1>4, <1>5
<1> QED
  BY <1>6 DEF k, T

(* A map is a function from some of the keys.                                *)
LEMMA MapsAre ==
    ASSUME NEW K, NEW f
    PROVE  f \in Library!Maps(K) <=> DOMAIN f \subseteq K /\ f \in [DOMAIN f -> JsonValues]
<1>1. ASSUME f \in Library!Maps(K)
      PROVE  DOMAIN f \subseteq K /\ f \in [DOMAIN f -> JsonValues]
  <2>1. PICK D \in SUBSET K : f \in [D -> JsonValues]
    BY <1>1 DEF Library!Maps
  <2> QED
    BY <2>1
<1>2. ASSUME DOMAIN f \subseteq K, f \in [DOMAIN f -> JsonValues]
      PROVE  f \in Library!Maps(K)
  BY <1>2 DEF Library!Maps
<1> QED
  BY <1>1, <1>2

-----------------------------------------------------------------------------
(* What collect_captures accepts has names for keys, and without             *)
(* allow_capture_override none that a variable has.                          *)
LEMMA PendingIs ==
    ASSUME LibraryTypes, Library!Refused = {}
    PROVE  /\ Library!Pending \in Library!Maps(Keys)
           /\ ~rOverride => DOMAIN Library!Pending \cap DOMAIN rVariables = {}
<1> DEFINE n == Len(rEvaluated)
<1>1. n \in Nat /\ DOMAIN rEvaluated = 1..n /\ \A i \in 1..n : rEvaluated[i] \in Answers
  BY DEF LibraryTypes
<1>2. ASSUME NEW i \in 1..n
      PROVE  /\ DOMAIN rEvaluated[i].map \subseteq Keys
             /\ rEvaluated[i].map \in [DOMAIN rEvaluated[i].map -> JsonValues]
             /\ ~rOverride => DOMAIN rEvaluated[i].map \cap DOMAIN rVariables = {}
  <2>1. i \notin Library!Refused
    OBVIOUS
  <2>2. /\ rEvaluated[i] # Library!NotObject /\ BadKey \notin DOMAIN rEvaluated[i].map
        /\ ~rOverride => DOMAIN rEvaluated[i].map \cap DOMAIN rVariables = {}
    BY <1>1, <2>1 DEF Library!Refused
  <2>3. PICK f \in Library!Maps(Keys \cup {BadKey}) : rEvaluated[i] = Library!Object(f)
    BY <1>1, <2>2 DEF Answers
  <2>4. rEvaluated[i].map = f
    BY <2>3 DEF Library!Object
  <2>5. DOMAIN f \subseteq Keys \cup {BadKey} /\ f \in [DOMAIN f -> JsonValues]
    BY MapsAre
  <2> QED
    BY <2>2, <2>4, <2>5
<1> DEFINE D == UNION {DOMAIN rEvaluated[i].map : i \in DOMAIN rEvaluated}
<1>3. ASSUME NEW key \in D
      PROVE  rEvaluated[Library!Last(Library!Holding(key))].map[key] \in JsonValues
  <2>1. Library!Holding(key) \subseteq 1..n /\ Library!Holding(key) # {}
    BY <1>1 DEF Library!Holding
  <2>2. Library!Last(Library!Holding(key)) \in Library!Holding(key)
    BY <1>1, <2>1, LastIs
  <2> QED
    BY <1>1, <1>2, <2>2 DEF Library!Holding
<1>4. DOMAIN Library!Pending = D /\ Library!Pending \in [D -> JsonValues]
  BY <1>3 DEF Library!Pending
<1>5. D \subseteq Keys /\ (~rOverride => D \cap DOMAIN rVariables = {})
  BY <1>1, <1>2
<1> HIDE DEF D
<1>6. Library!Pending \in Library!Maps(Keys)
  BY <1>4, <1>5, MapsAre
<1> QED
  BY <1>4, <1>5, <1>6

(* A step's captures go over what the steps before it left.                  *)
LEMMA LeftGrows ==
    ASSUME rResults \in Seq(StepResults), rInitial \in Library!Maps(Keys),
           NEW p \in BOOLEAN, NEW m \in Library!Maps(Keys),
           rResults' = Append(rResults, Library!Result(p, m)), rInitial' = rInitial
    PROVE  Library!Left' = Library!Over(Library!Left, m)
<1> DEFINE n == Len(rResults)
<1>1. /\ n \in Nat /\ DOMAIN rResults = 1..n /\ DOMAIN rResults' = 1..(n + 1)
      /\ \A i \in 1..n : rResults'[i] = rResults[i]
      /\ rResults'[n + 1].captures = m
  <2>1. Library!Result(p, m) \in StepResults /\ Library!Result(p, m).captures = m
    BY DEF StepResults, Library!Result
  <2> QED
    BY <2>1, AppendProperties, LenProperties
<1>2. ASSUME NEW key
      PROVE  Library!Writing(key)' = IF key \in DOMAIN m THEN Library!Writing(key) \cup {n + 1}
                                     ELSE Library!Writing(key)
  <2>1. Library!Writing(key)' = {i \in 1..(n + 1) : key \in DOMAIN rResults'[i].captures}
    BY <1>1 DEF Library!Writing
  <2>2. Library!Writing(key) = {i \in 1..n : key \in DOMAIN rResults[i].captures}
    BY <1>1 DEF Library!Writing
  <2>3. 1..(n + 1) = 1..n \cup {n + 1}
    BY <1>1
  <2> QED
    BY <1>1, <2>1, <2>2, <2>3
<1>3. \A key : Library!Writing(key) \subseteq 1..n
  BY <1>1 DEF Library!Writing
<1> DEFINE D == DOMAIN rInitial \cup UNION {DOMAIN rResults[i].captures : i \in DOMAIN rResults}
           V(key) == IF Library!Writing(key) = {} THEN rInitial[key]
                     ELSE rResults[Library!Last(Library!Writing(key))].captures[key]
           E == DOMAIN rInitial \cup UNION {DOMAIN rResults'[i].captures : i \in DOMAIN rResults'}
           W(key) == IF Library!Writing(key)' = {} THEN rInitial[key]
                     ELSE rResults'[Library!Last(Library!Writing(key)')].captures[key]
<1>4. E = D \cup DOMAIN m
  <2>1. ASSUME NEW key \in E PROVE key \in D \cup DOMAIN m
    <3>1. CASE key \in DOMAIN rInitial
      BY <3>1
    <3>2. CASE \E i \in DOMAIN rResults' : key \in DOMAIN rResults'[i].captures
      <4>1. PICK i \in 1..(n + 1) : key \in DOMAIN rResults'[i].captures
        BY <1>1, <3>2
      <4>2. CASE i \in 1..n
        BY <1>1, <4>1, <4>2
      <4>3. CASE i = n + 1
        BY <1>1, <4>1, <4>3
      <4> QED
        BY <1>1, <4>2, <4>3
    <3> QED
      BY <3>1, <3>2
  <2>2. ASSUME NEW key \in D PROVE key \in E
    BY <1>1
  <2>3. ASSUME NEW key \in DOMAIN m PROVE key \in E
    <3>1. n + 1 \in DOMAIN rResults'
      BY <1>1
    <3> QED
      BY <1>1, <3>1
  <2> HIDE DEF D, E
  <2> QED
    BY <2>1, <2>2, <2>3
<1>5. ASSUME NEW key
      PROVE  W(key) = IF key \in DOMAIN m THEN m[key] ELSE V(key)
  <2>1. CASE key \in DOMAIN m
    <3>1. Library!Writing(key)' = Library!Writing(key) \cup {n + 1}
      BY <1>2, <2>1
    <3>2. Library!Last(Library!Writing(key) \cup {n + 1}) = n + 1
      BY <1>1, <1>3, LastAdded
    <3> QED
      BY <1>1, <2>1, <3>1, <3>2
  <2>2. CASE key \notin DOMAIN m
    <3>1. Library!Writing(key)' = Library!Writing(key)
      BY <1>2, <2>2
    <3>2. Library!Writing(key) # {} =>
             Library!Last(Library!Writing(key)) \in Library!Writing(key)
      BY <1>1, <1>3, LastIs
    <3> QED
      BY <1>1, <1>3, <2>2, <3>1, <3>2
  <2> QED
    BY <2>1, <2>2
<1>6. Library!Left = [key \in D |-> V(key)]
  BY DEF Library!Left
<1>7. Library!Left' = [key \in E |-> W(key)]
  BY DEF Library!Left
<1> HIDE DEF D, E, V, W
<1> QED
  BY <1>4, <1>5, <1>6, <1>7 DEF Library!Over

-----------------------------------------------------------------------------
(* Nothing is captured and no snapshot taken at the start.                   *)
LEMMA LibraryInitInv == Library!Init => LibraryInv
<1> SUFFICES ASSUME Library!Init PROVE LibraryInv
  OBVIOUS
<1>1. /\ rOverride \in BOOLEAN /\ rInitial \in Library!Maps(Keys) /\ rVariables = rInitial
      /\ rVariables_json = <<>> /\ rStep_summaries = <<>> /\ rEvaluated = <<>>
      /\ rResults = <<>> /\ rPc = "step" /\ rSeen = rInitial /\ rResult = "none"
  BY DEF Library!Init
<1>2. LibraryTypes
  BY <1>1, EmptySeq DEF LibraryTypes, Library!TypeOK
<1>3. DOMAIN rResults = {} /\ DOMAIN rStep_summaries = {} /\ Len(rResults) = 0
      /\ Len(rStep_summaries) = 0
  BY <1>1
<1>4. rVariables = Library!Left
  <2>1. rInitial = [key \in DOMAIN rInitial |-> rInitial[key]]
    BY <1>1, MapsAre
  <2>2. \A key : Library!Writing(key) = {}
    BY <1>3 DEF Library!Writing
  <2> QED
    BY <1>1, <1>3, <2>1, <2>2 DEF Library!Left
<1>5. ContextIsCurrent
  BY <1>1, <1>3, <1>4 DEF ContextIsCurrent, Library!ContextIsCurrent
<1> QED
  BY <1>1, <1>2, <1>5 DEF LibraryInv, SnapshotInv

(* Steps that record no result and change neither the variables nor the      *)
(* position past the checks.                                                 *)
LEMMA LibraryKeeps ==
    ASSUME LibraryInv, LibraryTypes',
           UNCHANGED <<rOverride, rInitial, rVariables, rStep_summaries, rResults>>,
           rVariables_json' \in {rVariables_json, <<rVariables>>},
           rPc' \in {"checks", "captures"} => rSeen' = rVariables,
           rPc' # "returned" => rResult' = "none",
           rResult' = "failed" <=> rResult = "failed"
    PROVE  LibraryInv'
<1>1. SnapshotInv'
  BY DEF LibraryInv, SnapshotInv
<1>2. Library!Left' = Library!Left
  BY DEF Library!Left, Library!Writing
<1>3. ContextIsCurrent'
  BY <1>2 DEF LibraryInv, ContextIsCurrent, Library!ContextIsCurrent
<1> QED
  BY <1>1, <1>3 DEF LibraryInv

(* context_values gives the variables as they are: a step starts in a        *)
(* current context.                                                          *)
LEMMA StartStepStep ==
    ASSUME LibraryInv, Library!StartStep
    PROVE  LibraryInv'
<1>1. /\ rPc = "step" /\ rResult = "none"
      /\ UNCHANGED <<rOverride, rInitial, rVariables, rStep_summaries, rResults>>
  BY DEF Library!StartStep, Library!policy, LibraryInv
<1>2. Library!Snapshot = rVariables
  BY DEF Library!Snapshot, LibraryInv, SnapshotInv
<1>3. CASE /\ \E code \in {"E505", "curl", "body"} : Library!Return(code)
           /\ UNCHANGED <<rVariables_json, Library!step>>
  <2>1. rPc' = "returned" /\ rResult' # "failed" /\ UNCHANGED <<rVariables_json, rSeen, rEvaluated>>
    BY <1>3 DEF Library!Return, Library!step
  <2>2. LibraryTypes'
    BY <1>1, <2>1 DEF LibraryInv, LibraryTypes, Library!TypeOK
  <2> QED
    BY <1>1, <2>1, <2>2, LibraryKeeps
<1>4. CASE /\ rSeen' = Library!Snapshot /\ rVariables_json' = <<Library!Snapshot>>
           /\ rEvaluated' = <<>> /\ Library!GoTo("checks")
  <2>1. /\ rSeen' = rVariables /\ rVariables_json' = <<rVariables>> /\ rEvaluated' = <<>>
        /\ rPc' = "checks" /\ rResult' = "none"
    BY <1>1, <1>2, <1>4 DEF Library!GoTo
  <2>2. rEvaluated' \in Seq(Answers)
    BY <2>1, EmptySeq
  <2>3. LibraryTypes'
    BY <1>1, <2>1, <2>2 DEF LibraryInv, LibraryTypes, Library!TypeOK
  <2> QED
    BY <1>1, <2>1, <2>3, LibraryKeeps
<1> QED
  BY <1>3, <1>4 DEF Library!StartStep

(* A step whose checks fail is recorded, captures nothing and is the last.   *)
LEMMA ChecksEndStep ==
    ASSUME LibraryInv, Library!ChecksEnd
    PROVE  LibraryInv'
<1>1. /\ rPc = "checks" /\ rResult = "none"
      /\ UNCHANGED <<rOverride, rInitial, rVariables, rVariables_json, rSeen, rEvaluated>>
  BY DEF Library!ChecksEnd, Library!policy, Library!step, LibraryInv
<1>2. CASE rCheck_failure = "none"
  <2>1. /\ rPc' = "captures" /\ rResult' = "none" /\ UNCHANGED <<rStep_summaries, rResults>>
    BY <1>1, <1>2 DEF Library!ChecksEnd, Library!GoTo
  <2>2. LibraryTypes'
    BY <1>1, <2>1 DEF LibraryInv, LibraryTypes, Library!TypeOK
  <2>3. rSeen' = rVariables
    BY <1>1 DEF LibraryInv, ContextIsCurrent, Library!ContextIsCurrent
  <2> QED
    BY <1>1, <2>1, <2>2, <2>3, LibraryKeeps
<1>3. CASE rCheck_failure # "none"
  <2> DEFINE m == Library!NoCaptures
  <2>1. /\ rPc' = "returned" /\ rResult' = "failed"
        /\ rStep_summaries' = Append(rStep_summaries, FALSE)
        /\ rResults' = Append(rResults, Library!Result(FALSE, m))
    BY <1>1, <1>3 DEF Library!ChecksEnd, Library!Return
  <2>2. m \in Library!Maps(Keys) /\ DOMAIN m = {}
    <3>1. DOMAIN m = {} /\ m \in [{} -> JsonValues]
      BY DEF Library!NoCaptures
    <3> QED
      BY <3>1, MapsAre
  <2> HIDE DEF m
  <2>3. /\ rStep_summaries \in Seq(BOOLEAN) /\ rResults \in Seq(StepResults)
        /\ rInitial \in Library!Maps(Keys) /\ rVariables \in Library!Maps(Keys)
        /\ rVariables = Library!Left
    BY DEF LibraryInv, LibraryTypes, Library!TypeOK, ContextIsCurrent, Library!ContextIsCurrent
  <2>4. Library!Result(FALSE, m) \in StepResults
    BY <2>2 DEF StepResults, Library!Result
  <2>5. /\ rStep_summaries' \in Seq(BOOLEAN) /\ Len(rStep_summaries') = Len(rStep_summaries) + 1
        /\ \A i \in 1..Len(rStep_summaries) : rStep_summaries'[i] = rStep_summaries[i]
        /\ rStep_summaries'[Len(rStep_summaries) + 1] = FALSE
    BY <2>1, <2>3, AppendProperties
  <2>6. rResults' \in Seq(StepResults) /\ Len(rResults') = Len(rResults) + 1
    BY <2>1, <2>3, <2>4, AppendProperties
  <2>7. Library!Left' = Library!Over(Library!Left, m)
    BY <1>1, <2>1, <2>2, <2>3, LeftGrows
  <2>8. Library!Over(rVariables, m) = rVariables
    <3>1. rVariables = [key \in DOMAIN rVariables |-> rVariables[key]]
      BY <2>3, MapsAre
    <3> QED
      BY <2>2, <3>1 DEF Library!Over
  <2>9. rVariables' = Library!Left'
    BY <1>1, <2>3, <2>7, <2>8
  <2>10. Len(rStep_summaries) = Len(rResults) /\ \A i \in 1..Len(rResults) : rStep_summaries[i]
    BY <1>1, <2>3, LenProperties DEF LibraryInv, ContextIsCurrent, Library!ContextIsCurrent
  <2>11. \A i \in DOMAIN rStep_summaries' : rStep_summaries'[i] <=> i < Len(rResults')
    <3> SUFFICES ASSUME NEW i \in 1..(Len(rResults) + 1)
                 PROVE  rStep_summaries'[i] <=> i < Len(rResults) + 1
      BY <2>5, <2>6, <2>10, LenProperties
    <3>1. CASE i = Len(rResults) + 1
      BY <2>3, <2>5, <2>10, <3>1, LenProperties
    <3>2. CASE i \in 1..Len(rResults)
      BY <2>3, <2>5, <2>10, <3>2, LenProperties
    <3> QED
      BY <2>3, <3>1, <3>2, LenProperties
  <2>12. ContextIsCurrent'
    BY <1>1, <2>1, <2>5, <2>6, <2>9, <2>10, <2>11
    DEF LibraryInv, ContextIsCurrent, Library!ContextIsCurrent
  <2>13. LibraryTypes'
    BY <1>1, <2>1, <2>5, <2>6 DEF LibraryInv, LibraryTypes, Library!TypeOK
  <2> QED
    BY <1>1, <2>1, <2>12, <2>13 DEF LibraryInv, SnapshotInv
<1> QED
  BY <1>2, <1>3

(* One more check or capture is evaluated, or the document ends.             *)
LEMMA EvaluateStep ==
    ASSUME LibraryInv, Library!Check \/ Library!Evaluate \/ Library!EndDocument
    PROVE  LibraryInv'
<1>1. /\ rPc # "returned" /\ rResult = "none"
      /\ UNCHANGED <<rOverride, rInitial, rVariables, rVariables_json, rStep_summaries, rSeen,
                     rResults>>
  BY DEF Library!Check, Library!Evaluate, Library!EndDocument, Library!policy, Library!step,
         LibraryInv
<1>2. /\ rPc' \in {"step", "checks", "captures", "returned"} /\ rResult' # "failed"
      /\ rPc' # "returned" => rResult' = "none"
      /\ rPc' \in {"checks", "captures"} => rPc' = rPc
  BY <1>1 DEF Library!Check, Library!Evaluate, Library!EndDocument, Library!Return, Library!GoTo,
              LibraryInv, LibraryTypes, Library!TypeOK
<1>3. rEvaluated' \in Seq(Answers)
  <2>1. rEvaluated \in Seq(Answers)
    BY DEF LibraryInv, LibraryTypes
  <2>2. rEvaluated' = rEvaluated \/ \E v \in Answers : rEvaluated' = Append(rEvaluated, v)
    BY DEF Library!Check, Library!Evaluate, Library!EndDocument, Library!step, Answers
  <2> QED
    BY <2>1, <2>2, AppendProperties
<1>4. LibraryTypes'
  BY <1>1, <1>2, <1>3 DEF LibraryInv, LibraryTypes, Library!TypeOK
<1>5. rPc' \in {"checks", "captures"} => rSeen' = rVariables
  BY <1>1, <1>2 DEF LibraryInv, ContextIsCurrent, Library!ContextIsCurrent
<1> QED
  BY <1>1, <1>2, <1>4, <1>5, LibraryKeeps

(* A step that passes commits its captures and drops the snapshot, or fails  *)
(* over them and changes nothing.                                            *)
LEMMA CommitStep ==
    ASSUME LibraryInv, Library!EndStep
    PROVE  LibraryInv'
<1>1. /\ rPc = "captures" /\ rResult = "none"
      /\ UNCHANGED <<rOverride, rInitial, rSeen, rEvaluated>>
  BY DEF Library!EndStep, Library!policy, Library!step, LibraryInv
<1>2. CASE Library!Refused # {}
  <2>1. /\ rPc' = "returned" /\ rResult' = Library!CollectError
        /\ UNCHANGED <<rVariables, rVariables_json, rStep_summaries, rResults>>
    BY <1>1, <1>2 DEF Library!EndStep, Library!Return
  <2>2. rResult' # "failed"
    BY <2>1 DEF Library!CollectError
  <2>3. LibraryTypes'
    BY <1>1, <2>1 DEF LibraryInv, LibraryTypes, Library!TypeOK
  <2> QED
    BY <1>1, <2>1, <2>2, <2>3, LibraryKeeps
<1>3. CASE Library!Refused = {}
  <2> DEFINE m == Library!Pending
  <2>1. /\ rPc' = "step" /\ rResult' = "none"
        /\ rVariables' = Library!Over(rVariables, m) /\ rVariables_json' = <<>>
        /\ rStep_summaries' = Append(rStep_summaries, TRUE)
        /\ rResults' = Append(rResults, Library!Result(TRUE, m))
    BY <1>1, <1>3 DEF Library!EndStep, Library!GoTo, Library!CommitCaptures
  <2>2. m \in Library!Maps(Keys) /\ (~rOverride => DOMAIN m \cap DOMAIN rVariables = {})
    BY <1>3, PendingIs DEF LibraryInv
  <2> HIDE DEF m
  <2>3. /\ rStep_summaries \in Seq(BOOLEAN) /\ rResults \in Seq(StepResults)
        /\ rInitial \in Library!Maps(Keys) /\ rVariables \in Library!Maps(Keys)
        /\ rVariables = Library!Left
    BY DEF LibraryInv, LibraryTypes, Library!TypeOK, ContextIsCurrent, Library!ContextIsCurrent
  <2>4. Library!Result(TRUE, m) \in StepResults
    BY <2>2 DEF StepResults, Library!Result
  <2>5. /\ rStep_summaries' \in Seq(BOOLEAN) /\ Len(rStep_summaries') = Len(rStep_summaries) + 1
        /\ \A i \in 1..Len(rStep_summaries) : rStep_summaries'[i] = rStep_summaries[i]
        /\ rStep_summaries'[Len(rStep_summaries) + 1] = TRUE
    BY <2>1, <2>3, AppendProperties
  <2>6. rResults' \in Seq(StepResults) /\ Len(rResults') = Len(rResults) + 1
    BY <2>1, <2>3, <2>4, AppendProperties
  <2>7. rVariables' = Library!Left'
    <3>1. Library!Left' = Library!Over(Library!Left, m)
      BY <1>1, <2>1, <2>2, <2>3, LeftGrows
    <3> QED
      BY <2>1, <2>3, <3>1
  <2>8. /\ rVariables' \in Library!Maps(Keys)
        /\ \A key \in DOMAIN rVariables \ DOMAIN m : rVariables'[key] = rVariables[key]
    <3>1. /\ DOMAIN rVariables \subseteq Keys /\ rVariables \in [DOMAIN rVariables -> JsonValues]
          /\ DOMAIN m \subseteq Keys /\ m \in [DOMAIN m -> JsonValues]
      BY <2>2, <2>3, MapsAre
    <3>2. /\ DOMAIN rVariables' = DOMAIN rVariables \cup DOMAIN m
          /\ rVariables' \in [DOMAIN rVariables \cup DOMAIN m -> JsonValues]
          /\ \A key \in DOMAIN rVariables \ DOMAIN m : rVariables'[key] = rVariables[key]
      BY <2>1, <3>1 DEF Library!Over
    <3> QED
      BY <3>1, <3>2, MapsAre
  <2>9. DOMAIN rInitial \subseteq DOMAIN rVariables
    BY <2>3 DEF Library!Left
  <2>10. ~rOverride => \A key \in DOMAIN rInitial : rVariables'[key] = rInitial[key]
    BY <2>2, <2>8, <2>9 DEF LibraryInv, ContextIsCurrent, Library!ContextIsCurrent
  <2>11. Len(rStep_summaries) = Len(rResults) /\ \A i \in 1..Len(rResults) : rStep_summaries[i]
    BY <1>1, <2>3, LenProperties DEF LibraryInv, ContextIsCurrent, Library!ContextIsCurrent
  <2>12. \A i \in DOMAIN rStep_summaries' : rStep_summaries'[i]
    <3> SUFFICES ASSUME NEW i \in 1..(Len(rResults) + 1) PROVE rStep_summaries'[i]
      BY <2>5, <2>6, <2>11, LenProperties
    <3>1. CASE i = Len(rResults) + 1
      BY <2>3, <2>5, <2>11, <3>1, LenProperties
    <3>2. CASE i \in 1..Len(rResults)
      BY <2>3, <2>5, <2>11, <3>2, LenProperties
    <3> QED
      BY <2>3, <3>1, <3>2, LenProperties
  <2>13. ContextIsCurrent'
    BY <1>1, <2>1, <2>5, <2>6, <2>7, <2>10, <2>11, <2>12
    DEF ContextIsCurrent, Library!ContextIsCurrent
  <2>14. LibraryTypes'
    BY <1>1, <2>1, <2>5, <2>6, <2>8 DEF LibraryInv, LibraryTypes, Library!TypeOK
  <2> QED
    BY <2>1, <2>13, <2>14 DEF LibraryInv, SnapshotInv
<1> QED
  BY <1>2, <1>3

(* Every step of execute_with_cancel keeps the invariant.                    *)
LEMMA LibraryNextInv == LibraryInv /\ [Library!Next]_Library!vars => LibraryInv'
<1> SUFFICES ASSUME LibraryInv, [Library!Next]_Library!vars PROVE LibraryInv'
  OBVIOUS
<1>1. CASE UNCHANGED Library!vars
  <2>1. UNCHANGED <<rOverride, rInitial, rVariables, rVariables_json, rStep_summaries, rPc, rSeen,
                    rEvaluated, rResults, rResult>>
    BY <1>1 DEF Library!vars
  <2>2. LibraryTypes'
    BY <2>1 DEF LibraryInv, LibraryTypes, Library!TypeOK
  <2>3. rPc' \in {"checks", "captures"} => rSeen' = rVariables
    BY <2>1 DEF LibraryInv, ContextIsCurrent, Library!ContextIsCurrent
  <2> QED
    BY <2>1, <2>2, <2>3, LibraryKeeps DEF LibraryInv
<1> QED
  BY <1>1, StartStepStep, ChecksEndStep, EvaluateStep, CommitStep DEF Library!Next, Library!Done

(* LibraryInv holds for every plan, policy and answer.                       *)
THEOREM LibraryInductive == Library!Spec => []LibraryInv
BY LibraryInitInv, LibraryNextInv, PTL DEF Library!Spec

(* ContextIsCurrent: the context of every step has the variables as the      *)
(* steps before it left them, for any number of steps, checks, captures and  *)
(* keys, although execute_with_cancel keeps a snapshot across steps.         *)
THEOREM ContextCorrect == Library!Spec => []ContextIsCurrent
<1>1. LibraryInv => ContextIsCurrent
  BY DEF LibraryInv
<1> QED
  BY LibraryInductive, <1>1, PTL

-----------------------------------------------------------------------------
(* The items of a document of the Go port.                                   *)
GoItems ==
    [kind : {"curl"}, url : Go!Hosts \cup {"templated"}, bad : Go!Bads]
    \cup [kind : {"check"}, step : Nat, bad : Go!Bads]
    \cup [kind : {"capture"}, step : Nat, sets : BOOLEAN, bad : Go!Bads]

(* The requests before item n.                                               *)
Before(n) == {j \in Go!Requests : j < n}

(* The first n requests were made, and shown as passed; nothing failed.      *)
Verified(n) ==
    /\ gTransfers = 1..n /\ gOwners = {}
    /\ gArrays \in Seq([cap : Nat, elems : Seq({"passed"})]) /\ gArrays # <<>>
    /\ Len(Go!Current.elems) = n

(* The variables have their types, and the phase fits the mode.              *)
GoTypes ==
    /\ gMode \in {"lint", "test"} /\ gItems \in Seq(GoItems) /\ gHost \in Go!Hosts \cup {"unset"}
    /\ gPc \in {"parse", "lint", "test", "run", "finalize", "report", "exited"}
    /\ gPc = "lint" => gMode = "lint"
    /\ gPc \in {"test", "run", "finalize"} => gMode = "test"
    /\ gSent \subseteq {"allowed"}

(* Only a document without findings runs.                                    *)
ItemsInv ==
    gPc = "run" => /\ gK \in 1..(Len(gItems) + 1)
                   /\ \A i \in 1..Len(gItems) : gItems[i].bad = "none"

(* As long as a tested document has not failed, everything it has come past  *)
(* is verified.                                                              *)
PassedInv ==
    /\ gPc \in {"parse", "lint", "test"} => gK = 1 /\ Verified(0)
    /\ gResult.status = "passed" =>
         /\ gPc = "run" => Verified(Cardinality(Before(gK)))
         /\ gPc \in {"finalize", "report", "exited"} /\ gMode = "test" =>
              Verified(Cardinality(Go!Requests))

GoDocInv == GoTypes /\ ItemsInv /\ PassedInv

-----------------------------------------------------------------------------
(* There is one cardinality.                                                 *)
LEMMA OneCardinality ==
    ASSUME NEW S
    PROVE  Go!Cardinality(S) = Cardinality(S)
BY DEF Go!Cardinality, Cardinality

(* Requests are positions of items, and finitely many.                       *)
LEMMA RequestsFinite ==
    ASSUME gItems \in Seq(GoItems)
    PROVE  /\ Go!Requests \subseteq 1..Len(gItems)
           /\ IsFiniteSet(Go!Requests) /\ Cardinality(Go!Requests) \in Nat
           /\ \A n : IsFiniteSet(Before(n)) /\ Cardinality(Before(n)) \in Nat
<1>1. Go!Requests \subseteq 1..Len(gItems)
  BY DEF Go!Requests
<1>2. IsFiniteSet(1..Len(gItems))
  BY LenProperties, FS_Interval
<1>3. IsFiniteSet(Go!Requests)
  BY <1>1, <1>2, FS_Subset
<1>4. \A n : IsFiniteSet(Before(n))
  BY <1>3, FS_Subset DEF Before
<1> QED
  BY <1>1, <1>3, <1>4, FS_CardinalityType

(* Going past an item adds a request or leaves them as they are.             *)
LEMMA PastItem ==
    ASSUME gItems \in Seq(GoItems), gK \in 1..Len(gItems)
    PROVE  /\ gItems[gK].kind = "curl" =>
                /\ Cardinality(Before(gK + 1)) = Cardinality(Before(gK)) + 1
                /\ Go!StepOf(gK) = Cardinality(Before(gK)) + 1
           /\ gItems[gK].kind # "curl" => Before(gK + 1) = Before(gK)
<1>1. Go!Requests \subseteq 1..Len(gItems) /\ IsFiniteSet(Before(gK))
  BY RequestsFinite
<1>2. \A j \in Go!Requests : j \in Nat /\ (j < gK + 1 <=> j < gK \/ j = gK)
  BY <1>1
<1>3. CASE gItems[gK].kind = "curl"
  <2>1. gK \in Go!Requests
    BY <1>3 DEF Go!Requests
  <2>2. Before(gK + 1) = Before(gK) \cup {gK}
    BY <1>2, <2>1 DEF Before
  <2>3. gK \notin Before(gK)
    <3>1. ~(gK < gK)
      OBVIOUS
    <3> QED
      BY <3>1 DEF Before
  <2>4. Cardinality(Before(gK + 1)) = Cardinality(Before(gK)) + 1
    BY <1>1, <2>2, <2>3, FS_AddElement
  <2>5. {j \in Go!Requests : j <= gK} = Before(gK + 1)
    BY <1>2 DEF Before
  <2>6. Go!StepOf(gK) = Cardinality(Before(gK + 1))
    BY <2>5, OneCardinality DEF Go!StepOf
  <2> QED
    BY <1>3, <2>4, <2>6
<1>4. CASE gItems[gK].kind # "curl"
  <2>1. gK \notin Go!Requests
    BY <1>4 DEF Go!Requests
  <2>2. Before(gK + 1) = Before(gK)
    BY <1>2, <2>1 DEF Before
  <2> QED
    BY <1>4, <2>2
<1> QED
  BY <1>3, <1>4

(* append: the current array has the new element last.                       *)
LEMMA AppendIs ==
    ASSUME NEW n \in Nat, Verified(n), Go!AppendStep("passed"),
           gTransfers' = gTransfers \cup {n + 1}, gOwners' = gOwners
    PROVE  Verified(n + 1)'
<1> DEFINE A == [cap : Nat, elems : Seq({"passed"})]
           c == gArrays[Len(gArrays)]
           e == Append(c.elems, "passed")
<1>1. /\ gArrays \in Seq(A) /\ Len(gArrays) \in Nat /\ Len(gArrays) > 0
      /\ Len(gArrays) \in DOMAIN gArrays
  BY LenProperties DEF Verified
<1>2. c \in A /\ Len(c.elems) = n
  <2>1. c \in A
    <3> HIDE DEF A
    <3> QED
      BY <1>1, ElementOfSeq
  <2>2. Len(Go!Current.elems) = n /\ Go!Current = c
    BY DEF Verified, Go!Current
  <2> QED
    BY <2>1, <2>2
<1>3. c.cap \in Nat /\ c.elems \in Seq({"passed"})
  BY <1>2
<1>4. e \in Seq({"passed"}) /\ Len(e) = n + 1
  BY <1>2, <1>3, AppendProperties
<1> HIDE DEF c, e
<1>5. \A k \in Nat : Go!Array(k, e) \in A /\ Go!Array(k, e).elems = e
  BY <1>4 DEF Go!Array
<1> HIDE DEF A
<1>6. gArrays' = Go!Grown("passed")
  BY DEF Go!AppendStep
<1>7. gArrays' \in Seq(A) /\ gArrays' # <<>> /\ gArrays'[Len(gArrays')].elems = e
  <2>1. CASE Len(c.elems) < c.cap
    <3>1. gArrays' = [gArrays EXCEPT ![Len(gArrays)] = Go!Array(c.cap, e)]
      BY <1>6, <2>1 DEF Go!Grown, Go!Current, c, e
    <3>2. Go!Array(c.cap, e) \in A /\ Go!Array(c.cap, e).elems = e
      BY <1>3, <1>5
    <3> QED
      BY <1>1, <3>1, <3>2, ExceptSeq
  <2>2. CASE ~(Len(c.elems) < c.cap)
    <3> DEFINE k == IF c.cap = 0 THEN 1 ELSE 2 * c.cap
    <3>1. gArrays' = Append(gArrays, Go!Array(k, e))
      BY <1>6, <2>2 DEF Go!Grown, Go!Current, c, e
    <3>2. k \in Nat
      BY <1>3
    <3> HIDE DEF k
    <3>3. Go!Array(k, e) \in A /\ Go!Array(k, e).elems = e
      BY <1>5, <3>2
    <3> QED
      BY <1>1, <3>1, <3>3, AppendProperties
  <2> QED
    BY <2>1, <2>2
<1>8. Len(Go!Current'.elems) = n + 1
  BY <1>4, <1>7 DEF Go!Current
<1>9. gTransfers' = 1..(n + 1) /\ gOwners' = {}
  BY DEF Verified
<1> QED
  BY <1>7, <1>8, <1>9 DEF Verified, A

-----------------------------------------------------------------------------
(* Every document starts with nothing made and nothing failed.               *)
LEMMA Fresh ==
    ASSUME gTransfers = {}, gOwners = {}, gArrays = <<Go!Array(0, <<>>)>>
    PROVE  Verified(0)
<1>1. Go!Array(0, <<>>) \in [cap : Nat, elems : Seq({"passed"})]
  BY EmptySeq DEF Go!Array
<1>2. Go!Current.elems = <<>>
  BY DEF Go!Current, Go!Array
<1> QED
  BY <1>1, <1>2 DEF Verified

(* The first document is empty.                                              *)
LEMMA GoDocInit == Go!Init => GoDocInv
<1> SUFFICES ASSUME Go!Init PROVE GoDocInv
  OBVIOUS
<1>1. Verified(0)
  BY Fresh DEF Go!Init
<1>2. GoTypes /\ ItemsInv
  BY EmptySeq DEF Go!Init, GoTypes, ItemsInv
<1>3. PassedInv
  BY <1>1 DEF Go!Init, PassedInv
<1> QED
  BY <1>2, <1>3 DEF GoDocInv

(* While a document is parsed.                                               *)
LEMMA ParseStep ==
    ASSUME GoDocInv, Go!Parse
    PROVE  GoDocInv'
<1>1. CASE Go!AddRequest \/ Go!AddCheck \/ Go!AddCapture
  <2>1. Go!Cardinality(Go!Requests) \in Nat
    BY RequestsFinite, OneCardinality DEF GoDocInv, GoTypes
  <2>2. \A s \in 1..Go!Cardinality(Go!Requests) : s \in Nat
    BY <2>1
  <2>3. PICK item : item \in GoItems /\ Go!AddItem(item)
    <3>1. CASE Go!AddRequest
      BY <3>1 DEF Go!AddRequest, Go!Request, GoItems, Go!Bads, Go!Hosts
    <3>2. CASE Go!AddCheck
      BY <2>2, <3>2 DEF Go!AddCheck, Go!CheckOf, GoItems, Go!Bads
    <3>3. CASE Go!AddCapture
      BY <2>2, <3>3 DEF Go!AddCapture, Go!CaptureOf, GoItems, Go!Bads
    <3> QED
      BY <1>1, <3>1, <3>2, <3>3
  <2>4. /\ gPc = "parse" /\ gItems' = Append(gItems, item)
        /\ UNCHANGED <<gMode, gPc, gHost, gK, gArrays, gTransfers, gResult, gOwners, gSent>>
    BY <2>3 DEF Go!AddItem
  <2>5. gItems' \in Seq(GoItems)
    BY <2>3, <2>4, AppendProperties DEF GoDocInv, GoTypes
  <2> QED
    BY <2>4, <2>5 DEF GoDocInv, GoTypes, ItemsInv, PassedInv, Verified, Go!Current
<1>2. CASE Go!ParseFails
  <2>1. /\ gPc' = "report" /\ gResult'.status # "passed"
        /\ UNCHANGED <<gMode, gItems, gHost, gSent>>
    BY <1>2 DEF Go!ParseFails, Go!Outcome
  <2> QED
    BY <2>1 DEF GoDocInv, GoTypes, ItemsInv, PassedInv
<1>3. CASE Go!Parsed
  <2>1. /\ gPc = "parse" /\ gPc' = gMode
        /\ UNCHANGED <<gMode, gItems, gHost, gK, gArrays, gTransfers, gResult, gOwners, gSent>>
    BY <1>3 DEF Go!Parsed, Go!docVars
  <2> QED
    BY <2>1 DEF GoDocInv, GoTypes, ItemsInv, PassedInv, Verified, Go!Current
<1> QED
  BY <1>1, <1>2, <1>3 DEF Go!Parse

(* Lint reports without running; the preflight lets only a document through  *)
(* that has no finding.                                                      *)
LEMMA PreflightStep ==
    ASSUME GoDocInv, Go!Lint \/ Go!Preflight
    PROVE  GoDocInv'
<1>1. CASE Go!Lint
  <2>1. gPc = "lint" /\ gPc' = "report" /\ UNCHANGED <<gMode, gItems, gHost, gSent>>
    BY <1>1 DEF Go!Lint
  <2> QED
    BY <2>1 DEF GoDocInv, GoTypes, ItemsInv, PassedInv
<1>2. CASE Go!Preflight
  <2> DEFINE F == {Go!Finding(gItems[i], Go!Known(i)) : i \in 1..Len(gItems)}
             w == Go!Worst(F)
  <2>1. gPc = "test" /\ UNCHANGED <<gMode, gItems, gHost, gK, gArrays, gTransfers, gOwners, gSent>>
    BY <1>2 DEF Go!Preflight
  <2>2. CASE w # "passed"
    <3>1. gPc' = "report" /\ gResult'.status # "passed"
      BY <1>2, <2>2 DEF Go!Preflight, Go!Outcome
    <3> QED
      BY <2>1, <3>1 DEF GoDocInv, GoTypes, ItemsInv, PassedInv
  <2>3. CASE w = "passed"
    <3>1. gPc' = "run"
      BY <1>2, <2>3 DEF Go!Preflight
    <3>2. "error" \notin F /\ "failed" \notin F
      BY <2>3 DEF Go!Worst
    <3>3. ASSUME NEW i \in 1..Len(gItems) PROVE gItems[i].bad = "none"
      <4>1. gItems[i].bad \in Go!Bads
        <5>1. gItems[i] \in GoItems
          BY ElementOfSeq DEF GoDocInv, GoTypes
        <5> QED
          BY <5>1 DEF GoItems
      <4>2. Go!Finding(gItems[i], Go!Known(i)) \in F
        OBVIOUS
      <4> QED
        BY <3>2, <4>1, <4>2 DEF Go!Finding, Go!Bads
    <3>4. Before(1) = {}
      <4>1. Go!Requests \subseteq 1..Len(gItems)
        BY DEF Go!Requests
      <4>2. \A j \in 1..Len(gItems) : ~(j < 1)
        OBVIOUS
      <4> QED
        BY <4>1, <4>2 DEF Before
    <3>5. Cardinality(Before(gK))' = 0
      <4>1. gK' = 1 /\ Before(gK)' = Before(1)
        BY <2>1 DEF GoDocInv, PassedInv, Before, Go!Requests
      <4> QED
        BY <3>4, <4>1, FS_EmptySet
    <3>6. Verified(0)'
      BY <2>1 DEF GoDocInv, PassedInv, Verified, Go!Current
    <3>7. PassedInv'
      BY <2>1, <3>1, <3>5, <3>6 DEF PassedInv
    <3>8. ItemsInv'
      <4>1. gK' = 1 /\ Len(gItems') \in Nat
        BY <2>1, LenProperties DEF GoDocInv, GoTypes, PassedInv
      <4> QED
        BY <2>1, <3>3, <4>1 DEF ItemsInv
    <3> QED
      BY <2>1, <3>1, <3>7, <3>8 DEF GoDocInv, GoTypes
  <2> QED
    BY <2>2, <2>3
<1> QED
  BY <1>1, <1>2

(* A step of the loop after which the document counts as failed.             *)
LEMMA FailedStep ==
    ASSUME GoDocInv, gPc = "run", gPc' \in {"run", "finalize"}, gResult'.status # "passed",
           gK' \in {gK, gK + 1}, gPc' = "run" => gK <= Len(gItems),
           gHost' = gHost, gSent' \subseteq {"allowed"}, UNCHANGED <<gMode, gItems>>
    PROVE  GoDocInv'
<1>1. GoTypes'
  BY DEF GoDocInv, GoTypes
<1>2. ItemsInv'
  <2>1. Len(gItems) \in Nat /\ gK \in 1..(Len(gItems) + 1)
    BY LenProperties DEF GoDocInv, GoTypes, ItemsInv
  <2> QED
    BY <2>1 DEF GoDocInv, ItemsInv
<1>3. PassedInv'
  BY DEF PassedInv
<1> QED
  BY <1>1, <1>2, <1>3 DEF GoDocInv

(* A step that goes past a check or a capture.                               *)
LEMMA PassesItem ==
    ASSUME GoDocInv, gPc = "run", gK <= Len(gItems), gItems[gK].kind # "curl",
           gK' = gK + 1, gHost' \in Go!Hosts \cup {"unset"},
           UNCHANGED <<gPc, gMode, gItems, gArrays, gTransfers, gResult, gOwners, gSent>>
    PROVE  GoDocInv'
<1>1. Len(gItems) \in Nat /\ gK \in 1..Len(gItems)
  BY LenProperties DEF GoDocInv, GoTypes, ItemsInv
<1>2. GoTypes'
  BY DEF GoDocInv, GoTypes
<1>3. ItemsInv'
  BY <1>1 DEF GoDocInv, ItemsInv
<1>4. Before(gK)' = Before(gK)
  <2>1. Before(gK)' = Before(gK + 1)
    BY DEF Before, Go!Requests
  <2> QED
    BY <1>1, <2>1, PastItem DEF GoDocInv, GoTypes
<1>5. PassedInv'
  BY <1>4 DEF GoDocInv, PassedInv, Verified, Go!Current
<1> QED
  BY <1>2, <1>3, <1>5 DEF GoDocInv

(* The request of an item is made: only where the policy allows, and the     *)
(* step is appended.                                                         *)
LEMMA SendStep ==
    ASSUME GoDocInv, Go!Send
    PROVE  GoDocInv'
<1>1. /\ gPc = "run" /\ gK <= Len(gItems) /\ gItems[gK].kind = "curl"
      /\ Go!Target(gItems[gK]) \notin {"unset", "denied"}
      /\ gSent' = gSent \cup {Go!Target(gItems[gK])}
      /\ gK' = gK + 1 /\ UNCHANGED <<gPc, gMode, gItems, gHost, gOwners>>
  BY DEF Go!Send, Go!Planned, Go!Refused, Go!AtItem, Go!NextItem
<1>2. Len(gItems) \in Nat /\ gK \in 1..Len(gItems)
  BY <1>1, LenProperties DEF GoDocInv, GoTypes, ItemsInv
<1>3. gSent' \subseteq {"allowed"}
  <2>1. gItems[gK] \in GoItems
    BY <1>2, ElementOfSeq DEF GoDocInv, GoTypes
  <2>2. gItems[gK].url \in Go!Hosts \cup {"templated"}
    BY <1>1, <2>1 DEF GoItems
  <2>3. Go!Target(gItems[gK]) \in Go!Hosts \cup {"unset"}
    BY <2>2 DEF Go!Target, Go!Hosts, GoDocInv, GoTypes
  <2> QED
    BY <1>1, <2>3 DEF Go!Hosts, GoDocInv, GoTypes
<1>4. CASE Go!FailWith(3)
  <2>1. gResult'.status # "passed"
    BY <1>4 DEF Go!FailWith, Go!Outcome
  <2> QED
    BY <1>1, <1>3, <2>1, FailedStep
<1>5. CASE /\ gTransfers' = gTransfers \cup {Go!StepOf(gK)}
           /\ Go!AppendStep("passed") /\ UNCHANGED <<gResult, gSeverity>>
  <2>1. GoTypes'
    BY <1>1, <1>3 DEF GoDocInv, GoTypes
  <2>2. ItemsInv'
    BY <1>1, <1>2 DEF GoDocInv, ItemsInv
  <2>3. PICK n \in Nat : n = Cardinality(Before(gK))
    BY RequestsFinite DEF GoDocInv, GoTypes
  <2>4. Go!StepOf(gK) = n + 1 /\ Cardinality(Before(gK + 1)) = n + 1
    BY <1>1, <1>2, <2>3, PastItem DEF GoDocInv, GoTypes
  <2>5. Cardinality(Before(gK))' = n + 1
    <3>1. Before(gK)' = Before(gK + 1)
      BY <1>1 DEF Before, Go!Requests
    <3> QED
      BY <2>4, <3>1
  <2>6. gResult.status = "passed" => Verified(n)
    BY <1>1, <2>3 DEF GoDocInv, PassedInv
  <2>7. gResult.status = "passed" => Verified(n + 1)'
    BY <1>1, <1>5, <2>4, <2>6, AppendIs
  <2>8. PassedInv'
    BY <1>1, <1>5, <2>5, <2>7 DEF PassedInv
  <2> QED
    BY <2>1, <2>2, <2>8 DEF GoDocInv
<1> QED
  BY <1>4, <1>5 DEF Go!Send

(* Every step of the loop over the items keeps the invariant.                *)
LEMMA RunStep ==
    ASSUME GoDocInv, Go!Run
    PROVE  GoDocInv'
<1> USE DEF Go!AtItem, Go!NextItem
<1>1. gPc = "run" /\ (gSent \subseteq {"allowed"})
  BY DEF Go!Run, Go!NotPlanned, Go!PolicyDenied, Go!Planned, Go!Send, Go!Skip, Go!Holds, Go!Fails,
         Go!Capture, Go!Has, Go!EndOfItems, GoDocInv, GoTypes
<1>2. CASE Go!NotPlanned
  <2>1. /\ gK <= Len(gItems) /\ gK' = gK + 1
        /\ UNCHANGED <<gPc, gMode, gItems, gHost, gSent>>
    BY <1>2 DEF Go!NotPlanned
  <2>2. gItems[gK].bad = "none"
    BY <1>1, <2>1, LenProperties DEF GoDocInv, GoTypes, ItemsInv
  <2>3. gResult'.status # "passed"
    BY <1>2, <2>2 DEF Go!NotPlanned, Go!FailWith, Go!Outcome
  <2> QED
    BY <1>1, <2>1, <2>3, FailedStep
<1>3. CASE Go!PolicyDenied
  <2>1. /\ gPc' = "finalize" /\ gResult'.status # "passed"
        /\ UNCHANGED <<gK, gMode, gItems, gHost, gSent>>
    BY <1>3 DEF Go!PolicyDenied, Go!Outcome
  <2> QED
    BY <1>1, <2>1, FailedStep
<1>4. CASE Go!Fails
  <2>1. /\ gK <= Len(gItems) /\ gK' = gK + 1 /\ gResult'.status # "passed"
        /\ UNCHANGED <<gPc, gMode, gItems, gHost, gSent>>
    BY <1>4 DEF Go!Fails, Go!Has, Go!FailWith, Go!Outcome
  <2> QED
    BY <1>1, <2>1, FailedStep
<1>5. CASE Go!Skip \/ Go!Holds \/ Go!Capture
  <2>1. /\ gK <= Len(gItems) /\ gItems[gK].kind # "curl" /\ gK' = gK + 1
        /\ UNCHANGED <<gPc, gMode, gItems, gArrays, gTransfers, gResult, gOwners, gSent>>
    BY <1>5 DEF Go!Skip, Go!Holds, Go!Capture, Go!Has
  <2>2. gHost' \in Go!Hosts \cup {"unset"}
    BY <1>5 DEF Go!Skip, Go!Holds, Go!Capture, GoDocInv, GoTypes
  <2> QED
    BY <1>1, <2>1, <2>2, PassesItem
<1>6. CASE Go!EndOfItems
  <2>1. /\ gK > Len(gItems) /\ gPc' = "finalize"
        /\ UNCHANGED <<gMode, gItems, gHost, gK, gArrays, gTransfers, gResult, gOwners, gSent>>
    BY <1>6 DEF Go!EndOfItems, Go!docVars
  <2>2. Before(gK) = Go!Requests
    <3>1. Go!Requests \subseteq 1..Len(gItems) /\ Len(gItems) \in Nat
          /\ gK \in 1..(Len(gItems) + 1)
      BY <1>1, LenProperties, RequestsFinite DEF GoDocInv, GoTypes, ItemsInv
    <3>2. \A j \in 1..Len(gItems) : j < gK
      BY <2>1, <3>1
    <3> QED
      BY <3>1, <3>2 DEF Before
  <2>3. Go!Requests' = Go!Requests
    BY <2>1 DEF Go!Requests
  <2>4. PassedInv'
    BY <1>1, <2>1, <2>2, <2>3 DEF GoDocInv, PassedInv, Verified, Go!Current
  <2> QED
    BY <1>1, <2>1, <2>4 DEF GoDocInv, GoTypes, ItemsInv
<1> QED
  BY <1>2, <1>3, <1>4, <1>5, <1>6, SendStep DEF Go!Run

(* The end of a document, and the start of the next.                         *)
LEMMA ReportStep ==
    ASSUME GoDocInv, Go!Finalize \/ Go!AddDocument
    PROVE  GoDocInv'
<1>1. CASE Go!Finalize
  <2>1. /\ gPc = "finalize" /\ gPc' = "report"
        /\ UNCHANGED <<gMode, gItems, gHost, gTransfers, gResult, gOwners, gSent>>
        /\ gResult.status = "passed" => gArrays' = gArrays
    BY <1>1 DEF Go!Finalize
  <2>2. PassedInv'
    BY <2>1 DEF GoDocInv, GoTypes, PassedInv, Verified, Go!Current, Go!Requests
  <2> QED
    BY <2>1, <2>2 DEF GoDocInv, GoTypes, ItemsInv
<1>2. CASE Go!AddDocument /\ gPath < Paths
  <2>1. /\ gPc' = "parse" /\ gItems' = <<>> /\ gK' = 1 /\ gHost' \in Go!Hosts \cup {"unset"}
        /\ gArrays' = <<Go!Array(0, <<>>)>> /\ gTransfers' = {} /\ gOwners' = {}
        /\ UNCHANGED <<gMode, gSent>>
    BY <1>2 DEF Go!AddDocument
  <2>2. Verified(0)'
    <3>1. Go!Array(0, <<>>) \in [cap : Nat, elems : Seq({"passed"})]
      BY EmptySeq DEF Go!Array
    <3>2. Go!Current'.elems = <<>>
      BY <2>1 DEF Go!Current, Go!Array
    <3> QED
      BY <2>1, <3>1, <3>2 DEF Verified
  <2>3. gItems' \in Seq(GoItems)
    BY <2>1, EmptySeq
  <2> QED
    BY <2>1, <2>2, <2>3 DEF GoDocInv, GoTypes, ItemsInv, PassedInv
<1>3. CASE Go!AddDocument /\ ~(gPath < Paths)
  <2>1. /\ gPc = "report" /\ gPc' = "exited"
        /\ UNCHANGED <<gMode, gItems, gHost, gArrays, gTransfers, gResult, gOwners, gSent>>
    BY <1>3 DEF Go!AddDocument, Go!docVars
  <2>2. PassedInv'
    BY <2>1 DEF GoDocInv, GoTypes, PassedInv, Verified, Go!Current, Go!Requests
  <2> QED
    BY <2>1, <2>2 DEF GoDocInv, GoTypes, ItemsInv
<1> QED
  BY <1>1, <1>2, <1>3

(* Every step of the Go port keeps the invariant.                            *)
LEMMA GoDocNext == GoDocInv /\ [Go!Next]_Go!vars => GoDocInv'
<1> SUFFICES ASSUME GoDocInv, [Go!Next]_Go!vars PROVE GoDocInv'
  OBVIOUS
<1>1. CASE UNCHANGED Go!vars
  <2>1. UNCHANGED <<gMode, gPc, gItems, gHost, gK, gArrays, gTransfers, gResult, gOwners, gSent>>
    BY <1>1 DEF Go!vars, Go!docVars
  <2>2. PassedInv'
    BY <2>1 DEF GoDocInv, PassedInv, Verified, Go!Current, Go!Requests, Before
  <2> QED
    BY <2>1, <2>2 DEF GoDocInv, GoTypes, ItemsInv
<1> QED
  BY <1>1, ParseStep, PreflightStep, RunStep, ReportStep DEF Go!Next, Go!Exited

(* GoDocInv holds for every document, server answer and host a capture       *)
(* names.                                                                    *)
THEOREM GoDocInductive == Go!Spec => []GoDocInv
BY GoDocInit, GoDocNext, PTL DEF Go!Spec

(* PassedMeansVerified: the Go port sends requests only where the policy     *)
(* allows, and a document that Test reports as passed made every request and *)
(* saw every check and capture succeed, for documents of any length.         *)
THEOREM PassedCorrect == Go!Spec => []PassedMeansVerified
<1>1. GoDocInv => PassedMeansVerified
  <2> SUFFICES ASSUME GoDocInv PROVE PassedMeansVerified
    OBVIOUS
  <2>1. gSent \subseteq {"allowed"}
    BY DEF GoDocInv, GoTypes
  <2>2. ASSUME gPc \in {"report", "exited"}, gMode = "test", gResult.status = "passed"
        PROVE  /\ gTransfers = 1..Go!Cardinality(Go!Requests)
               /\ Len(Go!Current.elems) = Go!Cardinality(Go!Requests)
               /\ Go!Range(Go!Current.elems) \subseteq {"passed"} /\ gOwners = {}
    <3>1. Verified(Cardinality(Go!Requests))
      BY <2>2 DEF GoDocInv, PassedInv
    <3>2. /\ gTransfers = 1..Go!Cardinality(Go!Requests) /\ gOwners = {}
          /\ Len(Go!Current.elems) = Go!Cardinality(Go!Requests)
      BY <3>1, OneCardinality DEF Verified
    <3>3. Go!Current \in [cap : Nat, elems : Seq({"passed"})]
      <4> DEFINE A == [cap : Nat, elems : Seq({"passed"})]
      <4>1. gArrays \in Seq(A) /\ gArrays # <<>>
        BY <3>1 DEF Verified
      <4> HIDE DEF A
      <4>2. Len(gArrays) \in 1..Len(gArrays)
        BY <4>1, LenProperties
      <4>3. Go!Current \in A
        BY <4>1, <4>2, ElementOfSeq DEF Go!Current
      <4> QED
        BY <4>3 DEF A
    <3>4. Go!Current.elems \in Seq({"passed"})
      BY <3>3
    <3>5. Go!Range(Go!Current.elems) \subseteq {"passed"}
      BY <3>4, ElementOfSeq, LenProperties DEF Go!Range
    <3> QED
      BY <3>2, <3>5
  <2> QED
    BY <2>1, <2>2 DEF PassedMeansVerified, Go!PassedMeansVerified
<1> QED
  BY GoDocInductive, <1>1, PTL
=============================================================================
