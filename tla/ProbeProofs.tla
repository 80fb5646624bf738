----------------------------- MODULE ProbeProofs -----------------------------
(***************************************************************************)
(* Proofs about Probe, for any number of child requests, promise jobs,      *)
(* timers and log entries.                                                  *)
(***************************************************************************)
EXTENDS Probe, SequenceTheorems, TLAPS

(* The variables no other part speaks of have their types.                   *)
QueueTypes ==
    /\ pending \in Seq(Nat) /\ batch \in Seq(Nat)
    /\ records \in Seq([op : Nat, resolved : BOOLEAN])
    /\ next_op \in Nat /\ lateCalls \in Nat
    /\ expired \in BOOLEAN /\ errors \in BOOLEAN /\ timed_out \in BOOLEAN /\ tests \in BOOLEAN
    /\ posed \in BOOLEAN

(* Requests are numbered as they are sent: those executed come first, those  *)
(* of the batch after them and those pending last, with no gap.              *)
OrderInv ==
    /\ \A i \in 1..Len(records) : records[i].op = i
    /\ \A i \in 1..Len(batch) : batch[i] = Len(records) + i
    /\ \A i \in 1..Len(pending) : pending[i] = Len(records) + Len(batch) + i
    /\ next_op = Len(records) + Len(batch) + Len(pending) + 1

(* A batch is begun at the head of the loop and held only while its requests *)
(* and the jobs they queue are run, or when the loop was left early.         *)
BatchInv ==
    batch # <<>> =>
        \/ pc \in {"batch", "fold", "print", "done"}
        \/ pc = "drain" /\ after = "batch"
        \/ pc = "code" /\ caller = "job" /\ after = "batch"

(* A request begun after the deadline is the last, and makes the outcome a   *)
(* timeout: the drain that follows it sees the deadline.                     *)
LateInv ==
    /\ lateCalls <= 1
    /\ lateCalls = 1 => /\ expired /\ pc \in {"drain", "fold", "print", "done"}
                        /\ pc # "drain" => timed_out

(* The loop is left with work undone only with an error or a timeout.        *)
FoldInv ==
    /\ timed_out => expired \/ posed
    /\ pc = "fold" /\ ~timed_out /\ ~errors => batch = <<>> /\ pending = <<>> /\ jobs = 0
    /\ outcome # "none" => pc \in {"print", "done"}
    /\ outcome = "timeout" => timed_out
    /\ outcome \in {"passed", "failed"} =>
         batch = <<>> /\ pending = <<>> /\ jobs = 0 /\ ~errors /\ ~timed_out

IInv == TypeOK /\ QueueTypes /\ OrderInv /\ BatchInv /\ LateInv /\ FoldInv

-----------------------------------------------------------------------------
(* Nothing has been sent, run or decided at the start.                       *)
LEMMA InitInv == Init => IInv
<1> SUFFICES ASSUME Init PROVE IInv
  OBVIOUS
<1>1. TypeOK
  BY ProbeAssumption DEF Init, TypeOK, Codes
<1>2. QueueTypes
  BY EmptySeq DEF Init, QueueTypes
<1>4. OrderInv
  <2>1. /\ Len(pending) = 0 /\ Len(batch) = 0 /\ Len(records) = 0 /\ next_op = 1
    BY DEF Init
  <2> QED
    BY <2>1 DEF OrderInv
<1>3. BatchInv /\ LateInv /\ FoldInv
  BY DEF Init, BatchInv, LateInv, FoldInv
<1> QED
  BY <1>1, <1>2, <1>3, <1>4 DEF IInv

(* The actions that move the probe on but send, take and execute no request. *)
Moves ==
    \/ ReadCase \/ SetUp \/ EndCode \/ Throw \/ Interrupt \/ EndBatch \/ DrainJob \/ DrainExpired
    \/ Drained \/ Collect \/ Fire \/ EndTimers \/ Sleep \/ Fold \/ PrintOutput

(* Those that leave its position alone: time, and calls of running code.     *)
Stays == Deadline \/ TimerDue \/ QueueJob \/ SetTimer \/ ClearTimer \/ Log \/ Test

(* Every step is of one of these kinds.                                      *)
LEMMA Kinds ==
    [Next]_vars => Moves \/ Stays \/ Send \/ Top \/ Execute \/ UNCHANGED vars
BY DEF Next, Code, Engine, Done, Moves, Stays

(* Types.  Code and the engine keep jobs and log entries within their        *)
(* bounds, and no timer is due that is not armed.                            *)
LEMMA TypeStep ==
    ASSUME IInv, [Next]_vars
    PROVE  TypeOK'
<1> USE ProbeAssumption DEF IInv, TypeOK, Codes, clock, queues, timerVars, notes, control, verdict,
        GoTo, Drain, Run, Break
<1>1. CASE ReadCase \/ SetUp
  BY <1>1 DEF ReadCase, SetUp
<1>2. CASE EndCode \/ Interrupt
  BY <1>2 DEF EndCode, Interrupt
<1>18. CASE Throw
  <2>1. diagnostics' \subseteq Codes
    BY <1>18 DEF Throw, ThrowScript, ThrowJob, ThrowTimer
  <2>2. pc' \in {"top", "drain", "fold", "timers"} /\ UNCHANGED <<caller, after>>
    BY <1>18 DEF Throw, ThrowScript, ThrowJob, ThrowTimer
  <2>3. UNCHANGED <<jobs, logs, timerVars, outcome>>
    BY <1>18 DEF Throw
  <2> QED
    BY <2>1, <2>2, <2>3
<1>3. CASE EndBatch \/ DrainExpired
  BY <1>3 DEF EndBatch, DrainExpired
<1>14. CASE DrainJob
  BY <1>14 DEF DrainJob
<1>4. CASE Drained \/ Collect
  BY <1>4 DEF Drained, Collect
<1>5. CASE Fire
  BY <1>5 DEF Fire
<1>6. CASE EndTimers \/ Sleep
  BY <1>6 DEF EndTimers, Sleep
<1>7. CASE PrintOutput
  BY <1>7 DEF PrintOutput
<1>17. CASE Fold
  <2>1. outcome' \in {"passed", "failed", "error", "timeout"}
    BY <1>17 DEF Fold
  <2>2. diagnostics' \subseteq Codes
    BY <1>17 DEF Fold
  <2>3. pc' = "print" /\ UNCHANGED <<caller, after, jobs, logs, timerVars>>
    BY <1>17 DEF Fold
  <2> QED
    BY <2>1, <2>2, <2>3
<1>8. CASE Deadline
  BY <1>8 DEF Deadline
<1>19. CASE TimerDue
  BY <1>19 DEF TimerDue
<1>9. CASE QueueJob
  BY <1>9 DEF QueueJob
<1>15. CASE Log
  <2>1. logs' \in 0..MaxLogs
    BY <1>15 DEF Log
  <2>2. diagnostics' \subseteq Codes
    BY <1>15 DEF Log
  <2>3. UNCHANGED <<control, jobs, timerVars, outcome>>
    BY <1>15 DEF Log
  <2> QED
    BY <2>1, <2>2, <2>3
<1>16. CASE Test
  BY <1>16 DEF Test
<1>10. CASE SetTimer \/ ClearTimer
  BY <1>10 DEF SetTimer, ClearTimer
<1>11. CASE Send \/ Top
  BY <1>11 DEF Send, Top
<1>12. CASE Execute
  BY <1>12 DEF Execute
<1>13. CASE UNCHANGED vars
  BY <1>13 DEF vars
<1> QED
  BY <1>1, <1>2, <1>3, <1>4, <1>5, <1>6, <1>7, <1>8, <1>9, <1>10, <1>11, <1>12, <1>13, <1>14, <1>15,
     <1>16, <1>17, <1>18, <1>19, Kinds
  DEF Moves, Stays

-----------------------------------------------------------------------------
(* All but three actions leave the queues of requests alone.                 *)
LEMMA QueuesUnchanged ==
    ASSUME Moves \/ Stays \/ UNCHANGED vars
    PROVE  UNCHANGED queues
BY DEF vars, Moves, Stays, ReadCase, SetUp, EndCode, Throw, ThrowScript, ThrowJob, ThrowTimer,
       RecordError, TakeForInterrupt,
       Interrupt, EndBatch, DrainJob,
       DrainExpired, Drained, Collect, Fire, EndTimers, Sleep, Fold, PrintOutput, Deadline,
       TimerDue, QueueJob, SetTimer, ClearTimer, Log, Test

(* The flags stay flags.                                                     *)
LEMMA FlagStep ==
    ASSUME IInv, [Next]_vars
    PROVE  /\ expired' \in BOOLEAN /\ errors' \in BOOLEAN /\ timed_out' \in BOOLEAN
           /\ tests' \in BOOLEAN /\ posed' \in BOOLEAN
<1> USE DEF IInv, QueueTypes, clock, notes, verdict
<1>1. CASE Moves
  BY <1>1 DEF Moves, ReadCase, SetUp, EndCode, Throw, ThrowScript, ThrowJob, ThrowTimer,
       RecordError, TakeForInterrupt,
       Interrupt, EndBatch, DrainJob,
       DrainExpired, Drained, Collect, Fire, EndTimers, Sleep, Fold, PrintOutput
<1>2. CASE Stays
  BY <1>2 DEF Stays, Deadline, TimerDue, QueueJob, SetTimer, ClearTimer, Log, Test
<1>3. CASE Send \/ Top \/ Execute \/ UNCHANGED vars
  BY <1>3 DEF Send, Top, Execute, vars
<1> QED
  BY <1>1, <1>2, <1>3, Kinds

(* The requests stay in the order of sending: __mdok_send appends to the     *)
(* pending ones, the head of the loop takes them all, the executor takes the *)
(* first of the batch.                                                       *)
LEMMA OrderStep ==
    ASSUME IInv, [Next]_vars
    PROVE  QueueTypes' /\ OrderInv'
<1> USE DEF IInv, QueueTypes
<1>1. CASE UNCHANGED queues
  BY <1>1, FlagStep DEF queues, OrderInv
<1>2. CASE Send
  <2>1. /\ pending' = Append(pending, next_op) /\ next_op' = next_op + 1
        /\ UNCHANGED <<batch, records, lateCalls>>
    BY <1>2 DEF Send
  <2>2. /\ pending' \in Seq(Nat) /\ Len(pending') = Len(pending) + 1
        /\ pending'[Len(pending) + 1] = next_op
        /\ \A i \in 1..Len(pending) : pending'[i] = pending[i]
    BY <2>1
  <2>3. next_op = Len(records) + Len(batch) + Len(pending) + 1
    BY DEF OrderInv
  <2>4. \A i \in 1..Len(pending') : pending'[i] = Len(records') + Len(batch') + i
    <3> SUFFICES ASSUME NEW i \in 1..Len(pending')
                 PROVE  pending'[i] = Len(records) + Len(batch) + i
      BY <2>1
    <3>1. CASE i = Len(pending) + 1
      BY <2>2, <2>3, <3>1, LenProperties
    <3>2. CASE i \in 1..Len(pending)
      BY <2>2, <3>2 DEF OrderInv
    <3> QED
      BY <2>2, <3>1, <3>2, LenProperties
  <2>5. next_op' = Len(records') + Len(batch') + Len(pending') + 1
    BY <2>1, <2>2, <2>3, LenProperties
  <2>6. OrderInv'
    BY <2>1, <2>4, <2>5 DEF OrderInv
  <2> QED
    BY <2>1, <2>2, <2>6, FlagStep
<1>3. CASE Top /\ pending # <<>> /\ ~expired
  <2>1. batch' = pending /\ pending' = <<>> /\ UNCHANGED <<next_op, records, lateCalls>>
    BY <1>3 DEF Top
  <2>2. batch = <<>>
    BY <1>3 DEF Top, BatchInv
  <2>3. OrderInv'
    BY <2>1, <2>2 DEF OrderInv
  <2> QED
    BY <2>1, <2>3, FlagStep
<1>4. CASE Top /\ ~(pending # <<>> /\ ~expired)
  BY <1>1, <1>4 DEF Top, queues
<1>5. CASE Execute
  <2>1. PICK ok \in BOOLEAN : records' = Append(records, [op |-> Head(batch), resolved |-> ok])
    BY <1>5 DEF Execute, Resolves, RecordChild
  <2>2. /\ batch # <<>> /\ batch' = Tail(batch) /\ UNCHANGED <<pending, next_op>>
        /\ lateCalls' \in Nat
    BY <1>5 DEF Execute
  <2>3. /\ Head(batch) \in Nat /\ Head(batch) = batch[1] /\ batch' \in Seq(Nat)
        /\ Len(batch) \in Nat /\ Len(batch) > 0 /\ Len(batch') = Len(batch) - 1
        /\ \A i \in 1..Len(batch') : batch'[i] = batch[i + 1]
    BY <2>2
  <2>4. Head(batch) = Len(records) + 1
    <3>1. 1 \in 1..Len(batch)
      BY <2>3
    <3> QED
      BY <2>3, <3>1 DEF OrderInv
  <2>5. /\ records' \in Seq([op : Nat, resolved : BOOLEAN])
        /\ Len(records') = Len(records) + 1
        /\ \A i \in 1..Len(records) : records'[i] = records[i]
        /\ records'[Len(records) + 1].op = Head(batch)
    BY <2>1, <2>3
  <2>9. Len(records) \in Nat /\ Len(records') = Len(records) + 1
    BY <2>5, LenProperties DEF QueueTypes
  <2>6. \A i \in 1..Len(records') : records'[i].op = i
    <3> SUFFICES ASSUME NEW i \in 1..Len(records') PROVE records'[i].op = i
      OBVIOUS
    <3>1. CASE i = Len(records) + 1
      BY <2>4, <2>5, <3>1
    <3>2. CASE i \in 1..Len(records)
      BY <2>5, <3>2 DEF OrderInv
    <3>4. i = Len(records) + 1 \/ i \in 1..Len(records)
      BY <2>9
    <3> QED
      BY <3>1, <3>2, <3>4
  <2>7. \A i \in 1..Len(batch') : batch'[i] = Len(records') + i
    <3> SUFFICES ASSUME NEW i \in 1..Len(batch') PROVE batch'[i] = Len(records') + i
      OBVIOUS
    <3>1. i + 1 \in 1..Len(batch) /\ batch'[i] = batch[i + 1]
      BY <2>3
    <3>2. batch[i + 1] = Len(records) + (i + 1)
      BY <3>1 DEF OrderInv
    <3> QED
      BY <2>9, <3>1, <3>2
  <2>8. /\ \A i \in 1..Len(pending') : pending'[i] = Len(records') + Len(batch') + i
        /\ next_op' = Len(records') + Len(batch') + Len(pending') + 1
    BY <2>2, <2>3, <2>5 DEF OrderInv
  <2> QED
    BY <2>2, <2>3, <2>5, <2>6, <2>7, <2>8, FlagStep DEF OrderInv
<1> QED
  BY <1>1, <1>2, <1>3, <1>4, <1>5, Kinds, QueuesUnchanged

-----------------------------------------------------------------------------
(* A batch is held only while it is run: the loop comes back to its head,    *)
(* and to the timers, when the batch is empty.                               *)
LEMMA BatchStep ==
    ASSUME IInv, [Next]_vars
    PROVE  BatchInv'
<1> USE DEF IInv, BatchInv, control, queues, GoTo, Drain, Run, Break
<1>1. CASE Stays \/ Send \/ UNCHANGED vars
  BY <1>1 DEF Stays, Deadline, TimerDue, QueueJob, SetTimer, ClearTimer, Log, Test, Send, vars
<1>2. CASE Top
  BY <1>2 DEF Top
<1>3. CASE Execute
  BY <1>3 DEF Execute
<1>4. CASE ReadCase \/ SetUp \/ EndCode \/ Throw \/ Interrupt
  BY <1>4 DEF ReadCase, SetUp, EndCode, Throw, ThrowScript, ThrowJob, ThrowTimer,
       RecordError, TakeForInterrupt,
       Interrupt
<1>5. CASE EndBatch \/ DrainJob \/ DrainExpired \/ Drained
  BY <1>5 DEF EndBatch, DrainJob, DrainExpired, Drained
<1>6. CASE Collect \/ Fire \/ EndTimers \/ Sleep \/ Fold \/ PrintOutput
  BY <1>6 DEF Collect, Fire, EndTimers, Sleep, Fold, PrintOutput
<1> QED
  BY <1>1, <1>2, <1>3, <1>4, <1>5, <1>6, Kinds DEF Moves

(* After a late request the engine can only drain and leave.                 *)
LEMMA LateStep ==
    ASSUME IInv, [Next]_vars
    PROVE  LateInv'
<1> USE DEF IInv, LateInv, QueueTypes, clock, control, queues, verdict, GoTo, Drain, Run, Break
<1>1. CASE Stays \/ Send \/ UNCHANGED vars
  BY <1>1 DEF Stays, Deadline, TimerDue, QueueJob, SetTimer, ClearTimer, Log, Test, Send, vars
<1>2. CASE Top
  BY <1>2 DEF Top
<1>3. CASE Execute
  BY <1>3 DEF Execute
<1>4. CASE ReadCase \/ SetUp \/ EndCode \/ Throw \/ Interrupt
  BY <1>4 DEF ReadCase, SetUp, EndCode, Throw, ThrowScript, ThrowJob, ThrowTimer,
       RecordError, TakeForInterrupt,
       Interrupt
<1>5. CASE EndBatch \/ DrainJob \/ DrainExpired \/ Drained
  BY <1>5 DEF EndBatch, DrainJob, DrainExpired, Drained
<1>6. CASE Collect \/ Fire \/ EndTimers \/ Sleep \/ Fold \/ PrintOutput
  BY <1>6 DEF Collect, Fire, EndTimers, Sleep, Fold, PrintOutput
<1> QED
  BY <1>1, <1>2, <1>3, <1>4, <1>5, <1>6, Kinds DEF Moves

(* The loop is left for good when nothing is pending, no batch is held and   *)
(* no job is queued, or with an error or a timeout on record.                *)
LEMMA FoldStep ==
    ASSUME IInv, [Next]_vars
    PROVE  FoldInv'
<1> USE DEF IInv, FoldInv, QueueTypes, clock, control, queues, verdict, GoTo, Drain, Run, Break
<1>1. CASE Stays \/ Send \/ UNCHANGED vars
  BY <1>1 DEF Stays, Deadline, TimerDue, QueueJob, SetTimer, ClearTimer, Log, Test, Send, vars
<1>2. CASE Top
  BY <1>2 DEF Top
<1>3. CASE Execute
  BY <1>3 DEF Execute
<1>4. CASE ReadCase \/ SetUp \/ EndCode
  BY <1>4 DEF ReadCase, SetUp, EndCode
<1>5. CASE Interrupt
  BY <1>5 DEF Interrupt
<1>0. CASE Throw
  <2>1. pc = "code" /\ UNCHANGED <<queues, jobs, outcome, expired>>
    BY <1>0 DEF Throw
  <2>2. \/ pc' \in {"top", "drain", "timers"}
        \/ pc' = "fold" /\ (errors' = TRUE \/ timed_out' = TRUE)
    BY <1>0 DEF Throw, ThrowScript, ThrowJob, ThrowTimer, RecordError, TakeForInterrupt
  <2>3. UNCHANGED <<timed_out, posed>> \/ posed' = ~expired
    BY <1>0 DEF Throw, ThrowScript, ThrowJob, ThrowTimer, RecordError, TakeForInterrupt
  <2>4. outcome = "none"
    BY <2>1
  <2>5. (timed_out => expired \/ posed)'
    BY <2>1, <2>3
  <2> QED
    BY <2>1, <2>2, <2>4, <2>5
<1>6. CASE EndBatch \/ DrainJob \/ DrainExpired
  BY <1>6 DEF EndBatch, DrainJob, DrainExpired
<1>7. CASE Drained
  BY <1>7 DEF Drained, BatchInv, TypeOK
<1>8. CASE Collect \/ Fire \/ EndTimers \/ Sleep
  BY <1>8 DEF Collect, Fire, EndTimers, Sleep
<1>9. CASE Fold
  BY <1>9 DEF Fold
<1>10. CASE PrintOutput
  BY <1>10 DEF PrintOutput
<1> QED
  BY <1>0, <1>1, <1>2, <1>3, <1>4, <1>5, <1>6, <1>7, <1>8, <1>9, <1>10, Kinds DEF Moves

-----------------------------------------------------------------------------
(* The probe's steps keep the invariant.                                     *)
LEMMA NextInv == IInv /\ [Next]_vars => IInv'
BY TypeStep, OrderStep, BatchStep, LateStep, FoldStep DEF IInv

(* IInv holds whatever the script does and whenever the deadline passes.     *)
THEOREM Inductive == Spec => []IInv
BY InitInv, NextInv, PTL DEF Spec

(* The position, the queues' lengths, the timers and the diagnostics of      *)
(* run_script_with_executor keep their types.                                *)
THEOREM TypeCorrect == Spec => []TypeOK
<1>1. IInv => TypeOK
  BY DEF IInv
<1> QED
  BY Inductive, <1>1, PTL

(* VerdictIsFinal: run_script_with_executor gives a verdict only when every  *)
(* child request was executed, once, in the order of sending and in time,    *)
(* and no promise job is left; it begins at most one request late, and it    *)
(* reports a timeout only after the deadline or for an exception it took for *)
(* an interrupt.                                                             *)
THEOREM VerdictCorrect == Spec => []VerdictIsFinal
<1>1. IInv => VerdictIsFinal
  <2> SUFFICES ASSUME IInv PROVE VerdictIsFinal
    OBVIOUS
  <2> USE DEF IInv
  <2>1. \A i \in DOMAIN records : records[i].op = i
    BY LenProperties DEF QueueTypes, OrderInv
  <2>2. lateCalls <= 1 /\ (outcome = "timeout" => expired \/ posed)
    BY DEF LateInv, FoldInv
  <2>3. ASSUME outcome \in {"passed", "failed"}
        PROVE  Len(records) = next_op - 1 /\ jobs = 0 /\ lateCalls = 0
    <3>1. batch = <<>> /\ pending = <<>> /\ jobs = 0 /\ ~errors /\ ~timed_out
      BY <2>3 DEF FoldInv
    <3>2. Len(batch) = 0 /\ Len(pending) = 0 /\ Len(records) \in Nat
      BY <3>1, LenProperties DEF QueueTypes
    <3>3. lateCalls = 0
      <4>1. pc \in {"print", "done"} /\ lateCalls \in Nat
        BY <2>3 DEF FoldInv, QueueTypes
      <4> QED
        BY <3>1, <4>1 DEF LateInv
    <3> QED
      BY <3>1, <3>2, <3>3 DEF OrderInv
  <2> QED
    BY <2>1, <2>2, <2>3 DEF VerdictIsFinal
<1> QED
  BY Inductive, <1>1, PTL
=============================================================================
