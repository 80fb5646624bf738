------------------------ MODULE CommandRunnerProofs ------------------------
(***************************************************************************)
(* Proofs about CommandRunner, for every limit, deadline, buffer size and   *)
(* amount of output.                                                        *)
(***************************************************************************)
EXTENDS CommandRunner, TLAPS

(* The bytes a reader holds between its read and the end of `reserve`.      *)
Holding(s) == rd[s].pc \in {"load", "full", "cas"}

(* What one reader knows at each position.                                  *)
ReaderInv(s) ==
    /\ consumed[s] <= written[s]
    /\ out[s] <= consumed[s]
    /\ Holding(s) => rd[s].count >= 1 /\ consumed[s] = out[s] + rd[s].count
    /\ rd[s].pc \in {"idle", "read"} => consumed[s] = out[s]
    /\ rd[s].pc \in {"full", "flag"} => reserved = Limit
    /\ rd[s].pc = "cas" => rd[s].current < Limit
    /\ rd[s].pc = "flag" => out[s] < consumed[s]
    /\ rd[s].pc = "done" /\ out[s] < consumed[s] => truncated
    /\ rd[s].pc = "done" /\ s \notin readFailed /\ out[s] = consumed[s]
         => alive = {} /\ written[s] = consumed[s]

(* The budget over both readers.                                            *)
BudgetInv ==
    /\ Total(out) = reserved
    /\ \A s \in Streams : ReaderInv(s)
    /\ truncated => reserved = Limit
    /\ truncated => \E s \in Streams : rd[s].pc = "done" /\ out[s] < consumed[s]

(* The calling thread: when readers exist, which statuses it may hold, and  *)
(* what each of its positions has behind it.                                *)
MainInv ==
    /\ main = "spawn" => status = "none" /\ alive = {} /\ \A s \in Streams : rd[s].pc = "idle"
    /\ status # "none" => "leader" \notin alive
    /\ leaderStatus # "none" => leaderStatus = status
    /\ reapStatus # "none" => reapStatus = status
    /\ main \in {"reap", "join", "finish"} => signalled
    /\ Returned("ok") => /\ signalled
                         /\ ReadersDone
                         /\ truncated => result.output_truncated
                         /\ result.success => reapStatus = "zero"
                         /\ result.success => ~result.output_truncated
    /\ Returned("err") /\ result.code = "E_TIMEOUT" => signalled
    /\ main = "finish" => ReadersDone
    /\ main # "returned" => result = NoResult

IInv == TypeOK /\ BudgetInv /\ MainInv

USE DEF Streams, Processes, Group, Statuses, NoResult, ReaderAt, Total

-----------------------------------------------------------------------------
(* The initial state satisfies the inductive invariant.                     *)
LEMMA InitIInv == Init => IInv
  <1> SUFFICES ASSUME Init PROVE IInv
    OBVIOUS
  <1>1. TypeOK
    <2>1. rd \in [Streams -> ReaderStates]
      BY RunnerAssumption DEF Init, ReaderStates
    <2>2. result \in Results
      BY DEF Init, Results
    <2>3. /\ now \in 0..Deadline /\ reserved \in 0..Limit
          /\ written \in [Streams -> 0..MaxWrite] /\ consumed \in [Streams -> 0..MaxWrite]
          /\ out \in [Streams -> 0..Limit]
      BY RunnerAssumption DEF Init
    <2>4. /\ signalled \in BOOLEAN /\ truncated \in BOOLEAN
          /\ timedOut \in BOOLEAN /\ limitExceeded \in BOOLEAN
      BY Zenon DEF Init
    <2>5. /\ alive = {} /\ forked = {} /\ readFailed = {} /\ main = "spawn" /\ reaper = "none"
          /\ status = "none" /\ leaderStatus = "none" /\ reapStatus = "none"
      BY DEF Init
    <2> QED
      BY <2>1, <2>2, <2>3, <2>4, <2>5 DEF TypeOK
  <1>2. BudgetInv
    BY DEF Init, BudgetInv, ReaderInv, Holding
  <1>3. MainInv
    BY DEF Init, MainInv, Returned
  <1> QED
    BY <1>1, <1>2, <1>3 DEF IInv

-----------------------------------------------------------------------------
(* Type correctness is preserved; that the counters stay within the limit   *)
(* uses the accounting of BudgetInv.                                        *)
LEMMA TypeStep == IInv /\ [Next]_vars => TypeOK'
  <1> SUFFICES ASSUME IInv, [Next]_vars PROVE TypeOK'
    OBVIOUS
  <1> USE RunnerAssumption DEF osVars, readerVars, mainVars, SetReader
  <1>0. TypeOK /\ BudgetInv
    BY DEF IInv
  <1>1. CASE Tick
    BY <1>0, <1>1 DEF Tick, TypeOK
  <1>2. CASE Environment
    <2>1. ASSUME NEW s \in Streams, NEW n \in 1..MaxWrite, Write(s, n) PROVE TypeOK'
      BY <1>0, <2>1 DEF Write, TypeOK
    <2>2. ASSUME NEW p \in Processes \ {"leader"}, Fork(p) PROVE TypeOK'
      BY <1>0, <2>2 DEF Fork, TypeOK
    <2>3. ASSUME NEW p \in Processes, NEW st \in Statuses, Exit(p, st) PROVE TypeOK'
      BY <1>0, <2>3 DEF Exit, TypeOK
    <2> QED
      BY <1>2, <2>1, <2>2, <2>3 DEF Environment
  <1>3. ASSUME NEW s \in Streams, Reader(s) PROVE TypeOK'
    <2>0. rd[s] \in ReaderStates /\ ReaderInv(s)
      BY <1>0 DEF TypeOK, BudgetInv
    <2>1. ASSUME NEW n \in 1..Buffer, ReadBytes(s, n) PROVE TypeOK'
      BY <1>0, <2>1 DEF ReadBytes, TypeOK, ReaderStates
    <2>2. CASE ReadEof(s)
      BY <1>0, <2>2 DEF ReadEof, TypeOK, ReaderStates
    <2>3. CASE ReadError(s)
      BY <1>0, <2>3 DEF ReadError, TypeOK, ReaderStates
    <2>4. CASE ReserveLoad(s)
      BY <1>0, <2>0, <2>4 DEF ReserveLoad, TypeOK, ReaderStates
    <2>5. CASE ReserveFull(s)
      BY <1>0, <2>5 DEF ReserveFull, TypeOK, ReaderStates
    <2>6. CASE ReserveCas(s)
      BY <1>0, <2>0, <2>6
         DEF ReserveCas, TypeOK, ReaderStates, Available, BudgetInv, ReaderInv, Holding
    <2>7. CASE ReserveFlag(s)
      BY <1>0, <2>7 DEF ReserveFlag, TypeOK, ReaderStates
    <2> QED
      BY <1>3, <2>1, <2>2, <2>3, <2>4, <2>5, <2>6, <2>7 DEF Reader
  <1>4. ASSUME NEW msg \in {"status", "error", "disconnected"}, Reaper(msg) PROVE TypeOK'
    BY <1>0, <1>4 DEF Reaper, TypeOK
  <1>5. CASE Main
    <2>1. CASE Spawn
      <3>1. rd' \in [Streams -> ReaderStates]
        BY <1>0, <2>1 DEF Spawn, TypeOK, ReaderStates
      <3>2. result' \in Results
        BY <1>0, <2>1 DEF Spawn, Fail, TypeOK, Results
      <3>3. alive' \subseteq Processes /\ forked' \subseteq Processes
        BY <1>0, <2>1 DEF Spawn, TypeOK
      <3>4. main' \in {"deadline", "returned"}
        BY <2>1 DEF Spawn, Fail
      <3>5. UNCHANGED <<now, signalled, status, written, consumed, reserved, truncated, out,
                        readFailed, reaper, leaderStatus, reapStatus, timedOut, limitExceeded>>
        BY <2>1 DEF Spawn
      <3> QED
        BY <1>0, <3>1, <3>2, <3>3, <3>4, <3>5 DEF TypeOK
    <2>2. CASE CheckDeadline
      BY <1>0, <2>2 DEF CheckDeadline, Expired, TypeOK
    <2>3. CASE Poll
      BY <1>0, <2>3 DEF Poll, Fail, TypeOK, Results
    <2>4. CASE CheckTruncated
      BY <1>0, <2>4 DEF CheckTruncated, TypeOK
    <2>5. CASE KillGroup
      BY <1>0, <2>5 DEF KillGroup, TypeOK
    <2>6. CASE Reap
      BY <1>0, <2>6 DEF Reap, ReapOk, Fail, TypeOK, Results
    <2>7. CASE Join
      BY <1>0, <2>7 DEF Join, Fail, TypeOK, Results
    <2>8. CASE Finish
      BY <1>0, <2>8 DEF Finish, TypeOK, Results
    <2> QED
      BY <1>5, <2>1, <2>2, <2>3, <2>4, <2>5, <2>6, <2>7, <2>8 DEF Main
  <1>6. CASE Done \/ UNCHANGED vars
    <2>1. UNCHANGED vars
      BY <1>6 DEF Done
    <2> QED
      BY <1>0, <2>1 DEF vars, TypeOK
  <1> QED
    BY <1>1, <1>2, <1>3, <1>4, <1>5, <1>6 DEF Next

-----------------------------------------------------------------------------
(* The accounting of the readers is preserved by every step.                *)
LEMMA BudgetStep == IInv /\ [Next]_vars => BudgetInv'
  <1> SUFFICES ASSUME IInv, [Next]_vars PROVE BudgetInv'
    OBVIOUS
  <1> USE RunnerAssumption DEF osVars, readerVars, mainVars, SetReader
  <1>0. TypeOK /\ BudgetInv /\ MainInv
    BY DEF IInv
  <1>1. CASE Tick
    BY <1>0, <1>1 DEF Tick, BudgetInv, ReaderInv, Holding
  <1>2. CASE Environment
    <2>1. ASSUME NEW s \in Streams, NEW n \in 1..MaxWrite, Write(s, n) PROVE BudgetInv'
      <3>1. \A r \in Streams : ReaderInv(r)
        BY <1>0 DEF BudgetInv
      <3>2. \A r \in Streams : written'[r] >= written[r] /\ written'[r] \in Nat
        BY <1>0, <2>1 DEF Write, TypeOK
      <3>3. UNCHANGED <<readerVars, alive>> /\ alive # {}
        BY <2>1 DEF Write
      <3>4. \A r \in Streams : ReaderInv(r)'
        <4> SUFFICES ASSUME NEW r \in Streams PROVE ReaderInv(r)'
          OBVIOUS
        <4>1. consumed[r] \in Nat /\ written[r] \in Nat
          BY <1>0 DEF TypeOK
        <4>2. consumed[r] <= written'[r]
          BY <3>1, <3>2, <4>1 DEF ReaderInv
        <4> QED
          BY <3>1, <3>3, <4>2 DEF ReaderInv, Holding
      <3> QED
        BY <1>0, <3>3, <3>4 DEF BudgetInv
    <2>2. ASSUME NEW p \in Processes \ {"leader"}, Fork(p) PROVE BudgetInv'
      BY <1>0, <2>2 DEF Fork, TypeOK, BudgetInv, ReaderInv, Holding
    <2>3. ASSUME NEW p \in Processes, NEW st \in Statuses, Exit(p, st) PROVE BudgetInv'
      BY <1>0, <2>3 DEF Exit, TypeOK, BudgetInv, ReaderInv, Holding
    <2> QED
      BY <1>2, <2>1, <2>2, <2>3 DEF Environment
  <1>3. ASSUME NEW s \in Streams, Reader(s) PROVE BudgetInv'
    <2>0. rd[s] \in ReaderStates /\ ReaderInv(s)
      BY <1>0 DEF TypeOK, BudgetInv
    <2>1. ASSUME NEW n \in 1..Buffer, ReadBytes(s, n) PROVE BudgetInv'
      BY <1>0, <2>0, <2>1 DEF ReadBytes, TypeOK, BudgetInv, ReaderInv, Holding, ReaderStates
    <2>2. CASE ReadEof(s)
      BY <1>0, <2>0, <2>2 DEF ReadEof, TypeOK, BudgetInv, ReaderInv, Holding, ReaderStates
    <2>3. CASE ReadError(s)
      BY <1>0, <2>0, <2>3 DEF ReadError, TypeOK, BudgetInv, ReaderInv, Holding, ReaderStates
    <2>4. CASE ReserveLoad(s)
      BY <1>0, <2>0, <2>4 DEF ReserveLoad, TypeOK, BudgetInv, ReaderInv, Holding, ReaderStates
    <2>5. CASE ReserveFull(s)
      BY <1>0, <2>0, <2>5 DEF ReserveFull, TypeOK, BudgetInv, ReaderInv, Holding, ReaderStates
    <2>6. CASE ReserveCas(s)
      BY <1>0, <2>0, <2>6
         DEF ReserveCas, TypeOK, ReaderStates, Available, BudgetInv, ReaderInv, Holding
    <2>7. CASE ReserveFlag(s)
      BY <1>0, <2>0, <2>7 DEF ReserveFlag, TypeOK, BudgetInv, ReaderInv, Holding, ReaderStates
    <2> QED
      BY <1>3, <2>1, <2>2, <2>3, <2>4, <2>5, <2>6, <2>7 DEF Reader
  <1>4. ASSUME NEW msg \in {"status", "error", "disconnected"}, Reaper(msg) PROVE BudgetInv'
    BY <1>0, <1>4 DEF Reaper, BudgetInv, ReaderInv, Holding
  <1>5. CASE Main
    <2>1. CASE Spawn
      BY <1>0, <2>1 DEF Spawn, TypeOK, BudgetInv, MainInv, ReaderInv, Holding
    <2>2. CASE UNCHANGED <<readerVars, alive, written>>
      BY <1>0, <2>2 DEF BudgetInv, ReaderInv, Holding
    <2> QED
      BY <1>5, <2>1, <2>2
         DEF Main, CheckDeadline, Poll, CheckTruncated, KillGroup, Reap, Join, Finish
  <1>6. CASE Done \/ UNCHANGED vars
    BY <1>0, <1>6 DEF Done, vars, BudgetInv, ReaderInv, Holding
  <1> QED
    BY <1>1, <1>2, <1>3, <1>4, <1>5, <1>6 DEF Next

-----------------------------------------------------------------------------
(* What the calling thread knows is preserved by every step.                *)
LEMMA MainStep == IInv /\ [Next]_vars => MainInv'
  <1> SUFFICES ASSUME IInv, [Next]_vars PROVE MainInv'
    OBVIOUS
  <1> USE RunnerAssumption DEF osVars, readerVars, mainVars, SetReader
  <1>0. TypeOK /\ BudgetInv /\ MainInv
    BY DEF IInv
  <1>1. CASE Tick
    BY <1>0, <1>1 DEF Tick, MainInv, Returned, ReadersDone
  <1>2. CASE Environment
    <2>1. ASSUME NEW s \in Streams, NEW n \in 1..MaxWrite, Write(s, n) PROVE MainInv'
      BY <1>0, <2>1 DEF Write, MainInv, Returned, ReadersDone
    <2>2. ASSUME NEW p \in Processes \ {"leader"}, Fork(p) PROVE MainInv'
      BY <1>0, <2>2 DEF Fork, MainInv, Returned, ReadersDone
    <2>3. ASSUME NEW p \in Processes, NEW st \in Statuses, Exit(p, st) PROVE MainInv'
      <3>1. CASE p = "leader"
        <4>1. status = "none" /\ leaderStatus = "none" /\ reapStatus = "none" /\ main # "spawn"
          BY <1>0, <2>3, <3>1 DEF Exit, MainInv
        <4> QED
          BY <1>0, <2>3, <3>1, <4>1 DEF Exit, MainInv, Returned, ReadersDone
      <3>2. CASE p # "leader"
        BY <1>0, <2>3, <3>2 DEF Exit, MainInv, Returned, ReadersDone
      <3> QED
        BY <3>1, <3>2
    <2> QED
      BY <1>2, <2>1, <2>2, <2>3 DEF Environment
  <1>3. ASSUME NEW s \in Streams, Reader(s) PROVE MainInv'
    <2>1. rd[s].pc # "done" /\ rd[s].pc # "idle"
      BY <1>3 DEF Reader, ReadBytes, ReadEof, ReadError, ReserveLoad, ReserveFull,
                  ReserveCas, ReserveFlag
    <2>2. ~ReadersDone /\ main # "spawn"
      BY <1>0, <2>1 DEF ReadersDone, MainInv
    <2>3. UNCHANGED <<osVars, mainVars>>
      BY <1>3 DEF Reader, ReadBytes, ReadEof, ReadError, ReserveLoad, ReserveFull,
                  ReserveCas, ReserveFlag
    <2> QED
      BY <1>0, <2>2, <2>3 DEF MainInv, Returned
  <1>4. ASSUME NEW msg \in {"status", "error", "disconnected"}, Reaper(msg) PROVE MainInv'
    BY <1>0, <1>4 DEF Reaper, MainInv, Returned, ReadersDone
  <1>5. CASE Main
    <2>1. CASE Spawn
      <3>1. CASE Fail("E_START")
        BY <1>0, <2>1, <3>1 DEF Spawn, Fail, MainInv, Returned
      <3>2. CASE main' = "deadline" /\ UNCHANGED result
        BY <1>0, <2>1, <3>2 DEF Spawn, MainInv, Returned
      <3> QED
        BY <2>1, <3>1, <3>2 DEF Spawn
    <2>2. CASE CheckDeadline
      BY <1>0, <2>2 DEF CheckDeadline, TypeOK, MainInv, Returned, ReadersDone
    <2>3. CASE Poll
      BY <1>0, <2>3 DEF Poll, Fail, TypeOK, MainInv, Returned, ReadersDone
    <2>4. CASE CheckTruncated
      BY <1>0, <2>4 DEF CheckTruncated, TypeOK, MainInv, Returned, ReadersDone
    <2>5. CASE KillGroup
      BY <1>0, <2>5 DEF KillGroup, TypeOK, MainInv, Returned, ReadersDone
    <2>6. CASE Reap
      BY <1>0, <2>6 DEF Reap, ReapOk, Fail, TypeOK, MainInv, Returned, ReadersDone
    <2>7. CASE Join
      BY <1>0, <2>7 DEF Join, Fail, TypeOK, MainInv, Returned, ReadersDone
    <2>8. CASE Finish
      BY <1>0, <2>8 DEF Finish, TypeOK, MainInv, Returned, ReadersDone
    <2> QED
      BY <1>5, <2>1, <2>2, <2>3, <2>4, <2>5, <2>6, <2>7, <2>8 DEF Main
  <1>6. CASE Done \/ UNCHANGED vars
    BY <1>0, <1>6 DEF Done, vars, MainInv, Returned, ReadersDone
  <1> QED
    BY <1>1, <1>2, <1>3, <1>4, <1>5, <1>6 DEF Next

-----------------------------------------------------------------------------
(* IInv holds in every reachable state of a command run.                    *)
THEOREM Inductive == Spec => []IInv
  <1>1. Init => IInv
    BY InitIInv
  <1>2. IInv /\ [Next]_vars => IInv'
    BY TypeStep, BudgetStep, MainStep DEF IInv
  <1> QED
    BY <1>1, <1>2, PTL DEF Spec

(* Type correctness of `run` and its threads.                               *)
THEOREM TypeCorrect == Spec => []TypeOK
  <1>1. IInv => TypeOK
    BY DEF IInv
  <1> QED
    BY Inductive, <1>1, PTL

(* Two readers racing in OutputState::reserve never retain more than the    *)
(* combined limit.                                                          *)
THEOREM BudgetCorrect == Spec => []BudgetRespected
  <1>1. IInv => BudgetRespected
    BY RunnerAssumption DEF IInv, TypeOK, BudgetInv, BudgetRespected
  <1> QED
    BY Inductive, <1>1, PTL

(* The truncated flag means a full budget and a dropped byte.               *)
THEOREM TruncationCorrect == Spec => []TruncationIsReal
  <1>1. IInv => TruncationIsReal
    <2> SUFFICES ASSUME IInv, truncated PROVE reserved = Limit /\ Total(consumed) > Total(out)
      BY DEF TruncationIsReal
    <2>1. \A s \in Streams : consumed[s] \in Nat /\ out[s] \in Nat /\ out[s] <= consumed[s]
      BY RunnerAssumption DEF IInv, TypeOK, BudgetInv, ReaderInv
    <2>2. PICK s \in Streams : out[s] < consumed[s]
      BY DEF IInv, BudgetInv
    <2> QED
      BY <2>1, <2>2 DEF IInv, BudgetInv
  <1> QED
    BY Inductive, <1>1, PTL

(* A result without the flag holds every byte the readers took.             *)
THEOREM UnflaggedCorrect == Spec => []UnflaggedIsWhole
  <1>1. IInv => UnflaggedIsWhole
    <2> SUFFICES ASSUME IInv, Returned("ok"), ~result.output_truncated
                 PROVE  Total(consumed) = Total(out)
      BY DEF UnflaggedIsWhole
    <2>1. ReadersDone /\ ~truncated
      BY DEF IInv, MainInv
    <2>2. \A s \in Streams : consumed[s] \in Nat /\ out[s] \in Nat /\ out[s] <= consumed[s]
      BY RunnerAssumption DEF IInv, TypeOK, BudgetInv, ReaderInv
    <2>3. \A s \in Streams : ~(out[s] < consumed[s])
      BY <2>1 DEF IInv, BudgetInv, ReaderInv, ReadersDone
    <2> QED
      BY <2>2, <2>3
  <1> QED
    BY Inductive, <1>1, PTL

(* A success is a leader that exited zero; unless a pipe read failed, all    *)
(* that ended processes have written is retained.                           *)
THEOREM SuccessCorrect == Spec => []SuccessIsComplete
  <1>1. IInv => SuccessIsComplete
    <2> SUFFICES ASSUME IInv, Returned("ok"), result.success
                 PROVE  /\ status = "zero"
                        /\ readFailed = {} => alive = {} /\ out = written
      BY DEF SuccessIsComplete
    <2>1. status = "zero" /\ ReadersDone /\ ~truncated
      BY DEF IInv, MainInv
    <2>2. \A s \in Streams : out[s] = consumed[s]
      BY <2>1, RunnerAssumption DEF IInv, TypeOK, BudgetInv, ReaderInv, ReadersDone
    <2>3. ASSUME readFailed = {} PROVE alive = {} /\ out = written
      <3>1. alive = {} /\ \A s \in Streams : written[s] = out[s]
        BY <2>1, <2>2, <2>3 DEF IInv, BudgetInv, ReaderInv, ReadersDone
      <3>2. out \in [Streams -> 0..Limit] /\ written \in [Streams -> 0..MaxWrite]
        BY DEF IInv, TypeOK
      <3> QED
        BY <3>1, <3>2
    <2> QED
      BY <2>1, <2>3
  <1> QED
    BY Inductive, <1>1, PTL

(* No result and no timeout leaves `run` before the group was signalled.    *)
THEOREM CutoffCorrect == Spec => []CutoffKillsGroup
  <1>1. IInv => CutoffKillsGroup
    BY DEF IInv, MainInv, CutoffKillsGroup
  <1> QED
    BY Inductive, <1>1, PTL

-----------------------------------------------------------------------------
(* Every step of the readers is an atomic offer to the budget or invisible. *)
LEMMA BudgetRefinementStep ==
    IInv /\ [Next]_vars => [Budget!Next]_<<reserved, Exceeded>>
  <1> SUFFICES ASSUME IInv, [Next]_vars PROVE [Budget!Next]_<<reserved, Exceeded>>
    OBVIOUS
  <1> USE RunnerAssumption DEF osVars, readerVars, mainVars, SetReader
  <1>0. TypeOK /\ BudgetInv /\ MainInv
    BY DEF IInv
  <1>1. ASSUME UNCHANGED <<reserved, truncated, rd>> PROVE UNCHANGED <<reserved, Exceeded>>
    BY <1>1 DEF Exceeded
  <1>2. CASE Tick \/ Environment \/ Done \/ UNCHANGED vars
    BY <1>1, <1>2 DEF Tick, Environment, Write, Fork, Exit, Done, vars
  <1>3. ASSUME NEW s \in Streams, Reader(s) PROVE [Budget!Next]_<<reserved, Exceeded>>
    <2>0. rd[s] \in ReaderStates /\ ReaderInv(s) /\ rd \in [Streams -> ReaderStates]
      BY <1>0 DEF TypeOK, BudgetInv
    <2>1. ASSUME NEW n \in 1..Buffer, ReadBytes(s, n) PROVE UNCHANGED <<reserved, Exceeded>>
      BY <2>0, <2>1 DEF ReadBytes, Exceeded
    <2>2. CASE ReadEof(s) \/ ReadError(s)
      <3>1. UNCHANGED <<reserved, Exceeded>>
        BY <2>0, <2>2 DEF ReadEof, ReadError, Exceeded
      <3> QED
        BY <3>1
    <2>3. CASE ReserveLoad(s)
      <3>1. CASE reserved >= Limit
        <4>1. rd[s].count \in 1..Buffer /\ reserved = Limit
          BY <1>0, <2>0, <2>3, <3>1 DEF ReserveLoad, ReaderStates, ReaderInv, Holding, TypeOK
        <4>2. Exceeded' = TRUE /\ reserved' = reserved
          BY <2>0, <2>3, <3>1 DEF ReserveLoad, Exceeded
        <4>3. /\ Limit - reserved = 0 /\ reserved' = reserved + 0
              /\ Exceeded' <=> (Exceeded \/ 0 < rd[s].count)
          BY <1>0, <4>1, <4>2 DEF TypeOK
        <4>4. PICK n \in 1..Buffer : n = rd[s].count
          BY <4>1
        <4>5. Budget!Offer(n)
          <5>1. Limit - reserved = 0 /\ ~(n <= 0) /\ 0 < n
            BY <4>3, <4>4
          <5>2. reserved' = reserved + (IF n <= Limit - reserved THEN n ELSE Limit - reserved)
            BY <4>3, <5>1
          <5>3. Exceeded' = (Exceeded \/ (IF n <= Limit - reserved THEN n ELSE Limit - reserved) < n)
            BY <4>2, <5>1
          <5> QED
            BY <5>2, <5>3, Zenon DEF Budget!Offer
        <4> QED
          BY <4>5 DEF Budget!Next
      <3>2. CASE ~(reserved >= Limit)
        <4>1. UNCHANGED <<reserved, Exceeded>>
          BY <2>0, <2>3, <3>2 DEF ReserveLoad, Exceeded
        <4> QED
          BY <4>1
      <3> QED
        BY <3>1, <3>2
    <2>4. CASE ReserveFull(s) \/ ReserveFlag(s)
      <3>1. Exceeded /\ Exceeded' /\ reserved' = reserved
        BY <2>4 DEF ReserveFull, ReserveFlag, Exceeded
      <3> QED
        BY <3>1
    <2>5. CASE ReserveCas(s)
      <3>1. CASE reserved # rd[s].current
        <4>1. UNCHANGED <<reserved, Exceeded>>
          BY <2>0, <2>5, <3>1 DEF ReserveCas, Exceeded
        <4> QED
          BY <4>1
      <3>2. CASE reserved = rd[s].current
        <4>1. rd[s].count \in 1..Buffer /\ reserved \in Nat /\ reserved < Limit
          BY <1>0, <2>0, <2>5, <3>2 DEF ReserveCas, ReaderStates, ReaderInv, Holding, TypeOK
        <4>2. reserved' = reserved + Available(s)
          BY <2>5, <3>2 DEF ReserveCas
        <4>3. Exceeded' <=> (Exceeded \/ Available(s) < rd[s].count)
          BY <2>0, <2>5, <3>2 DEF ReserveCas, Exceeded
        <4>5. \E n \in 1..Buffer : Budget!Offer(n)
          BY <3>2, <4>1, <4>2, <4>3 DEF Budget!Offer, Available
        <4> QED
          BY <4>5 DEF Budget!Next
      <3> QED
        BY <3>1, <3>2
    <2> QED
      BY <1>3, <2>1, <2>2, <2>3, <2>4, <2>5 DEF Reader
  <1>4. ASSUME NEW msg \in {"status", "error", "disconnected"}, Reaper(msg)
        PROVE  [Budget!Next]_<<reserved, Exceeded>>
    BY <1>1, <1>4 DEF Reaper
  <1>5. CASE Main
    <2>1. CASE Spawn
      <3>1. UNCHANGED <<reserved, Exceeded>>
        BY <1>0, <2>1 DEF Spawn, MainInv, Exceeded
      <3> QED
        BY <3>1
    <2> QED
      BY <1>1, <1>5, <2>1
         DEF Main, CheckDeadline, Poll, CheckTruncated, KillGroup, Reap, Join, Finish
  <1> QED
    BY <1>2, <1>3, <1>4, <1>5 DEF Next

(* The lock-free budget implements the atomic one.                          *)
THEOREM BudgetRefinement == Spec => BudgetSpec
  <1>1. Init => Budget!Init
    BY DEF Init, Budget!Init, Exceeded
  <1>2. IInv /\ [Next]_vars => [Budget!Next]_(Budget!vars)
    BY BudgetRefinementStep DEF Budget!vars
  <1> QED
    BY Inductive, <1>1, <1>2, PTL DEF Spec, BudgetSpec, Budget!Spec
=============================================================================
