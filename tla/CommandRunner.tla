---------------------------- MODULE CommandRunner ----------------------------
(***************************************************************************)
(* crates/mdok-command: one call of `run` on an already validated argv.     *)
(*                                                                         *)
(* Four threads and a process group interleave: the calling thread (poll    *)
(* loop, kill, bounded wait for the reaper, bounded join of the readers),   *)
(* two reader threads that drain stdout and stderr against one shared byte  *)
(* budget, the reaper thread that waits for the group, and the processes    *)
(* that write, exit, fork and die when signalled.  Bytes are counted, their *)
(* values are left out.  Time is a counter that stops at the deadline,      *)
(* since the code only ever asks whether the deadline has passed.           *)
(***************************************************************************)
EXTENDS Integers, FiniteSets

CONSTANTS Limit,        \* CommandPolicy::max_output_bytes
          Deadline,     \* CommandPolicy::timeout, in ticks
          MaxWrite,     \* bound: bytes the processes write to one stream
          Buffer        \* size of the read buffer in read_limited

ASSUME RunnerAssumption ==
    /\ Limit \in Nat \ {0}      \* validate_argv refuses a zero limit ...
    /\ Deadline \in Nat \ {0}   \* ... and a zero timeout
    /\ MaxWrite \in Nat
    /\ Buffer \in Nat \ {0}

Streams == {"stdout", "stderr"}
Processes == {"leader", "child", "escaped"}
Group == {"leader", "child"}     \* "escaped" left the group with setsid
Statuses == {"zero", "nonzero", "signal"}
NoResult == [kind |-> "none"]

VARIABLES
    now,            \* Instant::now(), capped at Deadline
    alive,          \* processes that run and hold the pipes' write ends
    forked,         \* processes that were ever started
    signalled,      \* the group has been sent its kill signal
    status,         \* exit status of the leader, "none" while it runs
    written,        \* bytes written to each pipe so far
    consumed,       \* bytes each reader has taken out of its pipe
    reserved,       \* OutputState::reserved
    truncated,      \* OutputState::truncated
    rd,             \* per reader: position, bytes in hand, counter value loaded
    out,            \* bytes each reader has appended to its output
    readFailed,     \* streams whose reader ended on a read error
    reaper,         \* message of the reaper thread
    main,           \* position of the calling thread
    leaderStatus,   \* status try_wait delivered, "none" otherwise
    reapStatus,     \* status the reap returned
    timedOut,
    limitExceeded,
    result          \* what `run` returned

osVars == <<alive, forked, signalled, status, written>>
readerVars == <<consumed, reserved, truncated, rd, out, readFailed>>
mainVars == <<main, leaderStatus, reapStatus, timedOut, limitExceeded, result>>
vars == <<now, osVars, readerVars, reaper, mainVars>>

ReaderAt(pc, count, current) == [pc |-> pc, count |-> count, current |-> current]

Init ==
    /\ now = 0
    /\ alive = {} /\ forked = {} /\ signalled = FALSE /\ status = "none"
    /\ written = [s \in Streams |-> 0]
    /\ consumed = [s \in Streams |-> 0]
    /\ reserved = 0 /\ truncated = FALSE
    /\ rd = [s \in Streams |-> ReaderAt("idle", 0, 0)]
    /\ out = [s \in Streams |-> 0]
    /\ readFailed = {}
    /\ reaper = "none"
    /\ main = "spawn"
    /\ leaderStatus = "none" /\ reapStatus = "none"
    /\ timedOut = FALSE /\ limitExceeded = FALSE
    /\ result = NoResult

-----------------------------------------------------------------------------
(* The environment: the clock and the processes (outside this repository).  *)

Tick ==
    /\ now < Deadline
    /\ now' = now + 1
    /\ UNCHANGED <<osVars, readerVars, reaper, mainVars>>

Write(s, n) ==
    /\ alive # {}
    /\ written[s] + n <= MaxWrite
    /\ written' = [written EXCEPT ![s] = @ + n]
    /\ UNCHANGED <<now, alive, forked, signalled, status, readerVars, reaper, mainVars>>

Fork(p) ==
    /\ "leader" \in alive
    /\ p \notin forked
    /\ ~signalled
    /\ alive' = alive \cup {p}
    /\ forked' = forked \cup {p}
    /\ UNCHANGED <<now, signalled, status, written, readerVars, reaper, mainVars>>

(* A process ends by itself; a signalled group member can only be killed.   *)
Exit(p, st) ==
    /\ p \in alive
    /\ signalled /\ p \in Group => st = "signal"
    /\ alive' = alive \ {p}
    /\ status' = IF p = "leader" THEN st ELSE status
    /\ UNCHANGED <<now, forked, signalled, written, readerVars, reaper, mainVars>>

Environment ==
    \/ \E s \in Streams, n \in 1..MaxWrite : Write(s, n)
    \/ \E p \in Processes \ {"leader"} : Fork(p)
    \/ \E p \in Processes, st \in Statuses : Exit(p, st)

-----------------------------------------------------------------------------
(* read_limited and OutputState::reserve, one reader thread per stream.     *)

SetReader(s, r) == rd' = [rd EXCEPT ![s] = r]

ReadBytes(s, n) ==
    /\ rd[s].pc = "read"
    /\ n <= Buffer /\ n <= written[s] - consumed[s]
    /\ consumed' = [consumed EXCEPT ![s] = @ + n]
    /\ SetReader(s, ReaderAt("load", n, 0))
    /\ UNCHANGED <<now, osVars, reserved, truncated, out, readFailed, reaper, mainVars>>

(* read returns 0: the pipe is drained and no process holds its write end.  *)
ReadEof(s) ==
    /\ rd[s].pc = "read"
    /\ written[s] = consumed[s] /\ alive = {}
    /\ SetReader(s, ReaderAt("done", 0, 0))
    /\ UNCHANGED <<now, osVars, consumed, reserved, truncated, out, readFailed, reaper, mainVars>>

(* read fails: the reader returns what it has and sets no flag.             *)
ReadError(s) ==
    /\ rd[s].pc = "read"
    /\ readFailed' = readFailed \cup {s}
    /\ SetReader(s, ReaderAt("done", 0, 0))
    /\ UNCHANGED <<now, osVars, consumed, reserved, truncated, out, reaper, mainVars>>

ReserveLoad(s) ==
    /\ rd[s].pc = "load"
    /\ SetReader(s, ReaderAt(IF reserved >= Limit THEN "full" ELSE "cas", rd[s].count, reserved))
    /\ UNCHANGED <<now, osVars, consumed, reserved, truncated, out, readFailed, reaper, mainVars>>

(* The budget was already used up: raise the flag and keep nothing.         *)
ReserveFull(s) ==
    /\ rd[s].pc = "full"
    /\ truncated' = TRUE
    /\ SetReader(s, ReaderAt("done", 0, 0))
    /\ UNCHANGED <<now, osVars, consumed, reserved, out, readFailed, reaper, mainVars>>

Available(s) ==
    LET room == Limit - rd[s].current
    IN IF rd[s].count <= room THEN rd[s].count ELSE room

(* Bug: the counter is stored, not compared and exchanged.                  *)
ReserveStore(s) ==
    /\ rd[s].pc = "cas"
    /\ reserved' = rd[s].current + Available(s)
    /\ out' = [out EXCEPT ![s] = @ + Available(s)]
    /\ SetReader(s, IF Available(s) < rd[s].count
                      THEN ReaderAt("flag", rd[s].count, rd[s].current)
                      ELSE ReaderAt("read", 0, 0))
    /\ UNCHANGED <<now, osVars, consumed, truncated, readFailed, reaper, mainVars>>

(* compare_exchange: a lost race goes back to the load.                     *)
ReserveCas(s) ==
    /\ rd[s].pc = "cas"
    /\ \/ /\ reserved # rd[s].current
          /\ SetReader(s, ReaderAt("load", rd[s].count, rd[s].current))
          /\ UNCHANGED <<reserved, out>>
       \/ /\ reserved = rd[s].current
          /\ reserved' = reserved + Available(s)
          /\ out' = [out EXCEPT ![s] = @ + Available(s)]
          /\ SetReader(s, IF Available(s) < rd[s].count
                            THEN ReaderAt("flag", rd[s].count, rd[s].current)
                            ELSE ReaderAt("read", 0, 0))
    /\ UNCHANGED <<now, osVars, consumed, truncated, readFailed, reaper, mainVars>>

ReserveFlag(s) ==
    /\ rd[s].pc = "flag"
    /\ truncated' = TRUE
    /\ SetReader(s, ReaderAt("done", 0, 0))
    /\ UNCHANGED <<now, osVars, consumed, reserved, out, readFailed, reaper, mainVars>>

Reader(s) ==
    \/ \E n \in 1..Buffer : ReadBytes(s, n)
    \/ ReadEof(s)
    \/ ReadError(s)
    \/ ReserveLoad(s)
    \/ ReserveFull(s)
    \/ ReserveCas(s)
    \/ ReserveFlag(s)

ReadersDone == \A s \in Streams : rd[s].pc = "done"

-----------------------------------------------------------------------------
(* The reaper thread: child.wait() returns once every process of the group  *)
(* is gone, or fails, or the thread dies without sending.                   *)

Reaper(msg) ==
    /\ reaper = "waiting"
    /\ msg \in {"status", "error", "disconnected"}
    /\ msg = "status" => alive \cap Group = {}
    /\ reaper' = msg
    /\ UNCHANGED <<now, osVars, readerVars, mainVars>>

-----------------------------------------------------------------------------
(* The calling thread.                                                      *)

Expired == now >= Deadline

Fail(code) == result' = [kind |-> "err", code |-> code] /\ main' = "returned"

(* group_spawn and the two reader threads.                                  *)
Spawn ==
    /\ main = "spawn"
    /\ \/ /\ Fail("E_START")
          /\ UNCHANGED <<alive, forked, rd>>
       \/ /\ alive' = {"leader"} /\ forked' = {"leader"}
          /\ rd' = [s \in Streams |-> ReaderAt("read", 0, 0)]
          /\ main' = "deadline"
          /\ UNCHANGED result
    /\ UNCHANGED <<now, signalled, status, written, consumed, reserved, truncated, out,
                   readFailed, reaper, leaderStatus, reapStatus, timedOut, limitExceeded>>

CheckDeadline ==
    /\ main = "deadline"
    /\ timedOut' = Expired
    /\ main' = IF Expired THEN "kill" ELSE "poll"
    /\ UNCHANGED <<now, osVars, readerVars, reaper, leaderStatus, reapStatus,
                   limitExceeded, result>>

(* try_wait; an error of the poll returns at once, without a kill.          *)
Poll ==
    /\ main = "poll"
    /\ \/ /\ Fail("E_START")
          /\ UNCHANGED leaderStatus
       \/ /\ leaderStatus' = status
          /\ main' = IF status = "none" THEN "flag" ELSE "kill"
          /\ UNCHANGED result
    /\ UNCHANGED <<now, osVars, readerVars, reaper, reapStatus, timedOut, limitExceeded>>

(* The truncated flag is looked at last; otherwise sleep and poll again.    *)
CheckTruncated ==
    /\ main = "flag"
    /\ limitExceeded' = truncated
    /\ main' = IF truncated THEN "kill" ELSE "deadline"
    /\ UNCHANGED <<now, osVars, readerVars, reaper, leaderStatus, reapStatus, timedOut, result>>

(* Bug: a leader that exited by itself leaves nothing to kill.              *)
KillOnlyRunningLeader ==
    /\ main = "kill"
    /\ signalled' = (leaderStatus = "none")
    /\ reaper' = "waiting"
    /\ main' = "reap"
    /\ UNCHANGED <<now, alive, forked, status, written, readerVars, leaderStatus,
                   reapStatus, timedOut, limitExceeded, result>>

(* reap_group_with_deadline: signal the group and start the reaper thread.  *)
KillGroup ==
    /\ main = "kill"
    /\ signalled' = TRUE
    /\ reaper' = "waiting"
    /\ main' = "reap"
    /\ UNCHANGED <<now, alive, forked, status, written, readerVars, leaderStatus,
                   reapStatus, timedOut, limitExceeded, result>>

ReapOk(st) == reapStatus' = st /\ main' = "join" /\ UNCHANGED result

(* recv_timeout: a message that is there wins over an expired deadline.     *)
Reap ==
    /\ main = "reap"
    /\ \/ reaper = "status" /\ ReapOk(status)
       \/ reaper = "error" /\ Fail("E_START") /\ UNCHANGED reapStatus
       \/ reaper = "waiting" /\ Expired /\ Fail("E_TIMEOUT") /\ UNCHANGED reapStatus
       \/ reaper = "disconnected" /\ leaderStatus # "none" /\ ReapOk(leaderStatus)
       \/ /\ reaper = "disconnected" /\ leaderStatus = "none"
          /\ Fail("E_START") /\ UNCHANGED reapStatus
    /\ UNCHANGED <<now, osVars, readerVars, reaper, leaderStatus, timedOut, limitExceeded>>

(* Bug: at the deadline the readers are abandoned and the result is kept.   *)
JoinAbandonsReaders ==
    /\ main = "join"
    /\ ReadersDone \/ Expired
    /\ main' = "finish"
    /\ UNCHANGED <<now, osVars, readerVars, reaper, leaderStatus, reapStatus,
                   timedOut, limitExceeded, result>>

(* Bug: the join has no deadline.                                           *)
JoinForever ==
    /\ main = "join"
    /\ ReadersDone
    /\ main' = "finish"
    /\ UNCHANGED <<now, osVars, readerVars, reaper, leaderStatus, reapStatus,
                   timedOut, limitExceeded, result>>

(* join_readers_with_deadline: finished readers win over the deadline.      *)
Join ==
    /\ main = "join"
    /\ \/ ReadersDone /\ main' = "finish" /\ UNCHANGED result
       \/ ~ReadersDone /\ Expired /\ Fail("E_TIMEOUT")
    /\ UNCHANGED <<now, osVars, readerVars, reaper, leaderStatus, reapStatus,
                   timedOut, limitExceeded>>

(* Bug: the flag is not looked at again after the readers were joined.      *)
FinishWithoutFlag ==
    /\ main = "finish"
    /\ result' = [kind |-> "ok",
                  success |-> reapStatus = "zero" /\ ~timedOut /\ ~limitExceeded,
                  timed_out |-> timedOut,
                  output_truncated |-> limitExceeded,
                  stdout_bytes |-> out["stdout"],
                  stderr_bytes |-> out["stderr"]]
    /\ main' = "returned"
    /\ UNCHANGED <<now, osVars, readerVars, reaper, leaderStatus, reapStatus, timedOut,
                   limitExceeded>>

Finish ==
    LET over == limitExceeded \/ truncated
    IN /\ main = "finish"
       /\ limitExceeded' = over
       /\ result' = [kind |-> "ok",
                     success |-> reapStatus = "zero" /\ ~timedOut /\ ~over,
                     timed_out |-> timedOut,
                     output_truncated |-> over,
                     stdout_bytes |-> out["stdout"],
                     stderr_bytes |-> out["stderr"]]
       /\ main' = "returned"
       /\ UNCHANGED <<now, osVars, readerVars, reaper, leaderStatus, reapStatus, timedOut>>

Main == Spawn \/ CheckDeadline \/ Poll \/ CheckTruncated \/ KillGroup \/ Reap \/ Join \/ Finish

-----------------------------------------------------------------------------
(* After the result the processes may go on; the system may rest when they  *)
(* and the threads have.                                                    *)
Done == main = "returned" /\ UNCHANGED vars

Next ==
    \/ Tick
    \/ Environment
    \/ \E s \in Streams : Reader(s)
    \/ \E msg \in {"status", "error", "disconnected"} : Reaper(msg)
    \/ Main
    \/ Done

Spec == Init /\ [][Next]_vars

(* The calling thread is scheduled and time passes; nothing is assumed of   *)
(* the processes, the readers or the reaper.                                *)
FairSpec == Spec /\ WF_vars(Main) /\ WF_vars(Tick)

-----------------------------------------------------------------------------
Total(f) == f["stdout"] + f["stderr"]
Returned(kind) == main = "returned" /\ result.kind = kind

ReaderStates == [pc : {"idle", "read", "load", "full", "cas", "flag", "done"},
                 count : 0..Buffer, current : 0..Limit]

Results ==
    {NoResult}
    \cup [kind : {"err"}, code : {"E_START", "E_TIMEOUT"}]
    \cup [kind : {"ok"}, success : BOOLEAN, timed_out : BOOLEAN, output_truncated : BOOLEAN,
          stdout_bytes : 0..Limit, stderr_bytes : 0..Limit]

(* Every variable has its type; the reserved counter, the loaded copies of   *)
(* it and the reported sizes stay within the limit.                         *)
TypeOK ==
    /\ now \in 0..Deadline
    /\ alive \subseteq Processes /\ forked \subseteq Processes
    /\ signalled \in BOOLEAN /\ status \in Statuses \cup {"none"}
    /\ written \in [Streams -> 0..MaxWrite]
    /\ consumed \in [Streams -> 0..MaxWrite]
    /\ reserved \in 0..Limit /\ truncated \in BOOLEAN
    /\ rd \in [Streams -> ReaderStates]
    /\ out \in [Streams -> 0..Limit]
    /\ readFailed \subseteq Streams
    /\ reaper \in {"none", "waiting", "status", "error", "disconnected"}
    /\ main \in {"spawn", "deadline", "poll", "flag", "kill", "reap", "join", "finish", "returned"}
    /\ leaderStatus \in Statuses \cup {"none"}
    /\ reapStatus \in Statuses \cup {"none"}
    /\ timedOut \in BOOLEAN /\ limitExceeded \in BOOLEAN
    /\ result \in Results

(* The two readers together never retain more than max_output_bytes, however *)
(* their loads and compare-exchanges interleave (OutputState::reserve).      *)
BudgetRespected == Total(out) = reserved /\ reserved <= Limit

(* The exceeded flag is raised only when the budget is full and a byte that  *)
(* was read has really been dropped: output that just fits is not truncated. *)
TruncationIsReal ==
    truncated => /\ reserved = Limit
                 /\ Total(consumed) > Total(out)

(* A result reported as success comes from a leader that exited zero, and,   *)
(* unless a pipe read failed, holds every byte that was written by processes *)
(* that have all ended: neither the limit, the kill of the group nor the     *)
(* deadline cut anything off.                                                *)
SuccessIsComplete ==
    Returned("ok") /\ result.success =>
        /\ status = "zero"
        /\ readFailed = {} => alive = {} /\ out = written

(* A result that is not flagged as truncated holds everything the readers    *)
(* took out of the pipes, also when the leader ended before the flag was set.*)
UnflaggedIsWhole ==
    Returned("ok") /\ ~result.output_truncated => Total(consumed) = Total(out)

(* Whatever cut the command off, its process group has been signalled before *)
(* `run` returns a result or a timeout.                                     *)
CutoffKillsGroup ==
    Returned("ok") \/ (Returned("err") /\ result.code = "E_TIMEOUT") => signalled

(* A byte has been turned away, although the flag may not be stored yet.    *)
Exceeded == truncated \/ \E s \in Streams : rd[s].pc \in {"full", "flag"}

(* Reserving by load, compare-exchange and a late flag store looks to an     *)
(* observer like taking bytes from the budget in one step.                   *)
Budget == INSTANCE OutputBudget WITH
            retained <- reserved,
            exceeded <- Exceeded,
            MaxOffer <- Buffer
BudgetSpec == Budget!Spec

(* The deadline bounds the whole call: `run` returns although the processes  *)
(* never exit, a descendant keeps the pipes open, or the reaper never wakes. *)
AlwaysReturns == <>(main = "returned")
=============================================================================
