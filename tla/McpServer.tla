------------------------------ MODULE McpServer ------------------------------
(***************************************************************************)
(* crates/mdok-cli/src/mcp.rs: the MCP server over stdio.                   *)
(*                                                                         *)
(* The server reads the operator's host policy once, when it starts.  A     *)
(* document tool runs the mdok binary as a child process that loads a       *)
(* configuration for itself: the mdok.toml found upwards of the first path  *)
(* the client passed, which need not be the operator's.  An exec step of    *)
(* the child runs a command in a process group of its own.  A probe and an  *)
(* import run on a worker thread of the runtime.  The handlers of several   *)
(* calls are open at the same time, the operator's mdok.toml may be edited  *)
(* at any time, and the client may close the session at any time.           *)
(*                                                                         *)
(* What a host pattern matches is the constant Matching (host_matches).     *)
(***************************************************************************)
EXTENDS Integers, FiniteSets

CONSTANTS Calls, Hosts, Patterns,
          Matching,         \* pattern -> the hosts it matches
          ClientLists,      \* allow_hosts and deny_hosts that clients pass
          Foreign,          \* policy.allowed_hosts upwards of paths outside the project
          Invalid,          \* an mdok.toml that does not load
          None,
          MaxEdits          \* bound: edits of mdok.toml

ASSUME McpAssumption ==
    /\ Matching \in [Patterns -> SUBSET Hosts]
    /\ ClientLists \subseteq [allow : SUBSET Patterns, deny : SUBSET Patterns]
    /\ Foreign \subseteq (SUBSET Patterns) \cup {Invalid} /\ Foreign # {}
    /\ (\A list \in SUBSET Patterns : list # Invalid) /\ None \notin Hosts
    /\ MaxEdits \in Nat

VARIABLES
    config,     \* policy.allowed_hosts of the operator's mdok.toml, or Invalid
    edits,      \* edits of mdok.toml so far
    operator,   \* OperatorPolicy.allowed_hosts, read at start
    server,     \* "serving", "closing" (the runtime is being dropped), "exited"
    call,       \* call -> position of its handler, tool, the client's arguments, answer
    child,      \* call -> its child process: state, its command line's lists, the file's list
    command,    \* call -> the command of an exec step of its child
    worker,     \* call -> its thread: "none", "running", "done"
    request     \* call -> its child's latest request: host, and whether it was sent

vars == <<config, edits, operator, server, call, child, command, worker, request>>

Lists == SUBSET Patterns
Match(patterns) == UNION {Matching[p] : p \in patterns}

(* enforce_policy on a host: the denylist first, and an empty allowlist      *)
(* allows every host.                                                        *)
Admits(allowed, denied) ==
    (IF allowed = {} THEN Hosts ELSE Match(allowed)) \ Match(denied)

-----------------------------------------------------------------------------
(* mcp_operator_policy: a configuration that cannot be loaded counts as the  *)
(* default policy.                                                           *)
OperatorPolicy(c) == IF c = Invalid THEN {} ELSE c

Call(at, tool, inside, allow, deny, answer) ==
    [at |-> at, tool |-> tool, inside |-> inside, allow |-> allow, deny |-> deny,
     answer |-> answer]

Child(at, allow, deny, file) == [at |-> at, allow |-> allow, deny |-> deny, file |-> file]

Init ==
    /\ config \in Lists \cup {Invalid}
    /\ edits = 0
    /\ operator = OperatorPolicy(config)
    /\ server = "serving"
    /\ call = [c \in Calls |-> Call("none", "none", FALSE, {}, {}, "none")]
    /\ child = [c \in Calls |-> Child("none", {}, {}, {})]
    /\ command = [c \in Calls |-> "none"]
    /\ worker = [c \in Calls |-> "none"]
    /\ request = [c \in Calls |-> [host |-> None, sent |-> FALSE]]

At(c, at, answer) ==
    Call(at, call[c].tool, call[c].inside, call[c].allow, call[c].deny, answer)

Goto(c, at) == call' = [call EXCEPT ![c] = At(c, at, "none")]

Answer(c, answer) == call' = [call EXCEPT ![c] = At(c, "answered", answer)]

ChildAt(c, at) == Child(at, child[c].allow, child[c].deny, child[c].file)

Serving(c, tool, at) == server = "serving" /\ call[c].tool = tool /\ call[c].at = at

(* A request arrives and its handler starts.  The paths of a document tool   *)
(* are the client's: inside, the operator's mdok.toml is the one upwards of  *)
(* the first path.                                                           *)
Receive(c) ==
    /\ Serving(c, "none", "none")
    /\ \E tool \in {"probe", "import", "version"} :
          call' = [call EXCEPT ![c] = Call("received", tool, FALSE, {}, {}, "none")]
    /\ UNCHANGED <<config, edits, operator, server, child, command, worker, request>>

ReceiveDocument(c) ==
    /\ Serving(c, "none", "none")
    /\ \E lists \in ClientLists, inside \in BOOLEAN :
          call' = [call EXCEPT ![c] =
                      Call("received", "document", inside, lists.allow, lists.deny, "none")]
    /\ UNCHANGED <<config, edits, operator, server, child, command, worker, request>>

-----------------------------------------------------------------------------
(* document_tool.  No path, a refused environment file or variable name, an  *)
(* executable that is not found or does not start: the call is answered with *)
(* an error and there is no child.                                           *)
RefuseDocument(c) ==
    /\ Serving(c, "document", "received")
    /\ Answer(c, "error")
    /\ UNCHANGED <<config, edits, operator, server, child, command, worker, request>>

(* Bug: the client's list is subtracted from nothing.                        *)
DenyListOfClient(c) == call[c].deny

(* build_document_argv: the client's allowlist is turned into a denylist of  *)
(* the operator's patterns it does not name, if both lists name a pattern.   *)
DenyList(c) ==
    call[c].deny \cup IF operator # {} /\ call[c].allow # {}
                        THEN operator \ call[c].allow ELSE {}

(* Bug: the client's list is forwarded as --allow-host.                      *)
SpawnAllowing(c) ==
    /\ Serving(c, "document", "received")
    /\ child' = [child EXCEPT ![c] = Child("started", call[c].allow, call[c].deny, {})]
    /\ Goto(c, "waiting")
    /\ UNCHANGED <<config, edits, operator, server, command, worker, request>>

Spawn(c) ==
    /\ Serving(c, "document", "received")
    /\ child' = [child EXCEPT ![c] = Child("started", {}, DenyList(c), {})]
    /\ Goto(c, "waiting")
    /\ UNCHANGED <<config, edits, operator, server, command, worker, request>>

(* The child loads find_config of the first path, or the default policy, an  *)
(* empty list, when there is none; a file that does not load ends the run    *)
(* with EXIT_INPUT.                                                          *)
ChildLoads(c) ==
    /\ child[c].at = "started"
    /\ \E file \in IF call[c].inside THEN {config} ELSE Foreign :
          child' = [child EXCEPT ![c] = IF file = Invalid THEN ChildAt(c, "failed")
                                        ELSE Child("loaded", @.allow, @.deny, file)]
    /\ UNCHANGED <<config, edits, operator, server, call, command, worker, request>>

(* EffectiveConfig.allowed_hosts: the command line's list and the file's.    *)
Effective(c) == child[c].allow \cup child[c].file

(* A request of the document to host h, under the child's own policy.        *)
ChildRequests(c, h) ==
    /\ child[c].at = "loaded"
    /\ request' = [request EXCEPT
                      ![c] = [host |-> h, sent |-> h \in Admits(Effective(c), child[c].deny)]]
    /\ UNCHANGED <<config, edits, operator, server, call, child, command, worker>>

(* run of mdok-command: an exec step starts its command in a new process     *)
(* group (group_spawn).                                                      *)
ChildRunsCommand(c) ==
    /\ child[c].at = "loaded" /\ command[c] # "running"
    /\ command' = [command EXCEPT ![c] = "running"]
    /\ UNCHANGED <<config, edits, operator, server, call, child, worker, request>>

(* The command ends by itself or, while the child lives, by the child's      *)
(* limits; without the child nothing ends it but itself.                     *)
CommandEnds(c) ==
    /\ command[c] = "running"
    /\ command' = [command EXCEPT ![c] = "ended"]
    /\ UNCHANGED <<config, edits, operator, server, call, child, worker, request>>

(* No document is finished while its exec step runs.                         *)
ChildExits(c) ==
    /\ child[c].at = "loaded" /\ command[c] # "running"
    /\ \E at \in {"passed", "failed"} : child' = [child EXCEPT ![c] = ChildAt(c, at)]
    /\ UNCHANGED <<config, edits, operator, server, call, command, worker, request>>

Ended == {"passed", "failed", "killed"}
Alive(c) == child[c].at \in {"started", "loaded"}

(* wait_with_output returns and document_result reports the exit status.     *)
ChildAnswered(c) ==
    /\ Serving(c, "document", "waiting")
    /\ child[c].at \in Ended
    /\ Answer(c, IF child[c].at = "passed" THEN "ok" ELSE "notOk")
    /\ UNCHANGED <<config, edits, operator, server, child, command, worker, request>>

(* Bug: the child is not killed on drop.                                     *)
KillLeaves(cs) == UNCHANGED child

(* A handler's future is dropped with the child it waits for:                *)
(* kill_on_drop(true).  The signal goes to the child alone, which cannot     *)
(* catch it: a command of its exec step runs on.                             *)
Kill(cs) ==
    child' = [c \in Calls |-> IF c \in cs /\ Alive(c) THEN ChildAt(c, "killed") ELSE child[c]]

(* Bug: the timeout is tested only once the child has ended.                 *)
ChildTimeoutNever(c) ==
    /\ Serving(c, "document", "waiting")
    /\ child[c].at \in Ended
    /\ Answer(c, "error")
    /\ Kill({c})
    /\ UNCHANGED <<config, edits, operator, server, command, worker, request>>

(* tokio::time::timeout around wait_with_output, or the wait itself fails.   *)
ChildTimeout(c) ==
    /\ Serving(c, "document", "waiting")
    /\ Answer(c, "error")
    /\ Kill({c})
    /\ UNCHANGED <<config, edits, operator, server, command, worker, request>>

-----------------------------------------------------------------------------
(* build_probe_input refuses a network mode, a timeout or an object that     *)
(* does not decode.                                                          *)
RefuseProbe(c) ==
    /\ Serving(c, "probe", "received")
    /\ Answer(c, "error")
    /\ UNCHANGED <<config, edits, operator, server, child, command, worker, request>>

(* mdok_probe and mdok_import_postman hand their work to spawn_blocking.     *)
StartWorker(c) ==
    /\ Serving(c, "probe", "received") \/ Serving(c, "import", "received")
    /\ worker' = [worker EXCEPT ![c] = "running"]
    /\ Goto(c, "waiting")
    /\ UNCHANGED <<config, edits, operator, server, child, command, request>>

(* Bug: the thread waits for its handler to take the result.                 *)
WorkerDoneIfAwaited(c) ==
    /\ worker[c] = "running"
    /\ call[c].at = "waiting"
    /\ worker' = [worker EXCEPT ![c] = "done"]
    /\ UNCHANGED <<config, edits, operator, server, call, child, command, request>>

(* The thread ends, by itself or by the script's own time limit; nothing     *)
(* else stops it.                                                            *)
WorkerDone(c) ==
    /\ worker[c] = "running"
    /\ worker' = [worker EXCEPT ![c] = "done"]
    /\ UNCHANGED <<config, edits, operator, server, call, child, command, request>>

(* The result, an import's error or a panic of the thread.                   *)
WorkerAnswered(c) ==
    /\ Serving(c, "probe", "waiting") \/ Serving(c, "import", "waiting")
    /\ worker[c] = "done"
    /\ \E answer \in {"ok", "error"} : Answer(c, answer)
    /\ UNCHANGED <<config, edits, operator, server, child, command, worker, request>>

(* Only the probe has a wall-clock timeout; its thread runs on.              *)
ProbeTimeout(c) ==
    /\ Serving(c, "probe", "waiting")
    /\ Answer(c, "error")
    /\ UNCHANGED <<config, edits, operator, server, child, command, worker, request>>

Version(c) ==
    /\ Serving(c, "version", "received")
    /\ Answer(c, "ok")
    /\ UNCHANGED <<config, edits, operator, server, child, command, worker, request>>

-----------------------------------------------------------------------------
(* The client closes the session: waiting() returns, serve leaves block_on   *)
(* and the runtime is dropped with every handler that is still open.         *)
Close ==
    /\ server = "serving"
    /\ server' = "closing"
    /\ call' = [c \in Calls |-> IF call[c].at \in {"received", "waiting"}
                                  THEN At(c, "dropped", "none") ELSE call[c]]
    /\ Kill({c \in Calls : call[c].at = "waiting"})
    /\ UNCHANGED <<config, edits, operator, command, worker, request>>

(* Dropping the runtime waits for the threads that have started.             *)
Exit ==
    /\ server = "closing"
    /\ \A c \in Calls : worker[c] # "running"
    /\ server' = "exited"
    /\ UNCHANGED <<config, edits, operator, call, child, command, worker, request>>

EditConfig ==
    /\ edits < MaxEdits
    /\ edits' = edits + 1
    /\ config' \in (Lists \cup {Invalid}) \ {config}
    /\ UNCHANGED <<operator, server, call, child, command, worker, request>>

(* Steps of a handler.                                                       *)
Handle(c) ==
    \/ RefuseDocument(c) \/ Spawn(c) \/ ChildAnswered(c) \/ ChildTimeout(c)
    \/ RefuseProbe(c) \/ StartWorker(c) \/ WorkerAnswered(c) \/ ProbeTimeout(c)
    \/ Version(c)

Next ==
    \/ \E c \in Calls :
          \/ Receive(c) \/ ReceiveDocument(c) \/ Handle(c)
          \/ ChildLoads(c) \/ ChildRunsCommand(c) \/ CommandEnds(c) \/ ChildExits(c)
          \/ WorkerDone(c)
          \/ \E h \in Hosts : ChildRequests(c, h)
    \/ Close \/ Exit \/ EditConfig

(* The runtime schedules its tasks and timers and threads end.  Nothing is   *)
(* assumed of a child, which may hang.                                       *)
Fairness ==
    /\ \A c \in Calls : WF_vars(Handle(c)) /\ WF_vars(WorkerDone(c))
    /\ WF_vars(Exit)

Spec == Init /\ [][Next]_vars /\ Fairness

-----------------------------------------------------------------------------
Positions == {"none", "received", "waiting", "answered", "dropped"}

CallType == [at : Positions, tool : {"none", "document", "probe", "import", "version"},
             inside : BOOLEAN, allow : Lists, deny : Lists,
             answer : {"none", "ok", "notOk", "error"}]
ChildType == [at : {"none", "started", "loaded"} \cup Ended,
              allow : Lists, deny : Lists, file : Lists]

(* Every variable has its type, and a call has a child or a thread only for  *)
(* the tools that start one.                                                 *)
TypeOK ==
    /\ config \in Lists \cup {Invalid} /\ edits \in 0..MaxEdits /\ operator \in Lists
    /\ server \in {"serving", "closing", "exited"}
    /\ call \in [Calls -> CallType] /\ child \in [Calls -> ChildType]
    /\ command \in [Calls -> {"none", "running", "ended"}]
    /\ worker \in [Calls -> {"none", "running", "done"}]
    /\ request \in [Calls -> [host : Hosts \cup {None}, sent : BOOLEAN]]
    /\ \A c \in Calls : (child[c].at # "none" => call[c].tool = "document")
                        /\ (worker[c] # "none" => call[c].tool \in {"probe", "import"})

(* The client's host lists never widen a policy: a request goes only to a    *)
(* host that the mdok.toml its child loaded admits by itself, also when that *)
(* file is not the one the server read, because it was edited or because the *)
(* client's path leads to another (build_document_argv).                     *)
ClientNeverWidens ==
    \A c \in Calls : request[c].sent => request[c].host \in Admits(child[c].file, {})

(* As the comment of OperatorPolicy has it, a client cannot widen or replace *)
(* what the operator configured: while mdok.toml is not edited, a request    *)
(* goes only to a host the policy read at startup admits.  It fails: the     *)
(* client's paths choose the configuration the child loads.                  *)
(* (OperatorPolicy, find_config of the first path)                           *)
PolicyNotReplaced ==
    \A c \in Calls : request[c].sent /\ edits = 0 => request[c].host \in Admits(operator, {})

(* The client's lists do narrow it: no request goes to a host the client     *)
(* denies and, when both allowlists name a pattern and the child loaded the  *)
(* list the server had read, none to a host the client does not allow.       *)
ClientNarrows ==
    \A c \in Calls : request[c].sent =>
        /\ request[c].host \notin Match(call[c].deny)
        /\ operator # {} /\ call[c].allow # {} /\ child[c].file = operator
             => request[c].host \in Match(call[c].allow)

(* The mdok child runs only while its handler waits for it: when the call    *)
(* times out or the session is closed it is killed, however it hangs, and no *)
(* request is made any more (kill_on_drop).  The command of an exec step is  *)
(* not spoken of: in its own process group, it outlives the child.           *)
NoOrphans == \A c \in Calls : Alive(c) => call[c].at = "waiting"

(* After the answer nothing is sent on behalf of a document call.            *)
AnswerIsFinal ==
    [][\A c \in Calls : call[c].at = "answered" => call'[c] = call[c] /\ request'[c] = request[c]]_vars

(* A call that was received is answered, or the session is closed, also when *)
(* its child hangs.                                                          *)
CallsAnswered ==
    \A c \in Calls : (call[c].at \in {"received", "waiting"})
                        ~> (call[c].at \in {"answered", "dropped"})

(* After the client has closed the session the server exits, also with a     *)
(* thread still running whose probe timed out.                               *)
ServerExits == (server = "closing") ~> (server = "exited")
=============================================================================
