# A TLA+ model of mdok

mdok runs API workflows written in Markdown: `curl` and `exec` fences are steps, `check`
and `capture` fences say what must hold of a step's result and which variables later steps
get from it. The repository has a Rust implementation (the reference), a Go port of the core
commands, and a C bridge to libcurl. This directory holds TLA+ modules of the parts in which
control, concurrency and failure matter, TLC configurations for small instances, and proofs
checked by TLAPS.

Abbreviations of paths: `cli` is `crates/mdok-cli/src/main.rs`, `curl` is
`crates/mdok-curl/src/lib.rs`, `command` is `crates/mdok-command/src/lib.rs`, `bridge` is
`native/src/mdok_curl_bridge.c`.

## 1. Inventory

| Part | State it keeps | Operations | Talks to | What is hard |
|---|---|---|---|---|
| Command line, run (`cli` 640-760, 2404-2600) | documents, slots, report, event stream | run, process_documents_parallel, emit_report | document execution, report | threads and slots, order of events, fail-fast, write errors |
| Document execution (`cli` 2610-3400) | variables, step reports, summaries | process_document_with_hook, execute_plan_with_hook, publish_captures | command runner, transfer, JMESPath, templates | all-or-nothing captures, secrets, early exits, exit codes |
| Planning (`cli` 3565-5060, `mdok-markdown`, `mdok-core`) | fences, steps, plan | parse_fences, parse_document, plan_document, build_plan | document execution | two readers of one document |
| Record and replay (`cli` 859-882, 1296-1420, 1821-1939, 2202-2294, `transient.rs`) | source file, manifest | write_recording, write_private_atomic, run_replay, replay_drift | configuration, document execution | concurrent processes, crash between two renames, clean-up |
| Command runner (`command`) | byte budget, flag, readers, deadline | run, read_limited, OutputState::reserve, reap_group_with_deadline, join_readers_with_deadline | processes | four threads, process group, deadline |
| Transfer (`curl`) | attempts, redirects, body sink, session | execute_in_session_with_cancel, execute_once, BodySink::push | libcurl bridge, fallback client | retries, cancellation, body limits, artifact files |
| Curl arguments (`curl` 1127-2098, `go/curlplan`) | parser state | CurlPlan::parse, Parse | transfer | order of options, limits |
| Libcurl session (`bridge`, `mdok-curl-sys`) | easy and multi handle, cookie share, in_use | execute_with_info_internal, perform_multi, callbacks | transfer | handles reused by all steps of a document, failing callbacks |
| MCP server (`mcp.rs`) | operator policy, open calls, children, threads | document_tool, mdok_probe, serve | the mdok binary as a child | timeouts, orphans, stale policy, shutdown |
| Go port (`go/runtime`, `httpx`, `curlplan`, `markdown`, `report`, `cmd/mdok`) | the same, sequential | Lint, Test, preflight, Execute, doOnce | each other | parity with Rust, pointers into slices, deadline |
| Configuration (`cli` 280-415, 5350-6109, `go/config`) | effective configuration, variables with secret flags | load_config, resolve_command_profiles, collect_secret_values | everything | layers that override each other, secrets that lose their mark |
| Discovery (`cli` 5068-5348) | list of documents | discover_paths, ignored_by_gitignore | run | two questions to the ignore files, order of the walk |
| Address, path and body policy (`curl` 43-646, 2105-2708, 2872-3023; `effect.rs` 58-140) | policy, pinned addresses, temporary files | check_url, resolve_host, PolicyDnsResolver, check_artifact, promote_to_artifact, body metadata | transfer, probe | a name looked up more than once, links, files that grow, pieces of any size |
| Report (`mdok-report`) | documents, summary, event metadata | push_document, set_event_metadata, JSON, JUnit, terminal writers | command line | two forms derived from one report, a sorted vector anyone may push to |
| Shell, templates, JMESPath (`mdok-shell`, `mdok-template`, `mdok-jmespath`, `go/shell`, `go/template`, `go/jmespath`) | none | tokenize, render, search | planning, execution | parity |
| QuickJS probe (`mdok-quickjs`) | child requests, promise jobs, timers, deadline | run_script_with_executor, drain_jobs, record_child, fetch_executor | MCP server, command line, address policy | three queues that feed each other, deadline, interrupt |
| Postman import (`mdok-postman`) | none | import | command line | data |
| Library runtime (`mdok-runtime`) | variables and their snapshot, step results | execute_with_cancel, context_values, commit_captures | none of the binaries | a cached snapshot |
| Test server, fixtures, fuzzers, web site, vendored code | - | - | - | not part of the program |

`PROJECT.json` lists these as components, and as hazards the places where a unit test would
hardly reach what can go wrong.

## 2. Modules

An action is one handler or one step between two points at which another actor can be seen.
Diagnostic codes are numbers (`MDOK-E304` is 304). Operators whose comment begins with `Bug` or
`Mutant of` are plausible mistakes; replacing the definition that follows, or that they name, by
them makes TLC find the property violated that `PROJECT.json` names for them.

**CommandRunner** (`command` 114-264, 547-603), **OutputBudget**. `main` is the position of
`run`; `rd`, `out`, `reserved`, `truncated` are `read_limited` and `OutputState`; the reaper, the
leader, its descendants and their pipes are the environment. Load, compare-exchange and the
flag store are separate steps. Time is a counter up to the deadline. OutputBudget is the
promise: bytes are granted in one step.

**DocumentExec**, **ExitCodes** (`cli` 2339-2383, 2610-3013, 3230-3377). One document from
planning to its report in every mode, with the answers of servers, processes, templates and
JMESPath as choices. A variable's value is the step it came from. ExitCodes has both exit
code mappings, the report's and that of an invocation (`cli` 1398-1423, 1495-1509).

**RunScheduler**, **RunContract** (`cli` 682-760, 2404-2600; `curl` 2207-2294). Threads take
document numbers from a stack, run steps, compete for one artifact file and store results;
or one thread runs the documents in order, perhaps streaming events, whose writer may fail.
A transfer with a body promotes it before the step's checks are evaluated, so a step whose checks
fail may own the file; exec steps and transfers without a response have nothing to promote
(`Bodies` says which steps have). RunContract is the promise made of any schedule.

**Recording** (see the inventory). Recorder and replay processes share a source and a
manifest. A file is who wrote it. A recorder may crash between any two steps, the
configuration may be edited at any time.

**Transfer**, **RetryContract** (`curl` 1357-1688, 2714-2808, 3037-3088). One call: native or
fallback, loop of attempts, redirects, body sink in chunks, cancellation and the end of the
retry window at any step. RetryContract is the promise of `--retry`: it
has every attempt's end, what may follow it and what the caller gets.

**NativeSession** (`bridge` 125-541; `mdok-curl-sys` 369-583). Several calls on one session:
acquire, configure, add, callbacks that may fail, remove, read info, release.

**GoTransfer** (`go/httpx` 47-437). Execute, doOnce and finishTransfer under one deadline.
The command line passes `context.Background`, so only the deadline ends the context. A
Location that does not parse is refused by net/http itself.

**CurlArgv** (`curl` 659-859, 1127-1337, 1836-2098; `go/curlplan`). Both parsers read the same
arguments in step. Options that set a field nothing else reads are one kind.

**PlanBuilder** (`cli` 3565-3994, 4917-5040; `mdok-markdown` 144-532). The adapter's line
scanner and the core's reader see the same marker lines; build_plan merges their views.
CommonMark's rules for fences are comrak's and external: a mark "hidden" is three backticks that
are no fence to it (indented as code, in an HTML block or comment, or with a backtick in the info
string), and `by` says which readers find the marker word, since only the adapter strips quotes
and only the core resolves character references. Block quotes, lists and a lone carriage return
are not modelled.

**GoRuntime** (`go/runtime`, `go/report`, `go/markdown`, `go/cmd/mdok`). Documents one after
the other: parse, preflight, items, statuses, exit class. `result.Steps` is modelled as a Go
slice with its backing arrays (capacity 1, 2, 4), since the code keeps pointers into it.

**McpServer** (`mcp.rs`; `cli` 3024-3039, 3474-3520). Open calls, child processes, worker
threads, the operator's list read once, and the `mdok.toml` each child loads: the operator's, maybe
edited since, or, for a path outside the project, another (`Foreign`). What a pattern matches is the
constant Matching. A child may run the command of an exec step, which the child's kill does not end.

**Egress** (`curl` 43-272, 567-646, 1278-1302, 1357-1869, 2940-3023; `effect.rs` 58-140). A transfer from
its plan, or a child request of a script, to its connections. The URL is checked when the plan
is parsed, before the transfer and at every redirect; name service gives each lookup any
answer, and the client looks names up again when it connects. `--resolve`, `--connect-to`,
proxies, idle connections, redirects and retries are there. A host is its labels, an address its
class. `ToIpv4` is what the policy takes an IPv6 address for: `::1` becomes 0.0.0.1, which nothing
denies, before the IPv6 arm can call it loopback. EgressConfined has its own notion of an address
of a private network, with `::1` as a named exception. `native_eligible` is false for plans that follow redirects, so the
redirects of the native path are unreachable and not modelled.

**ResponseBody** (`curl` 2105-2160, 2296-2497, 2631-2708). A body is read back in pieces of any size for its metadata
and loaded whole for the response; the two classifications use different means. A byte is one
of the classes the UTF-8 validator tells apart. The two JSON parsers (one keeps values, one
ignores them) may disagree on a text, which the model lets them do.

**PolicyFiles** (`curl` 279-566, 614-646, 2213-2245, 2872-2895). Request files and artifacts: canonical paths, links,
roots, the check before and after the directories are made, the rename, and another document
that makes directories and artifacts in between.

**Config** (`cli` 280-415, 3041-3061, 4540-4627, 5350-5676, 5821-6109). The file found or given, layers of variables, limits, command
profiles and policy, in the order of load_config. SecretsCollected relates what is marked to
every layer a value went through. A value is a text or another value (a number, an object), of which
`Inside` gives the strings in it and whether a secret name is above them; only strings are hidden.

**Discovery** (`cli` 5068-5348). The walk in any order, pruning, ignore files with negation and
directory rules, sorting, duplicates. A path is the sequence of its components as spelled, with
`.` for a leading one, since paths are compared as spelled. The prune asks about a directory as if it were a file, so
after the rules `a` and `!a/` the directory `a` is still not walked; `TakenBack` in
DiscoveryExact is that exception.

**Runtime** (`mdok-runtime` 107-455). The library's step loop, with the JSON snapshot of the variables
that is made when first needed and dropped when captures are committed.

**Report** (`mdok-report` 30-91, 301-480, 718-821, 1232-1355). Documents, summary and JUnit cases; and the vector of event metadata
with its binary search, which callers may push to unsorted. The suite JUnit adds for diagnostics of
the report itself (939-953) is not modelled, so JunitAgrees speaks of the documents' suites.

**Probe** (`sandbox.rs` 25-310, `pm.rs`, `prelude.js` 1016-1079, `effect.rs` 143-172; `cli` 916-1006). One script under the sandbox's loop. Running code
is a position from which host calls come in any order; it ends, throws or is interrupted. The
JavaScript engine and time are external. An exception is known as an interrupt by its message only, so one a script throws may be
taken for it (`posed`); an interrupt inside a timer callback is reported as an error, not as a
timeout, as `is_interrupted` does not see it there; and an exception in a promise reaction only
rejects a promise.

**MCClients**, **MCDocuments**, **MCInputs** and **MCEffects** are TLC instances of several
modules at once: a behaviour picks one of them, and the variables of the others keep one
initial state (`Resting` and its like). They are unions, not compositions: each property speaks
of one module as if it ran alone, except CallsReturn, which speaks of all three clients. The
other MC modules instantiate one module each. Each module has a stuttering `Done` where it ends,
so that deadlock checking reports only a state in which the code would hang.

## 3. Runs

| Run | Bounds | Properties |
|---|---|---|
| `command_runner` | budget 2 bytes, 2 bytes written per stream, buffer 2, deadline 1 tick | SuccessIsComplete, UnflaggedIsWhole, CutoffKillsGroup, BudgetSpec (refinement), AlwaysReturns (liveness) |
| `documents` | DocumentExec: 3 steps of 5 shapes, 6 names, capture budget 4; GoRuntime: 2 documents, 4 items, 3 steps; Runtime: 3 steps of 2 checks and 2 captures, one good and one bad key | CapturesAllOrNothing, ExitZeroMeansVerified (DocumentExec); PassedMeansVerified (GoRuntime); ContextIsCurrent (Runtime) |
| `scheduler` | 3 documents, 2 jobs, 2 steps | ScheduleInvisible, StreamIsPrefix, ContractSpec (refinement), RunEnds (liveness) |
| `clients` | 2 retries, 1 redirect, threshold 1, body limit 3, chunks of 2, 3 calls per session | SinkHoldsBody, CancelStopsRetrying, RetrySpec (Transfer); SessionReusable, ResultIsOwn (NativeSession); AttemptsAreFresh, DeadlineStopsRetrying (GoTransfer); CallsReturn (all) |
| `inputs` | Config: 3 variables, 2 directories, texts, a number and an object with three strings, environments, files and options in all layers; Discovery: 5 files in 4 directories, up to 2 rules of 24 at the root and 1 below, 5 lists of arguments, one with `d` and `.`; PlanBuilder: 6 marker lines of 4 marks, 2 names (symmetric), 2 steps; CurlArgv: 4 arguments, lengths 1 and 3, limit 3 | SecretsCollected; DiscoveryExact; ReadersAgreeOnPlain; BodyLimitExact, PlansAgree |
| `effects` | Egress: 6 hosts, a public address, 127.0.0.1 and ::1 as answers, 5 policies, plans with every option, 1 redirect, 1 retry; ResponseBody: 4 bytes of 9 classes in pieces of 1 or 2; PolicyFiles: 7 trees, paths of up to 3 names, 1 foreign action, files that grow from 1 to 3 with limit 2; Recording: 2 recorders, 1 replay, 2 configurations; Report: 2 documents of 1 step and 1 check, 4 metadata records for 3 events | EgressConfined; BodyKindRight; FilesConfined; RecordingsSurvive, StrictReplayRunsRecorded; JunitAgrees, MetadataFollowsEvent |
| `mcp` | sessions: 2 calls of any tool; policies: 1 document call, 2 hosts, patterns `a` and `*`, clients that allow `a` or allow `*` and deny `a`, paths inside, or outside with no `mdok.toml` or one that allows `a`, 2 edits | NoOrphans, ClientNeverWidens, ClientNarrows, CallsAnswered, ServerExits |
| `probe` | 2 child requests, 2 timers, 1 promise job at a time, 1 log entry | VerdictIsFinal, ProbeEnds (liveness) |
| `recording_no_clobber` | Recording as in `effects` | NoForceNeverClobbers: violated |
| `go_owner` | 1 document, 3 items, 2 steps | OwningStepMarked: violated |
| `policy_replaced` | as the policies of `mcp` | PolicyNotReplaced: violated |
| `probe_timers` | as `probe` | TimersPumped: violated |

Every property is stated in words above its definition. The type invariants are not part of
the runs; those of the modules with proofs are proved (section 4).

**Why the bounds are enough.** Two streams and a budget of two make the readers lose a
compare-exchange, fill the budget exactly and pass it. Three steps let a capture collide with
an earlier step's and leave one to run after a failure. Three documents on two threads make a
thread take a second document while the first is still running. Two recorders are the least
that interfere. Two retries let a failure follow a failure; the chunk of 2, the threshold of 1
and the limit of 3 make one chunk cross the threshold and another the limit. Six marker lines
give a step, a check and a misread fence together. Four arguments give `-X`, two parts and an
option that changes their use. One redirect and one retry make a name be looked up several
times, each with an answer of its own. Four bytes are the longest UTF-8 sequence, and pieces of
one and two cut it everywhere. Two ignore rules let one take back the other, a file below a
third. Two timers let the callback of one set the other; two requests let one be sent while the
other is executed.

**Fairness.** CommandRunner: the calling thread runs and time passes, nothing of processes,
readers or reaper, since `run` must not depend on them. RunScheduler: each thread and the
caller run; steps end because the runner and the transfer have deadlines. Transfer and
NativeSession: every wait has a timeout, the plan's or the configured one. GoTransfer: the
caller runs, the deadline comes, and after it a wait for the peer ends, since the context
unblocks it. McpServer: the runtime schedules handlers, their timers included, and threads end
by the script's own limit; nothing is assumed of a child. Probe: time passes, the loop's own
steps are taken and QuickJS calls the interrupt handler while code runs; nothing is assumed of
the script. The other modules state safety only.
`mcp` turns deadlock checking off, since a server whose client does nothing may stay idle.

**What the violated properties show.**

- NoForceNeverClobbers: two recorders share a path. One without `--force` has written its
  source; one with `--force` replaces it; the first fails at the manifest and removes the
  source, by now the other's. `docs/AGENT_INVOCATIONS.md:281-282` speaks of no-clobber
  semantics. RecordingsSurvive holds because it supposes that nobody forces.
- OwningStepMarked: a check placed after a later request marks the copy of its step that
  `append` left behind, so a failed document shows the step as passed
  (`go/runtime/runtime.go:8-9`). PassedMeansVerified holds: the document itself is failed.
- PolicyNotReplaced: a document that does not lie in the project the server was started in runs
  under the `mdok.toml` upwards of it, or under the defaults (`cli` 5357), and then asks a host the
  operator's list does not name. `mcp.rs:50-54` calls the policy read at startup the authoritative
  one, which a client "cannot widen or replace", and `mcp.rs:393-396` says that the child discovers
  the same `mdok.toml`. ClientNeverWidens holds: it speaks of the file the child did load, and says
  that the client's host lists add nothing to it.
- TimersPumped: a promise job that runs after the timer queue was seen empty sets a timer, or a
  timer is overdue when the time to the next one is computed, which is then negative and taken
  for an empty queue; the loop ends with timers armed although its comment
  (`sandbox.rs:69-70`, 153-155) says that timers are pumped until quiescent. VerdictIsFinal
  holds: it speaks of requests and jobs.

**Differences met while modelling, without a run of their own.** The models follow the code.

- Output that exactly fills the budget is not flagged; `docs/COMMAND_TESTS.md:62` says the
  flag tells whether the budget was reached.
- A failed command (E309, E310, E311) exits 2 and a planning failure of `call`, `record` or
  `replay` exits 1; `docs/AGENT_INVOCATIONS.md:90-91` says 1 and 2.
- A strict replay compares one load of the configuration and runs under another
  (`cli` 867, 1304; `docs/AGENT_INVOCATIONS.md:289`).
- A fence inside a longer or bare code block, an HTML block or a comment becomes a step, and one the scanner cannot see is
  left out (`cli` 4924, 3908-3935; `mdok-prd/docs/21-parser-and-runtime-algorithms.md:26`).
- Data after an explicit method makes the Rust plan a POST (`curl` 1901;
  `docs/RUST_TO_GO_PORT_PLAYBOOK.md:157-158` says that it does so only without one). On the native
  path libcurl's own parser reads the arguments again and keeps the method.
- A reader whose `read` fails returns what it has and sets no flag, so a run may be a success with
  output missing (`command` 600). SuccessIsComplete sets that case apart.
- A command of an exec step has its own process group (`command` 131). When an MCP call times out
  or the session is closed, `kill_on_drop` kills the mdok child alone, and with it the deadline
  that would have ended the command, which runs on. `mdok-prd/docs/13-performance-and-memory.md:14-15`
  says that "process-group cleanup prevents leaked descendants". NoOrphans speaks of the mdok child.
- `denied_address` lets the IPv6 loopback `::1` through (`curl` 2965-2971), although its IPv6 arm
  names it and the message at `curl` 162 says that loopback destinations are denied.
- Secret numbers and booleans are not hidden (`cli` 4609-4616);
  `mdok-prd/docs/10-security-and-sandboxing.md:36` says that reports redact exact secret values.
- `mdok test d .` lists `d/x.md` and `./d/x.md` and runs the document twice (`cli` 5070-5075).
- A script that throws an error whose message contains "interrupted" is reported as a timeout
  before its deadline (`sandbox.rs` 235-236); the comment at `sandbox.rs` 296 says that the error
  was produced by the interrupt handler.
- An exception in a promise reaction is recorded nowhere, so such a script may pass;
  `docs/QUICKJS_PROBE_SPEC.md:109-111` has an outcome `error` for an exception that escaped.
- The Go client leaves its retry loop before it reads the body, so a body that breaks off is
  not retried, and a deadline in the body is reported as E600; the Rust client retries and
  reports E601 (`go/httpx/httpx.go:1-4` claims the same semantics).
- Go sends `--data-urlencode` parts after all `--data` parts; Rust keeps the command's order.
  PlansAgree is therefore stated for commands without an encoded part before the data.
- The schema of the MCP tools calls `allow_hosts` additional patterns (`mcp.rs:87`); the code
  only ever narrows with them (`mcp.rs:418-425`).

PassedMeansVerified includes that requests only go where the preflight allowed, of the URL as it
is when it is sent; the Go port does not check the targets of redirects.

## 4. Proofs

The theorems hold for every value of the constants that satisfies the assumptions below, not
only for the instances of the runs. Each inductive invariant was checked by TLC on its run
before it was proved; the preservation proofs have one step per action.

| Module | Proved of | Assumed of the constants |
|---|---|---|
| CommandRunnerProofs | CommandRunner, OutputBudget | positive limit and deadline |
| RunSchedulerProofs | RunScheduler, RunContract | positive count and jobs, codes are naturals and 0 is one of a plan, `None` is no code and no report |
| DocumentsProofs | DocumentExec, Runtime, GoRuntime (as in MCDocuments) | names: the initial ones are finite and valid, captured objects have finite keys |
| ClientsProofs | Transfer, RetryContract, NativeSession, GoTransfer (as in MCClients) | natural bounds, chunks of at least one byte |
| InputsProofs | Config, CurlArgv, PlanBuilder, Discovery (as in MCInputs) | sizes are natural, `--jobs` is not 0, files and layers have the shape of FileConfig; the lengths of a body's parts and its limit are natural; paths are sequences of names, a file is listed once and is no directory; none for PlanBuilder |
| McpServerProofs | McpServer | patterns, hosts and distinct marks |
| EffectsProofs | Egress, Recording, Report, ResponseBody, PolicyFiles (as in MCEffects) | the value for "no file" is no recorder; sequence numbers are natural and no metadata that is set is empty; bytes are of the classes the validator tells apart; every directory lies in directories up to the root and every link in a directory, and no name is the word for a missing file; natural bounds; none for Egress |
| ProbeProofs | Probe | natural bounds |

**CommandRunnerProofs.** `IInv == TypeOK /\ BudgetInv /\ MainInv`. The properties are not
inductive: BudgetInv relates what each reader has kept, has read and is holding to the shared
counter, and says at which positions a byte has been turned away but the flag is not stored;
MainInv says what has happened to the group at each position of `run`. Proved: TypeOK,
BudgetRespected, TruncationIsReal, UnflaggedIsWhole, SuccessIsComplete, CutoffKillsGroup, and
that the readers implement OutputBudget.

**RunSchedulerProofs.** ScheduleInvisible speaks of finished documents and of a finished run. Of a
document that is under way it says nothing, so the invariant
says where each document is at any moment: the slots hold an end segment of the documents (in order) or a start segment (pool);
a document that left them is in the hands of exactly one thread or has a result (SlotInv,
HandInv, DoneInv). A worker that is gone left nothing behind, or `--fail-fast` halted the run at
the last document taken (StopInv). What is reported so far, also of a
document in hand, is what its steps answer by themselves, but that a body that met another step's
file is reported so, and the step that owns the file has been reported (AnswerInv, OwnerInv); the
report is of the results in order, and the lines written are a prefix of the events (DocsInv,
StreamInv). Proved, for any number of documents, jobs and steps:
StreamIsPrefix, ScheduleInvisible, and that RunScheduler implements RunContract
(RefinesContract).

**DocumentsProofs.** Three components, one after the other.
DocumentExec: `IInv` adds what is true inside a step (CurInv): a report that has not failed has a
"true" for every check evaluated so far; the temporary map of captures has only values of the
step at hand, shares no name with the variables and has every key as long as no diagnostic was
added; a step with tainted output captures nothing. Of the finished steps it says which published
all and which none (CaptureInv), and why a loop stopped early (FailInv). Proved: TypeOK,
CapturesAllOrNothing, ExitZeroMeansVerified.
Runtime: `LibraryInv` has the types, SnapshotInv (a snapshot that is kept is one of the current
variables) and ContextIsCurrent. Which writer of a variable is the last is found by an argument
from the well-foundedness of the naturals (LeastOf, LastIs). Proved: ContextIsCurrent.
GoRuntime: `GoDocInv` has the types, ItemsInv (only a document without findings comes to its
items) and PassedInv (as long as a document has not failed, everything it has come past is
verified). Proved: PassedMeansVerified.

**ClientsProofs.** NativeSession: `NativeInv` has HandleInv (at which positions the flag is
held, the easy handle is in the multi handle and is configured for the current call), CaptureInv
(what the callbacks did and the codes they leave) and ResultIsOwn. Proved, for any number of
calls on a session and whichever callbacks fail: SessionReusable, ResultIsOwn.
GoTransfer: `GoInv` has GoTypeInv, LateInv (an attempt that began after the deadline is the only
one, and on its way to the return) and AttemptsAreFresh. Proved: TypeOK, AttemptsAreFresh,
DeadlineStopsRetrying.
Transfer: `IInv == TypeOK /\ SentInv /\ CancelInv /\ LogInv /\ SinkHoldsBody /\
ResultInv`. SentInv ties the number of requests to the attempt, CancelInv the requests after
cancellation to the position, LogInv the redirects to the attempt, ResultInv the result to the
attempt it came from. Proved: TypeOK, SinkHoldsBody, ResponseIsLastAttempt,
CancelStopsRetrying, RequestsBounded, and that Transfer implements RetryContract. What the contract
has of the attempt at hand (`last`) is a function of the position and of the last status, so its
step is found action by action (ContractStep).

**InputsProofs.** Config: `ConfigInv` has ReadInv (types), LayersInv (the layers still to come are
the last ones of all, in their order), VarsInv (a variable is the one of the last layer applied so
far that has it, and secret if that layer's are), TaintInv (what the command profiles were given
is marked) and LimitsInv. That the search for `mdok.toml` ends at a nearest one is an argument from
the least element of a set of naturals. Proved: TypeOK, SecretsCollected, and what LimitsInv says
of a configuration that is loaded (LimitsCorrect).
CurlArgv: PlansAgree speaks of finished plans; AgreeInv says that over the options both parsers
have, with the data inline, none of it after an explicit method or an encoded part, the two are side by side after every argument (same method, flags, URLs and error, the Rust
parts being Go's data followed by its encoded parts) until the Rust one meets its body limit.
Proved, for commands of any length: PlansAgree.
BodyLimitExact needs `BodyInv`: the Rust parser holds every part read so far and they fit the
limit once joined, or it has met the limit and they do not. That one more part fits
`body_part_capacity` exactly when the joined body fits is JoinedAppend, which rests on what the
sum of the lengths is. Proved, for any number of parts, any lengths and any limit: BodyLimitExact.
PlanBuilder: `PlannerInv` has ViewsInv: on a plain document both readers are in the same fence
and, unless one has refused the document, have the same steps and attachments, every attachment
to a step that is there. The merge of two equal lists then keeps all of them (KeptIs). Proved,
for documents of any length, any names and any `MAX_STEPS`: ReadersAgreeOnPlain.
Discovery: `DiscoveryInv` says that the list is that of the arguments so far (Listing: what they
find, each once, ordered by the first argument that finds it and sorted below it) and, while a
walk is on, Walking: every entry to visit was reached through directories that are gone into, what
was found is wanted, and for each other wanted file an entry on the way to it is still to be
visited. With nothing left to visit the walk has found all it wants (WalkEnds), and adding that
sorted to the list keeps the order (AddPathsIs). What an argument finds is what DiscoveryExact
says it yields, unless a directory above was taken back (FindsYields, FirstAt). Proved, for any
files, arguments and rules: DiscoveryExact. TLC checked DiscoveryInv on the instance of `inputs`
with the paths of that instance for Paths, which is infinite.
Three of these proofs need what a recursive function computes. The function is the CHOOSE of one that
satisfies its equation: that there is one, and that its values are those claimed, is shown by
looking at the least index where it would not be so (SumExists, SumsAgree, KeptExists,
KeptAll, AddingExists, AddPathsIs).

**McpServerProofs.** `IInv == TypeOK /\ ChildInv /\ RequestInv /\ NoOrphans`. ChildInv says
that a child's command line has no allowlist and exactly DenyList as its denylist, RequestInv
that a request was decided by the lists of its own child. Proved, for any number of calls and
edits and any meaning of the patterns: TypeOK, NoOrphans, AnswerIsFinal, ClientNeverWidens,
ClientNarrows.

**EffectsProofs.** Egress: `IInv == UrlInv /\ PlanInv /\ PinInv /\ NativeInv /\
Admitted`. Past the checks both the current URL and the plan's, to which a retry goes back,
are allowed; the plan names a proxy or an address only where the policy lets it; pins are allowed
addresses; libcurl gets a name only where any address may be connected to. An idle connection is
allowed because the one that opened it was, for the same peer. Proved, without any assumption on
hosts, policies, plans or the answers of name service: EgressConfined. Admitted is what the checks
let through; that these are no addresses of a private network, `::1` apart, is LetThrough.
Recording: `RecordsInv` has LoadedInv (a recorder past its load has a configuration), ManifestInv
(a manifest is the last thing a recorder writes, so it names one that is done), OwnerInv (when
nobody forces, the source in place is that of the recorder that has put it there and not failed
since) and ReplayInv (a strict replay that goes on has read the source of a recorder that is
done). Proved, for any number of recorders and replays that crash anywhere: TypeOK,
RecordingsSurvive, StrictReplayRunsRecorded.
Report: `EventsInv` says that the metadata vector has natural sequence numbers and that the first
record about an event, in the order of the vector, is what was last set for it. That survives a
stable insertion sort (InsertedIs, SortedIs), which does not change which record about an event is
the first; in a sorted vector the binary search ends at the first record not below the event's
number (HalveIs is its loop invariant, PositionIs the result), so that replacing, draining and
inserting there change what is said of one event only (DrainedIs, ReplacedIs, FirstInsertedIs).
`DocumentsInv` says that the summary has counted the documents: their failed checks, and of each
status whether a document has it. What one document's JUnit cases say is the lemma DocumentAgrees,
which rests on sums over nested sequences: how a sum grows, when it is positive, and that the
flags of two sequences are counted one after the other. Proved, for vectors and reports of any
length: MetadataFollowsEvent, JunitAgrees.
ResponseBody: `Follows(s, n, v)` relates the validator v to the first n bytes of s: as long as it
is valid, there is a last character boundary, what is before it can be cut into characters, what
is behind it is the beginning of one, and every way to cut a longer body has a cut there. A byte
keeps that (LeadFollows, ContinuationFollows), so a read of any number of bytes does
(ReadFollows); at the end of the body the validator is valid and between characters exactly for
UTF-8 (FollowedWhole). `BodyInv` adds that the file read back is the body or a byte shorter.
Proved, for bodies of any length and any cuts: BodyKindRight.
PolicyFiles: `DiskInv` has PlaceInv (the file system keeps its shape), ReadInv (a read changes
nothing and has been found under a root) and WriteInv (from create_dir_all on, the destination's
directory exists; from the second check on, it is the temporary file's and lies under a root that
is found). Where a path leads is the walk over its names (Lead, LeadIs). Two facts carry the
proof: a path that leads somewhere leads to the same place when directories and files are added
(LeadStays), and after create_dir_all the destination's directory leads to the canonical parent
computed before it (MadeLeads), because nothing, hence no link, is below a name that is missing.
Proved, for any file system, roots and paths and any number of foreign steps: FilesConfined.
The proof showed that the property must speak of the roots as they are when the file is written:
a cookie jar may replace a link which a root goes through, after which the root is elsewhere. One
of the 7 trees has such a link.

**ProbeProofs.** `IInv == TypeOK /\ QueueTypes /\ OrderInv /\ BatchInv /\ LateInv /\ FoldInv`.
OrderInv: requests are numbered as they are sent, those executed come first, those of the batch
after them and those pending last, with no gap. BatchInv says where a batch is held, LateInv that
a request begun after the deadline is the last, FoldInv that the loop is left with work undone
only with an error or a timeout, and that it has timed out only after the deadline or with an
exception taken for an interrupt. Proved: TypeOK, VerdictIsFinal.

**Only model-checked.**

- Liveness (AlwaysReturns, RunEnds, CallsReturn, CallsAnswered, ServerExits, ProbeEnds): the
  prover does not handle the ENABLED that fairness contains.
- The four violated properties, which are false.

## 5. Not modelled, and the plan

Left out within the modelled parts: an error of `try_wait` (nothing else reaps the child), the
environment and directory of a command, Windows, TLS set-up, header and cookie contents, the
transient Markdown of an invocation, the option tables of the C tool parser, dependencies
between steps, wording and layout of reports, redaction of texts, variable scopes of the
probe, the writing of the report file (one temporary file and a rename), the Go port's
configuration loader.

Not modelled at all:

- Shell and template tokenizers, JMESPath: functions of strings and JSON without state of their
  own; what a step loop sees of them is their outcome, which DocumentExec, Runtime and
  GoRuntime choose freely.
- Postman import: a conversion of one document into another, whose correctness is about texts.
- Test server, fixtures, fuzzers, web site, vendored code: not part of the program.

Order of the work to come:

1. Composition of Transfer with Egress and NativeSession in place of the unions.
2. The tokenizers of both implementations, as operators over small alphabets with the parity of
   Rust and Go as the property.

## 6. Running

    tlc -workers 2 -config MCCommandRunner.cfg MCCommandRunner
    tlapm CommandRunnerProofs.tla
