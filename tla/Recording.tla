------------------------------ MODULE Recording ------------------------------
(***************************************************************************)
(* crates/mdok-cli: `mdok record` and `mdok replay` processes that share    *)
(* one recording path (write_recording, write_private_atomic, run_replay,   *)
(* replay_drift, run_invocation).                                           *)
(*                                                                         *)
(* A recording is two files, the Markdown source and its JSON manifest,     *)
(* each put in place by one rename.  A source is the process that wrote it  *)
(* (Old for the files found at the start); a manifest names the source it   *)
(* was written for and the configuration it was recorded under, both of     *)
(* which it holds as hashes.                                                *)
(***************************************************************************)
EXTENDS Integers, FiniteSets

CONSTANTS Recorders, Replayers,     \* processes
          Configs,                  \* provenance snapshots the configuration can have
          Old, None

Manifest(src, cfg) == [src |-> src, cfg |-> cfg]

VARIABLES
    config,     \* the configuration files, as their provenance snapshot
    source,     \* the Markdown file: who wrote it, or None
    manifest,   \* the manifest file, or None
    force,      \* recorder -> --force
    rec,        \* recorder -> position and the configuration it loaded
    strict,     \* replayer -> --strict
    rep         \* replayer -> position, source read, configurations, drift status

vars == <<config, source, manifest, force, rec, strict, rep>>

RecAt(pc, cfg) == [pc |-> pc, cfg |-> cfg]
RepAt(pc, src, checked, drift, ran) ==
    [pc |-> pc, src |-> src, checked |-> checked, drift |-> drift, ran |-> ran]

Init ==
    /\ config \in Configs
    /\ \/ source = None /\ manifest = None
       \/ source = None /\ manifest = Manifest(Old, config)
       \/ source = Old /\ manifest = Manifest(Old, config)
    /\ force \in [Recorders -> BOOLEAN]
    /\ rec = [w \in Recorders |-> RecAt("load", None)]
    /\ strict \in [Replayers -> BOOLEAN]
    /\ rep = [r \in Replayers |-> RepAt("read", None, None, None, None)]

-----------------------------------------------------------------------------
(* A recorder.  run_invocation loads the configuration first.               *)
Load(w) ==
    /\ rec[w].pc = "load"
    /\ rec' = [rec EXCEPT ![w] = RecAt("checkSource", config)]
    /\ UNCHANGED <<config, source, manifest, force, strict, rep>>

Goto(w, pc) == rec' = [rec EXCEPT ![w] = RecAt(pc, rec[w].cfg)]

(* write_private_atomic, first half: an existing destination is refused     *)
(* without --force, and writing the temporary file can fail.                *)
CheckSource(w) ==
    /\ rec[w].pc = "checkSource"
    /\ \/ ~force[w] /\ source # None /\ Goto(w, "failed")
       \/ (force[w] \/ source = None) /\ Goto(w, "persistSource")
       \/ Goto(w, "failed")
    /\ UNCHANGED <<config, source, manifest, force, strict, rep>>

(* Bug: persist instead of persist_noclobber.                               *)
PersistSourceReplaces(w) ==
    /\ rec[w].pc = "persistSource"
    /\ source' = w /\ Goto(w, "checkManifest")
    /\ UNCHANGED <<config, manifest, force, strict, rep>>

(* Second half: persist replaces, persist_noclobber refuses.                *)
PersistSource(w) ==
    /\ rec[w].pc = "persistSource"
    /\ IF force[w] \/ source = None
         THEN source' = w /\ Goto(w, "checkManifest")
         ELSE Goto(w, "failed") /\ UNCHANGED source
    /\ UNCHANGED <<config, manifest, force, strict, rep>>

CheckManifest(w) ==
    /\ rec[w].pc = "checkManifest"
    /\ \/ ~force[w] /\ manifest # None /\ Goto(w, "undo")
       \/ (force[w] \/ manifest = None) /\ Goto(w, "persistManifest")
       \/ Goto(w, "undo")
    /\ UNCHANGED <<config, source, manifest, force, strict, rep>>

PersistManifest(w) ==
    /\ rec[w].pc = "persistManifest"
    /\ IF force[w] \/ manifest = None
         THEN manifest' = Manifest(w, rec[w].cfg) /\ Goto(w, "recorded")
         ELSE Goto(w, "undo") /\ UNCHANGED manifest
    /\ UNCHANGED <<config, source, force, strict, rep>>

(* The manifest could not be written: fs::remove_file(&path).               *)
Undo(w) ==
    /\ rec[w].pc = "undo"
    /\ source' = None
    /\ Goto(w, "failed")
    /\ UNCHANGED <<config, manifest, force, strict, rep>>

(* The process dies; what it renamed into place stays.                      *)
Crash(w) ==
    /\ rec[w].pc \notin {"recorded", "failed", "crashed"}
    /\ Goto(w, "crashed")
    /\ UNCHANGED <<config, source, manifest, force, strict, rep>>

Recorder(w) ==
    \/ Load(w) \/ CheckSource(w) \/ PersistSource(w) \/ CheckManifest(w)
    \/ PersistManifest(w) \/ Undo(w)

-----------------------------------------------------------------------------
(* A replay reads the source ...                                            *)
ReadSource(r) ==
    /\ rep[r].pc = "read"
    /\ rep' = [rep EXCEPT ![r] = RepAt(IF source = None THEN "refused" ELSE "config",
                                       source, None, None, None)]
    /\ UNCHANGED <<config, source, manifest, force, rec, strict>>

(* ... loads the configuration ...                                          *)
LoadConfig(r) ==
    /\ rep[r].pc = "config"
    /\ rep' = [rep EXCEPT ![r] = RepAt("drift", rep[r].src, config, None, None)]
    /\ UNCHANGED <<config, source, manifest, force, rec, strict>>

(* Bug: only the configuration is compared with the manifest.               *)
DriftOfConfig(r) ==
    IF manifest = None THEN "unknown"
    ELSE IF manifest.cfg = rep[r].checked THEN "exact" ELSE "changed"

DriftOf(r) ==
    IF manifest = None THEN "unknown"
    ELSE IF manifest = Manifest(rep[r].src, rep[r].checked) THEN "exact" ELSE "changed"

(* ... compares both with the manifest, and --strict refuses any drift.     *)
ReplayDrift(r) ==
    /\ rep[r].pc = "drift"
    /\ rep' = [rep EXCEPT ![r] =
                  RepAt(IF strict[r] /\ DriftOf(r) # "exact" THEN "refused" ELSE "run",
                        rep[r].src, rep[r].checked, DriftOf(r), None)]
    /\ UNCHANGED <<config, source, manifest, force, rec, strict>>

(* run_invocation loads the configuration again and executes the source     *)
(* that was read under it.                                                  *)
Replay(r) ==
    /\ rep[r].pc = "run"
    /\ rep' = [rep EXCEPT ![r] = RepAt("ran", rep[r].src, rep[r].checked, rep[r].drift, config)]
    /\ UNCHANGED <<config, source, manifest, force, rec, strict>>

Replayer(r) == ReadSource(r) \/ LoadConfig(r) \/ ReplayDrift(r) \/ Replay(r)

-----------------------------------------------------------------------------
(* The operator edits the configuration at any time.                        *)
EditConfig ==
    /\ config' \in Configs \ {config}
    /\ UNCHANGED <<source, manifest, force, rec, strict, rep>>

Next ==
    \/ \E w \in Recorders : Recorder(w) \/ Crash(w)
    \/ \E r \in Replayers : Replayer(r)
    \/ EditConfig

Spec == Init /\ [][Next]_vars

-----------------------------------------------------------------------------
Sources == Recorders \cup {Old}
Manifests == [src : Sources, cfg : Configs]
RecPcs == {"load", "checkSource", "persistSource", "checkManifest", "persistManifest", "undo",
           "recorded", "failed", "crashed"}

(* Every variable has its type.                                             *)
TypeOK ==
    /\ config \in Configs
    /\ source \in Sources \cup {None}
    /\ manifest \in Manifests \cup {None}
    /\ force \in [Recorders -> BOOLEAN] /\ strict \in [Replayers -> BOOLEAN]
    /\ rec \in [Recorders -> [pc : RecPcs, cfg : Configs \cup {None}]]
    /\ rep \in [Replayers -> [pc : {"read", "config", "drift", "run", "ran", "refused"},
                              src : Sources \cup {None}, checked : Configs \cup {None},
                              drift : {"unknown", "exact", "changed", None},
                              ran : Configs \cup {None}]]

NobodyForces == \A w \in Recorders : ~force[w]

(* Without --force a recording that was reported as written stays: its       *)
(* source is the recorder's and its manifest names that source, whatever     *)
(* other recorders try, fail at or leave behind when they crash.             *)
RecordingsSurvive ==
    NobodyForces => \A w \in Recorders : rec[w].pc = "recorded" =>
                       source = w /\ manifest = Manifest(w, rec[w].cfg)

(* A strict replay runs only a source for which some recorder, or the        *)
(* earlier recording, completed a manifest: never one half of a pair that an *)
(* interrupted or interleaved recording left behind.                         *)
StrictReplayRunsRecorded ==
    \A r \in Replayers : strict[r] /\ rep[r].pc \in {"run", "ran"} =>
        rep[r].src = Old \/ rec[rep[r].src].pc = "recorded"

(* docs/AGENT_INVOCATIONS.md: source and manifest are written with atomic,   *)
(* no-clobber semantics: a recorder without --force neither replaces nor     *)
(* removes a source that is not its own.                                     *)
NoForceNeverClobbers ==
    [][\A w \in Recorders : ~force[w] /\ rec'[w] # rec[w] /\ source \notin {None, w}
          => source' = source]_vars
=============================================================================
