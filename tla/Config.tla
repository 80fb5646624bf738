------------------------------- MODULE Config -------------------------------
(***************************************************************************)
(* crates/mdok-cli, load_config: the effective configuration of a command.  *)
(*                                                                         *)
(* The nearest mdok.toml, or the one of --config, is read.  Variables come  *)
(* from its [vars], the selected environment's vars and secrets, the files  *)
(* of --env-file, --var and --secret, one layer over the other; each layer  *)
(* says anew whether the value is secret.  Then limits are put together,    *)
(* and the command profiles resolved, which take secrets from variables and *)
(* taint them.                                                              *)
(*                                                                         *)
(* Variables and values are names.  A value is a string, or something else   *)
(* (a number, a list, an object), with strings inside or without; a string   *)
(* inside may lie below a field that has a secret name.                      *)
(* A duration is good or bad; a program is found or not.                    *)
(***************************************************************************)
EXTENDS Integers, Sequences, FiniteSets, SequencesExt

CONSTANTS Keys,         \* variable names
          SecretNames,  \* those is_secret_name accepts
          Values,       \* values that are strings
          EmptyText,    \* the empty string
          Others,       \* values that are no strings
          Inside,       \* the strings in each of those, and whether below a secret name
          Documents,    \* the directories of the first argument considered
          Configs,      \* the mdok.toml files considered: directory -> FileConfig
          Options       \* the command lines considered

Empty == [k \in {} |-> EmptyText]

(* FileConfig, reduced to what is put together here.                         *)
Default == [usable |-> TRUE, vars |-> Empty, env |-> Empty, timeout |-> "none",
            threshold |-> 2, body |-> 4, jobs |-> 1, programs |-> TRUE, commands |-> <<>>,
            hosts |-> {}, private |-> FALSE]

(* What FileConfig and the command line have: sizes are natural, --jobs 0 is *)
(* refused before the configuration is read.                                 *)
AnyValue == Values \cup Others
Entries == UNION {[keys -> AnyValue] : keys \in SUBSET Keys}
Layers == [kind : {"vars", "env_file", "var", "secret"}, ok : BOOLEAN, entries : Entries]
IsFileConfig(f) ==
    /\ f.threshold \in Nat /\ f.body \in Nat /\ f.jobs \in Nat
    /\ f.vars \in Entries /\ f.commands \in Seq(Keys)
    /\ \A e \in DOMAIN f.env : f.env[e] \in Seq(Layers)

ASSUME ConfigAssumption ==
    /\ EmptyText \in Values /\ Values \cap Others = {}
    /\ Inside \in [Others -> SUBSET [text : Values, named : BOOLEAN]]
    /\ Documents \subseteq Seq(STRING)
    /\ \A c \in Configs : DOMAIN c \subseteq Seq(STRING) /\ \A d \in DOMAIN c : IsFileConfig(c[d])
    /\ \A o \in Options :
         /\ o.config # <<>> => IsFileConfig(o.config[1])
         /\ o.layers \in Seq(Layers) /\ o.max_body \in Nat /\ o.jobs \in Nat \ {0}

Local == {"*", "localhost", "127.0.0.1", "::1"}
Closed == [hosts |-> {}, private |-> FALSE]

VARIABLES
    cwd,        \* directory of the first argument
    configs,    \* directory -> FileConfig
    options,    \* config, env, layers of --env-file, var and secret, timeout, max_body, jobs
    pc,
    file,       \* the configuration read
    layers,     \* layers of variables still to apply
    vars,       \* variable -> value and secret flag
    mappings,   \* secret_env entries of the command profiles still to resolve
    secretEnv,  \* values the resolved profiles pass to their commands
    limits,     \* timeout, memory threshold and jobs in effect
    policy,     \* CurlPolicy: host patterns and whether private addresses are allowed
    result

cfgVars == <<cwd, configs, options, pc, file, layers, vars, mappings, secretEnv, limits, policy,
             result>>

Layer(kind, ok, entries) == [kind |-> kind, ok |-> ok, entries |-> entries]

Init ==
    /\ cwd \in Documents /\ configs \in Configs /\ options \in Options
    /\ pc = "find" /\ file = Default /\ layers = <<>> /\ vars = Empty
    /\ mappings = <<>> /\ secretEnv = {} /\ limits = Empty /\ policy = Closed
    /\ result = "none"

Fail == pc' = "returned" /\ result' = "failed"
GoTo(label) == pc' = label /\ UNCHANGED result

(* find_config: from the directory of the first argument upwards.            *)
FindConfig ==
    LET above == {d \in DOMAIN configs : IsPrefix(d, cwd)}
    IN  IF above = {} THEN Default
        ELSE configs[CHOOSE d \in above : \A e \in above : Len(e) <= Len(d)]

(* The file is read and must name a known version; --env must name one of    *)
(* its environments.                                                         *)
ReadConfig ==
    /\ pc = "find"
    /\ LET read == IF options.config # <<>> THEN options.config[1] ELSE FindConfig
       IN IF ~read.usable \/ options.env \notin DOMAIN read.env \cup {"none"}
            THEN Fail /\ UNCHANGED <<file, layers>>
            ELSE /\ file' = read
                 /\ layers' = <<Layer("vars", TRUE, read.vars)>>
                              \o (IF options.env = "none" THEN <<>> ELSE read.env[options.env])
                              \o options.layers
                 /\ GoTo("layers")
    /\ UNCHANGED <<cwd, configs, options, vars, mappings, secretEnv, limits, policy>>

(* One layer.  A secret whose source is gone, an environment file that is    *)
(* too large or has a bad line, and a bad assignment end the command.        *)
SecretIn(kind, key) ==
    kind = "secret" \/ (kind \in {"vars", "env_file"} /\ key \in SecretNames)

(* Mutant of Over: a variable that is there already keeps its value.         *)
Under(old, layer) ==
    [k \in DOMAIN old \cup DOMAIN layer.entries |->
        IF k \in DOMAIN old THEN old[k]
        ELSE [value |-> layer.entries[k], secret |-> SecretIn(layer.kind, k)]]

Over(old, layer) ==
    [k \in DOMAIN old \cup DOMAIN layer.entries |->
        IF k \in DOMAIN layer.entries
          THEN [value |-> layer.entries[k], secret |-> SecretIn(layer.kind, k)]
          ELSE old[k]]

ApplyLayer ==
    /\ pc = "layers" /\ layers # <<>>
    /\ IF ~Head(layers).ok THEN Fail /\ UNCHANGED <<layers, vars>>
       ELSE vars' = Over(vars, Head(layers)) /\ layers' = Tail(layers) /\ GoTo("layers")
    /\ UNCHANGED <<cwd, configs, options, file, mappings, secretEnv, limits, policy>>

(* Limits: an option goes before the file, the file before the default.  A   *)
(* count of 1 job cannot be told from no option.                             *)
SetLimits ==
    /\ pc = "layers" /\ layers = <<>>
    /\ LET timeout == IF options.timeout # "none" THEN options.timeout ELSE file.timeout
           body == IF options.max_body # 0 THEN options.max_body ELSE file.body
       IN IF timeout = "bad" \/ ~file.programs
            THEN Fail /\ UNCHANGED <<limits, mappings>>
            ELSE /\ limits' = [body |-> body,
                               memory |-> IF file.threshold < body THEN file.threshold ELSE body,
                               jobs |-> IF options.jobs # 1 THEN options.jobs
                                        ELSE IF file.jobs < 1 THEN 1 ELSE file.jobs]
                 /\ mappings' = file.commands /\ GoTo("commands")
    /\ UNCHANGED <<cwd, configs, options, file, layers, vars, secretEnv, policy>>

(* resolve_command_profiles, one secret_env entry: the variable is tainted   *)
(* before its value is looked at.                                            *)
Taint(key) ==
    [k \in DOMAIN vars |-> IF k = key THEN [value |-> vars[k].value, secret |-> TRUE] ELSE vars[k]]

ResolveMapping ==
    /\ pc = "commands" /\ mappings # <<>>
    /\ LET key == Head(mappings)
       IN \/ key \notin DOMAIN vars /\ Fail /\ UNCHANGED <<vars, mappings, secretEnv>>
          \/ /\ key \in DOMAIN vars /\ vars' = Taint(key)
             /\ IF vars[key].value \notin Values THEN Fail /\ UNCHANGED <<mappings, secretEnv>>
                ELSE /\ secretEnv' = secretEnv \cup {vars[key].value}
                     /\ mappings' = Tail(mappings) /\ GoTo("commands")
    /\ UNCHANGED <<cwd, configs, options, file, layers, limits, policy>>

(* The policy: a host the file names may open the private network, one of     *)
(* --allow-host may not.                                                     *)
Loaded ==
    /\ pc = "commands" /\ mappings = <<>>
    /\ pc' = "returned" /\ result' = "loaded"
    /\ policy' = [hosts |-> options.allow \cup file.hosts,
                  private |-> file.private \/ file.hosts \cap Local # {}]
    /\ UNCHANGED <<cwd, configs, options, file, layers, vars, mappings, secretEnv, limits>>

Done == pc = "returned" /\ UNCHANGED cfgVars

Next == ReadConfig \/ ApplyLayer \/ SetLimits \/ ResolveMapping \/ Loaded \/ Done

Spec == Init /\ [][Next]_cfgVars

-----------------------------------------------------------------------------
(* collect_tainted_strings: the strings of a secret value, and those below a *)
(* secret name in any value; no empty string, no number and no boolean.      *)
Strings(v) == IF v \in Others THEN Inside[v] ELSE {[text |-> v, named |-> FALSE]}
CollectTaintedStrings(v, inherited_secret) ==
    {s.text : s \in {p \in Strings(v) : (inherited_secret \/ p.named) /\ p.text # EmptyText}}

(* collect_secret_values: what reports and envelopes hide.                   *)
CollectSecretValues ==
    UNION {CollectTaintedStrings(vars[k].value, vars[k].secret \/ k \in SecretNames)
             : k \in DOMAIN vars}

AllLayers ==
    <<Layer("vars", TRUE, file.vars)>>
    \o (IF options.env = "none" THEN <<>> ELSE file.env[options.env]) \o options.layers

TypeOK ==
    /\ DOMAIN vars \subseteq Keys
    /\ \A k \in DOMAIN vars : vars[k] \in [value : AnyValue, secret : BOOLEAN]
    /\ secretEnv \subseteq Values
    /\ pc \in {"find", "layers", "commands", "returned"} /\ result \in {"none", "failed", "loaded"}

(* The value in effect is the one of the last layer that has the variable,   *)
(* and every non-empty string that is secret, because it is in a value given *)
(* as a secret and not replaced, below a secret name, or passed as a secret  *)
(* by a command profile, is among those hidden from reports and envelopes,   *)
(* whichever layers it went through.  Numbers and booleans are not hidden.   *)
(* (load_config, resolve_command_profiles, collect_secret_values)            *)
SecretsCollected ==
    result = "loaded" =>
        LET last(k) == CHOOSE i \in DOMAIN AllLayers :
                /\ k \in DOMAIN AllLayers[i].entries
                /\ \A j \in DOMAIN AllLayers : j > i => k \notin DOMAIN AllLayers[j].entries
        IN /\ \A k \in DOMAIN vars :
                LET v == AllLayers[last(k)].entries[k]
                IN /\ vars[k].value = v
                   /\ \A s \in Strings(v) :
                        /\ s.text # EmptyText
                        /\ s.named \/ k \in SecretNames \/ AllLayers[last(k)].kind = "secret"
                        => s.text \in CollectSecretValues
           /\ secretEnv \ {EmptyText} \subseteq CollectSecretValues
=============================================================================
