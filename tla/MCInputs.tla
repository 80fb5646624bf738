------------------------------ MODULE MCInputs -------------------------------
(***************************************************************************)
(* TLC instance of what reads a command's inputs: Config, the              *)
(* configuration; Walk (module Discovery), the documents below the         *)
(* arguments; Planner (module PlanBuilder), a document's fences; and       *)
(* Parsers (module CurlArgv), a curl command.                              *)
(*                                                                         *)
(* Six marker lines are three complete fences, over two interchangeable    *)
(* step names; curl commands have up to four arguments, with bodies that   *)
(* reach the limit and pass it by a separator.  A behaviour is one of one  *)
(* component; the variables of the others keep their initial values.       *)
(***************************************************************************)
EXTENDS Config

CONSTANTS Files, Markdown, Pruned, Inputs, IgnoreFiles,    \* of Discovery
          Names, MaxLines, MaxSteps,                       \* of PlanBuilder
          MaxArgs, MaxBody, Overhead, Lengths              \* of CurlArgv

(* Lengths are counted in bytes.                                             *)
ASSUME LengthAssumption == Lengths \subseteq Nat /\ MaxBody \in Nat

NameSymmetry == Permutations(Names)

MCInside ==
    [v \in {"a number", "an object"} |->
        IF v = "a number" THEN {}
        ELSE {[text |-> "s1", named |-> FALSE], [text |-> "s3", named |-> TRUE],
              [text |-> "", named |-> TRUE]}]

Sets(d, vals) == UNION {[s -> vals] : s \in SUBSET d}
E(k, v) == [j \in {k} |-> v]
Profile(secret) == <<Layer("vars", TRUE, E("b", "s2")), Layer("secret", secret, E("c", "s3"))>>
F(vars0, commands, timeout, programs) ==
    [Default EXCEPT !.vars = vars0, !.commands = commands, !.timeout = timeout,
                    !.programs = programs,
                    !.env = [n \in {"good", "gone"} |-> Profile(n = "good")]]
MCDocuments == {<<>>, <<"d">>}
MCFileConfigs ==
    {F(v, c, "30s", TRUE) : v \in Sets({"token", "b"}, {"s1", "a number", "an object"}),
        c \in {<<>>, <<"b">>, <<"b", "c">>}}
    \cup {F(Empty, <<>>, "bad", TRUE), F(Empty, <<>>, "none", FALSE),
          [Default EXCEPT !.usable = FALSE], [Default EXCEPT !.hosts = {"localhost"}],
          [Default EXCEPT !.private = TRUE]}
MCConfigs ==
    {[d \in {<<>>} |-> f] : f \in MCFileConfigs}
    \cup {[d \in {<<>>, <<"d">>} |-> IF d = <<>> THEN Default ELSE f]
            : f \in {F(E("token", "s2"), <<"token">>, "none", TRUE)}}
    \cup {[d \in {} |-> Default]}
MCLayers ==
    {<<>>} \cup
    {<<Layer("env_file", ok, e)>> \o v \o s :
        ok \in BOOLEAN, e \in Sets({"token", "b"}, {"s2"}),
        v \in {<<>>, <<Layer("var", TRUE, E("token", "s1"))>>, <<Layer("var", TRUE, E("b", ""))>>},
        s \in {<<>>, <<Layer("secret", TRUE, E("b", "s1"))>>, <<Layer("secret", FALSE, Empty)>>}}
MCOptions ==
    [config : {<<>>}, env : {"none", "good", "gone", "unknown"}, layers : MCLayers,
     timeout : {"none"}, max_body : {0}, jobs : {1}, allow : {{}}]
    \cup {[config |-> <<Default>>, env |-> "none", layers |-> l, timeout |-> t, max_body |-> b,
            jobs |-> 1 + b, allow |-> {"*"}]
            : l \in MCLayers, t \in {"1s", "bad"}, b \in {0, 1}}

Here == <<<<"d", "e", "x">>, <<"d", "t">>, <<"d", "x">>, <<"v", "e", "x">>, <<"x">>>>
MCFiles == [i \in DOMAIN Here |-> <<".">> \o Here[i]] \o Here
Place(p) == IF p # <<>> /\ p[1] = "." THEN Tail(p) ELSE p
MCDirs == UNION {{d, <<".">> \o d} : d \in {<<>>, <<"d">>, <<"d", "e">>, <<"v">>, <<"v", "e">>}}
MCPatterns == {<<"d">>, <<"x">>, <<"d", "x">>, <<"**", "x">>, <<"d", "**">>, <<"*", "e">>}
Rule(n, o, p) == [negated |-> n, directory_only |-> o, pattern |-> p]
Rules == {Rule(n, o, p) : n, o \in BOOLEAN, p \in MCPatterns}
Lists(k) == UNION {[1..n -> Rules] : n \in 0..k}
MCIgnoreFiles ==
    {[d \in MCDirs |-> CASE Place(d) = <<>> -> a [] Place(d) \in {<<"d">>, <<"v">>} -> b [] OTHER -> <<>>]
        : a \in Lists(2), b \in Lists(0) \cup {<<Rule(FALSE, TRUE, <<"e">>)>>}
                                   \cup {<<Rule(n, FALSE, p)>> : n \in BOOLEAN,
                                                p \in {<<"x">>, <<"e">>}}}
MCArguments ==
    {<<<<".">>>>, <<<<"v">>>>, <<<<"d">>, <<".">>>>, <<<<"d", "t">>, <<"d", "x">>, <<"d">>>>,
     <<<<"z">>>>}

VARIABLES
    reader,
    dInputs, dIgnore, dGiven, dTodo, dFound, dPaths, dPc,
    pLine, pFence, pView, pPlain, pPc, pPlan,
    aRust, aGo, aCount, aSeen, aRustPlan, aGoPlan

Walk == INSTANCE Discovery WITH
    inputs <- dInputs, ignore <- dIgnore, given <- dGiven, todo <- dTodo, found <- dFound,
    paths <- dPaths, pc <- dPc

Planner == INSTANCE PlanBuilder WITH
    line <- pLine, fence <- pFence, view <- pView, plain <- pPlain, pc <- pPc,
    plan <- pPlan

Parsers == INSTANCE CurlArgv WITH
    rust <- aRust, go <- aGo, count <- aCount, seen <- aSeen, rustPlan <- aRustPlan,
    goPlan <- aGoPlan

(* Paths are sequences of names; a file is listed once and is no directory.  *)
ASSUME FilesAssumption ==
    /\ Files \in Seq(Seq(STRING)) /\ Inputs \subseteq Seq(Seq(STRING))
    /\ \A i, j \in DOMAIN Files : Files[i] = Files[j] => i = j
    /\ \A i \in DOMAIN Files : Files[i] \notin Walk!Dirs

walkVars == <<dInputs, dIgnore, dGiven, dTodo, dFound, dPaths, dPc>>
plannerVars == <<pLine, pFence, pView, pPlain, pPc, pPlan>>
parsersVars == <<aRust, aGo, aCount, aSeen, aRustPlan, aGoPlan>>
allVars == <<reader, cfgVars, walkVars, plannerVars, parsersVars>>

(* A component that is not the one of the behaviour keeps one initial state. *)
Resting ==
    /\ cwd = <<>> /\ configs = [d \in {} |-> Default]
    /\ options = [config |-> <<>>, env |-> "none", layers |-> <<>>, timeout |-> "none", max_body |-> 0,
                  jobs |-> 1, allow |-> {}]
    /\ pc = "find" /\ file = Default /\ layers = <<>> /\ vars = Empty /\ mappings = <<>>
    /\ secretEnv = {} /\ limits = Empty /\ policy = Closed /\ result = "none"
WalkRests ==
    /\ dGiven = <<<<".">>>> /\ dInputs = dGiven /\ dIgnore = [d \in MCDirs |-> <<>>]
    /\ dTodo = {} /\ dFound = {} /\ dPaths = <<>> /\ dPc = "input"
PlannerRests == Planner!Init
ParsersRests == Parsers!Init

MCInit ==
    \/ reader = "config" /\ Init /\ WalkRests /\ PlannerRests /\ ParsersRests
    \/ reader = "discovery" /\ Resting /\ Walk!Init /\ PlannerRests /\ ParsersRests
    \/ reader = "plan" /\ Resting /\ WalkRests /\ Planner!Init /\ ParsersRests
    \/ reader = "argv" /\ Resting /\ WalkRests /\ PlannerRests /\ Parsers!Init

MCNext ==
    \/ reader = "config" /\ Next /\ UNCHANGED <<reader, walkVars, plannerVars, parsersVars>>
    \/ reader = "discovery" /\ Walk!Next /\ UNCHANGED <<reader, cfgVars, plannerVars, parsersVars>>
    \/ reader = "plan" /\ Planner!Next /\ UNCHANGED <<reader, cfgVars, walkVars, parsersVars>>
    \/ reader = "argv" /\ Parsers!Next /\ UNCHANGED <<reader, cfgVars, walkVars, plannerVars>>

MCSpec == MCInit /\ [][MCNext]_allVars

-----------------------------------------------------------------------------
(* Discovery: in whatever order directories are listed, the documents found  *)
(* are those the arguments name and those below them that no rule leaves     *)
(* out.                                                                      *)
DiscoveryExact == Walk!DiscoveryExact

(* PlanBuilder: the two readers agree on a document that only uses the       *)
(* markers both know.                                                        *)
ReadersAgreeOnPlain == Planner!ReadersAgreeOnPlain

(* CurlArgv: a body is accepted exactly when what is sent fits the limit.    *)
BodyLimitExact == Parsers!BodyLimitExact

(* CurlArgv: the Rust and the Go parser make the same request of a command   *)
(* over the options both have, whose data is inline and comes neither after  *)
(* an explicit method nor after an encoded part.                             *)
PlansAgree == Parsers!PlansAgree
=============================================================================
