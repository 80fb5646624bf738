---------------------------- MODULE InputsProofs ----------------------------
(***************************************************************************)
(* Proofs about the four readers MCInputs puts side by side: Config, for    *)
(* any configuration files and command lines and any number of layers;      *)
(* Parsers, the two parsers of a curl command, for commands of any length;  *)
(* Planner, the two readers of a document, for documents of any length; and *)
(* Walk, the search for documents, for any files, arguments and rules.      *)
(* What a recursive function computes is shown from its defining equation:  *)
(* there is a function that satisfies it, and its values are those claimed  *)
(* since there is no least index at which they are not (LeastOf).           *)
(***************************************************************************)
EXTENDS MCInputs, SequenceTheorems, WellFoundedInduction, TLAPS

(* Layers applied so far: a count, and the layer of them a variable comes    *)
(* from.                                                                     *)
Applied == Len(AllLayers) - Len(layers)
ComesFrom(k, i) ==
    /\ i \in 1..Applied /\ k \in DOMAIN AllLayers[i].entries
    /\ \A j \in 1..Applied : j > i => k \notin DOMAIN AllLayers[j].entries

(* Types: what was read is a configuration, its environment is known.        *)
ReadInv ==
    /\ cwd \in Documents /\ options \in Options /\ configs \in Configs
    /\ pc \in {"find", "layers", "commands", "returned"}
    /\ result \in {"none", "failed", "loaded"} /\ (pc = "returned" <=> result # "none")
    /\ IsFileConfig(file) /\ mappings \in Seq(Keys)
    /\ pc # "find" /\ result # "failed" => options.env \in DOMAIN file.env \cup {"none"}

(* The layers to come are the last ones of all, in their order.              *)
LayersInv ==
    pc # "find" /\ result # "failed" =>
        /\ layers \in Seq(Layers) /\ Len(layers) <= Len(AllLayers)
        /\ \A i \in 1..Len(layers) : layers[i] = AllLayers[Applied + i]
        /\ pc # "layers" => layers = <<>>

(* Every variable is the one of the last layer applied that has it, and is   *)
(* secret if that layer's are.                                               *)
VarsInv ==
    /\ pc = "find" => vars = Empty
    /\ \A k \in DOMAIN vars : vars[k] \in [value : AnyValue, secret : BOOLEAN]
    /\ DOMAIN vars \subseteq Keys
    /\ pc # "find" /\ result # "failed" =>
         \A k \in DOMAIN vars : \E i \in 1..Applied :
            /\ ComesFrom(k, i) /\ vars[k].value = AllLayers[i].entries[k]
            /\ AllLayers[i].kind = "secret" => vars[k].secret

(* What the command profiles were given is marked as secret.                 *)
TaintInv ==
    /\ pc \in {"find", "layers"} => secretEnv = {}
    /\ secretEnv \subseteq Values
    /\ \A v \in secretEnv : \E k \in DOMAIN vars : vars[k].value = v /\ vars[k].secret

(* Limits and policy, once they are set.                                     *)
LimitsInv ==
    /\ pc = "commands" \/ result = "loaded" => limits.memory <= limits.body /\ limits.jobs >= 1
    /\ result = "loaded" /\ file = Default => policy.private = FALSE

(* The inductive invariant of load_config.                                   *)
ConfigInv == ReadInv /\ LayersInv /\ VarsInv /\ TaintInv /\ LimitsInv

-----------------------------------------------------------------------------
(* A non-empty set of natural numbers has a least element.                   *)
LEMMA LeastOf ==
    ASSUME NEW T, T \subseteq Nat, T # {}
    PROVE  \E x \in T : \A y \in T : x <= y
<1> DEFINE R == OpToRel(<, Nat)
<1>1. IsWellFoundedOn(R, Nat)
  BY NatLessThanWellFounded
<1>2. \A a, b \in Nat : a < b => <<a, b>> \in R
  BY DEF OpToRel
<1> HIDE DEF R
<1>3. PICK x \in T : \A y \in T : ~(<<y, x>> \in R)
  BY <1>1, WFMin
<1>4. ASSUME NEW y \in T PROVE x <= y
  <2>1. y \in Nat /\ x \in Nat
    BY <1>3
  <2>2. ~(y < x)
    BY <1>2, <1>3, <2>1
  <2> QED
    BY <2>1, <2>2
<1> QED
  BY <1>4

(* The default configuration is one.                                         *)
LEMMA DefaultIs == IsFileConfig(Default)
<1>1. Empty \in Entries
  <2>1. Empty \in [{} -> AnyValue]
    BY DEF Empty
  <2> QED
    BY <2>1 DEF Entries
<1>2. <<>> \in Seq(Keys)
  BY EmptySeq
<1>3. DOMAIN Empty = {}
  BY DEF Empty
<1>4. /\ Default.threshold = 2 /\ Default.body = 4 /\ Default.jobs = 1
      /\ Default.vars = Empty /\ Default.commands = <<>> /\ Default.env = Empty
  BY DEF Default
<1> QED
  BY <1>1, <1>2, <1>3, <1>4 DEF IsFileConfig

(* The search upwards ends at the nearest configuration or at the default.   *)
LEMMA FoundIs ==
    ASSUME cwd \in Documents, configs \in Configs
    PROVE  IsFileConfig(FindConfig)
<1> DEFINE above == {d \in DOMAIN configs : IsPrefix(d, cwd)}
           nearest == CHOOSE d \in above : \A e \in above : Len(e) <= Len(d)
<1>1. CASE above = {}
  BY <1>1, DefaultIs DEF FindConfig
<1>2. CASE above # {}
  <2>1. Len(cwd) \in Nat /\ \A d \in above : Len(d) \in Nat /\ Len(d) <= Len(cwd)
    <3>1. cwd \in Seq(STRING) /\ \A d \in above : d \in Seq(STRING)
      BY ConfigAssumption
    <3>2. \A d \in above : Len(d) <= Len(cwd)
      BY DEF IsPrefix
    <3> QED
      BY <3>1, <3>2, LenProperties
  <2> DEFINE T == {Len(cwd) - Len(d) : d \in above}
  <2>2. T \subseteq Nat /\ T # {}
    <3>1. ASSUME NEW d \in above PROVE Len(cwd) - Len(d) \in Nat
      BY <2>1
    <3>2. T \subseteq Nat
      BY <3>1
    <3> QED
      BY <1>2, <3>2
  <2>3. PICK x \in T : \A y \in T : x <= y
    <3> HIDE DEF T
    <3> QED
      BY <2>2, LeastOf
  <2>4. PICK d \in above : x = Len(cwd) - Len(d)
    BY <2>3
  <2>5. \A e \in above : Len(e) <= Len(d)
    <3> SUFFICES ASSUME NEW e \in above PROVE Len(e) <= Len(d)
      OBVIOUS
    <3>1. Len(cwd) - Len(d) <= Len(cwd) - Len(e)
      BY <2>3, <2>4
    <3> QED
      BY <2>1, <3>1
  <2>6. nearest \in above
    <3> HIDE DEF above
    <3> QED
      BY <2>5
  <2>7. FindConfig = configs[nearest]
    BY <1>2 DEF FindConfig
  <2> QED
    BY <2>6, <2>7, ConfigAssumption
<1> QED
  BY <1>1, <1>2

(* One element makes a sequence.                                             *)
LEMMA OneIs ==
    ASSUME NEW S, NEW x \in S
    PROVE  <<x>> \in Seq(S)
  OBVIOUS

(* All layers of a command line o and a configuration f are layers.          *)
LEMMA LayersOf ==
    ASSUME NEW o \in Options, NEW f, IsFileConfig(f), o.env \in DOMAIN f.env \cup {"none"}
    PROVE  <<Layer("vars", TRUE, f.vars)>> \o (IF o.env = "none" THEN <<>> ELSE f.env[o.env])
             \o o.layers \in Seq(Layers)
<1> DEFINE first == Layer("vars", TRUE, f.vars)
           second == IF o.env = "none" THEN <<>> ELSE f.env[o.env]
<1>1. <<first>> \in Seq(Layers)
  <2>1. first \in Layers
    BY DEF Layer, Layers, IsFileConfig
  <2> HIDE DEF first
  <2> QED
    BY <2>1, OneIs
<1>2. second \in Seq(Layers)
  BY EmptySeq DEF IsFileConfig
<1>3. o.layers \in Seq(Layers)
  BY ConfigAssumption
<1> HIDE DEF first, second
<1>4. <<first>> \o second \in Seq(Layers)
  BY <1>1, <1>2, ConcatProperties
<1>5. <<first>> \o second \o o.layers \in Seq(Layers)
  BY <1>3, <1>4, ConcatProperties
<1> QED
  BY <1>5 DEF first, second

(* All layers are layers.                                                    *)
LEMMA AllLayersAre ==
    ASSUME options \in Options, IsFileConfig(file), options.env \in DOMAIN file.env \cup {"none"}
    PROVE  AllLayers \in Seq(Layers)
  BY LayersOf DEF AllLayers

(* Nothing is read or set at the start.                                      *)
LEMMA ConfigInitInv == Init => ConfigInv
<1> SUFFICES ASSUME Init PROVE ConfigInv
  OBVIOUS
<1>1. ReadInv
  BY DefaultIs, EmptySeq DEF Init, ReadInv
<1>2. DOMAIN vars = {}
  BY DEF Init, Empty
<1>3. LayersInv
  BY DEF Init, LayersInv
<1>4. VarsInv
  BY <1>2 DEF Init, VarsInv
<1>5. TaintInv
  BY DEF Init, TaintInv
<1>6. LimitsInv
  BY DEF Init, LimitsInv
<1> QED
  BY <1>1, <1>3, <1>4, <1>5, <1>6 DEF ConfigInv

(* A command that fails keeps only the types.                                *)
LEMMA FailStep ==
    ASSUME ConfigInv, Fail, UNCHANGED <<cwd, configs, options, file, mappings, secretEnv>>,
           DOMAIN vars' \subseteq Keys,
           \A k \in DOMAIN vars' : vars'[k] \in [value : AnyValue, secret : BOOLEAN],
           \A v \in secretEnv : \E k \in DOMAIN vars' : vars'[k].value = v /\ vars'[k].secret
    PROVE  ConfigInv'
<1>1. pc' = "returned" /\ result' = "failed"
  BY DEF Fail
<1>2. ReadInv'
  BY <1>1 DEF ConfigInv, ReadInv
<1>3. LayersInv'
  BY <1>1 DEF LayersInv
<1>4. VarsInv'
  BY <1>1 DEF VarsInv
<1>5. TaintInv'
  BY <1>1 DEF ConfigInv, TaintInv
<1>6. LimitsInv'
  BY <1>1 DEF LimitsInv
<1> QED
  BY <1>2, <1>3, <1>4, <1>5, <1>6 DEF ConfigInv

(* The configuration is read: no layer is applied yet.                       *)
LEMMA ReadConfigStep == ConfigInv /\ ReadConfig => ConfigInv'
<1> SUFFICES ASSUME ConfigInv, ReadConfig PROVE ConfigInv'
  OBVIOUS
<1> DEFINE read == IF options.config # <<>> THEN options.config[1] ELSE FindConfig
<1>1. vars' = vars /\ vars = Empty /\ DOMAIN vars = {} /\ secretEnv' = secretEnv /\ secretEnv = {}
  BY DEF ReadConfig, ConfigInv, VarsInv, TaintInv, Empty
<1>2. UNCHANGED <<cwd, configs, options, mappings, limits, policy>>
  BY DEF ReadConfig
<1>3. CASE Fail /\ UNCHANGED <<file, layers>>
  BY <1>1, <1>2, <1>3, FailStep
<1>4. CASE /\ ~(~read.usable \/ options.env \notin DOMAIN read.env \cup {"none"})
           /\ file' = read /\ GoTo("layers")
           /\ layers' = <<Layer("vars", TRUE, read.vars)>>
                        \o (IF options.env = "none" THEN <<>> ELSE read.env[options.env])
                        \o options.layers
  <2>1. IsFileConfig(read)
    <3>1. CASE options.config = <<>>
      BY <3>1, FoundIs DEF ConfigInv, ReadInv
    <3>2. CASE options.config # <<>>
      BY <3>2, ConfigAssumption DEF ConfigInv, ReadInv
    <3> QED
      BY <3>1, <3>2
  <2>2. layers' = AllLayers'
    BY <1>2, <1>4 DEF AllLayers
  <2>3. pc' = "layers" /\ result' = "none"
    BY <1>4 DEF GoTo, ReadConfig, ConfigInv, ReadInv
  <2> HIDE DEF read
  <2>4. ReadInv'
    BY <1>2, <1>4, <2>1, <2>3 DEF ConfigInv, ReadInv
  <2>5. AllLayers' \in Seq(Layers)
    BY <1>2, <1>4, <2>1, <2>2, LayersOf DEF ConfigInv, ReadInv
  <2>6. LayersInv'
    BY <2>2, <2>3, <2>5, LenProperties DEF LayersInv, Applied
  <2>7. VarsInv'
    BY <1>1, <2>3 DEF VarsInv
  <2>8. TaintInv'
    BY <1>1 DEF TaintInv
  <2>9. LimitsInv'
    BY <2>3 DEF LimitsInv
  <2> QED
    BY <2>4, <2>6, <2>7, <2>8, <2>9 DEF ConfigInv
<1> QED
  BY <1>3, <1>4 DEF ReadConfig

(* What the layers to come are, while there are some.                        *)
LEMMA NextLayer ==
    ASSUME ConfigInv, pc = "layers", layers # <<>>
    PROVE  /\ AllLayers \in Seq(Layers) /\ Len(AllLayers) \in Nat /\ Applied \in Nat
           /\ Applied + 1 \in 1..Len(AllLayers) /\ Head(layers) = AllLayers[Applied + 1]
           /\ Tail(layers) \in Seq(Layers) /\ Len(Tail(layers)) = Len(layers) - 1
           /\ Head(layers) \in Layers
           /\ \A i \in 1..(Len(layers) - 1) : Tail(layers)[i] = AllLayers[Applied + 1 + i]
<1>1. /\ layers \in Seq(Layers) /\ Len(layers) <= Len(AllLayers)
      /\ \A i \in 1..Len(layers) : layers[i] = AllLayers[Applied + i]
      /\ AllLayers \in Seq(Layers)
  BY AllLayersAre DEF ConfigInv, ReadInv, LayersInv
<1>2. Len(AllLayers) \in Nat /\ Len(layers) \in Nat \ {0}
  BY <1>1, LenProperties, EmptySeq
<1>3. Applied \in Nat /\ Applied + 1 \in 1..Len(AllLayers)
  BY <1>1, <1>2 DEF Applied
<1>4. Head(layers) = layers[1] /\ Head(layers) \in Layers
  BY <1>1, HeadTailProperties
<1>5. Tail(layers) \in Seq(Layers) /\ Len(Tail(layers)) = Len(layers) - 1
  BY <1>1, HeadTailProperties
<1>6. 1 \in 1..Len(layers)
  BY <1>2
<1>7. Head(layers) = AllLayers[Applied + 1]
  BY <1>1, <1>4, <1>6
<1>8. ASSUME NEW i \in 1..(Len(layers) - 1)
      PROVE  Tail(layers)[i] = AllLayers[Applied + 1 + i]
  <2>1. Tail(layers)[i] = layers[i + 1]
    BY <1>1, <1>2, <1>5
  <2>2. i + 1 \in 1..Len(layers) /\ Applied + (i + 1) = Applied + 1 + i
    BY <1>2, <1>3
  <2>3. layers[i + 1] = AllLayers[Applied + (i + 1)]
    BY <1>1, <2>2
  <2> QED
    BY <2>1, <2>2, <2>3
<1> QED
  BY <1>1, <1>2, <1>3, <1>4, <1>5, <1>7, <1>8

(* One more layer over the others.                                           *)
LEMMA ApplyLayerStep == ConfigInv /\ ApplyLayer => ConfigInv'
<1> SUFFICES ASSUME ConfigInv, ApplyLayer PROVE ConfigInv'
  OBVIOUS
<1>1. UNCHANGED <<cwd, configs, options, file, mappings, secretEnv, limits, policy>>
  BY DEF ApplyLayer
<1>2. secretEnv = {} /\ pc = "layers" /\ layers # <<>> /\ result = "none"
  BY DEF ApplyLayer, ConfigInv, TaintInv, ReadInv
<1>3. CASE Fail /\ UNCHANGED <<layers, vars>>
  BY <1>1, <1>2, <1>3, FailStep DEF ConfigInv, VarsInv
<1>4. CASE vars' = Over(vars, Head(layers)) /\ layers' = Tail(layers) /\ GoTo("layers")
  <2>1. pc' = "layers" /\ result' = "none"
    BY <1>2, <1>4 DEF GoTo
  <2>2. AllLayers' = AllLayers
    BY <1>1 DEF AllLayers
  <2>3. PICK n \in Nat : n = Applied
    BY <1>2, NextLayer
  <2>4. PICK h \in Layers : h = Head(layers)
    BY <1>2, NextLayer
  <2>5. Applied' = n + 1
    <3>1. Applied' = Len(AllLayers) - (Len(layers) - 1)
      BY <1>2, <1>4, <2>2, NextLayer DEF Applied
    <3>2. Len(layers) \in Nat
      BY LenProperties, <1>2 DEF ConfigInv, LayersInv
    <3> QED
      BY <1>2, <2>3, <3>1, <3>2, NextLayer DEF Applied
  <2>6. h = AllLayers[n + 1]
    BY <1>2, <2>3, <2>4, NextLayer
  <2>7. ReadInv'
    BY <1>1, <1>2, <2>1 DEF ConfigInv, ReadInv
  <2>8. LayersInv'
    <3>1. Len(layers) \in Nat /\ Len(layers) <= Len(AllLayers) /\ Len(AllLayers) \in Nat
      BY LenProperties, <1>2, NextLayer DEF ConfigInv, LayersInv
    <3>2. (Len(layers) <= Len(AllLayers))'
      BY <1>2, <1>4, <2>2, <3>1, NextLayer
    <3>3. (\A i \in 1..Len(layers) : layers[i] = AllLayers[Applied + i])'
      BY <1>2, <1>4, <2>2, <2>3, <2>5, NextLayer
    <3>4. layers' \in Seq(Layers)
      BY <1>2, <1>4, NextLayer
    <3> QED
      BY <2>1, <3>2, <3>3, <3>4 DEF LayersInv
  <2>9. /\ DOMAIN vars' = DOMAIN vars \cup DOMAIN h.entries
        /\ \A k \in DOMAIN h.entries :
             vars'[k] = [value |-> h.entries[k], secret |-> SecretIn(h.kind, k)]
        /\ \A k \in DOMAIN vars : k \notin DOMAIN h.entries => vars'[k] = vars[k]
    BY <1>4, <2>4 DEF Over
  <2>10. DOMAIN h.entries \subseteq Keys /\ \A k \in DOMAIN h.entries : h.entries[k] \in AnyValue
    <3>1. h.entries \in Entries
      BY DEF Layers
    <3>2. PICK keys \in SUBSET Keys : h.entries \in [keys -> AnyValue]
      BY <3>1 DEF Entries
    <3> QED
      BY <3>2
  <2>11. VarsInv'
    <3>1. ASSUME NEW k \in DOMAIN vars'
          PROVE  vars'[k] \in [value : AnyValue, secret : BOOLEAN]
      <4>1. CASE k \in DOMAIN h.entries
        <5>1. SecretIn(h.kind, k) \in BOOLEAN
          BY DEF SecretIn
        <5> QED
          <6>1. vars'[k] = [value |-> h.entries[k], secret |-> SecretIn(h.kind, k)]
            BY <4>1, <2>9
          <6>2. h.entries[k] \in AnyValue
            BY <4>1, <2>10
          <6>3. PICK b \in BOOLEAN : b = SecretIn(h.kind, k)
            BY <5>1
          <6> QED
            BY <6>1, <6>2, <6>3
      <4>2. CASE k \notin DOMAIN h.entries
        BY <4>2, <2>9 DEF ConfigInv, VarsInv
      <4> QED
        BY <4>1, <4>2
    <3>2. DOMAIN vars' \subseteq Keys
      BY <2>9, <2>10 DEF ConfigInv, VarsInv
    <3>3. ASSUME NEW k \in DOMAIN vars'
          PROVE  \E i \in 1..(n + 1) :
                    /\ k \in DOMAIN AllLayers[i].entries
                    /\ \A j \in 1..(n + 1) : j > i => k \notin DOMAIN AllLayers[j].entries
                    /\ vars'[k].value = AllLayers[i].entries[k]
                    /\ AllLayers[i].kind = "secret" => vars'[k].secret
      <4>1. CASE k \in DOMAIN h.entries
        <5>1. vars'[k].value = h.entries[k] /\ (h.kind = "secret" => vars'[k].secret)
          <6>1. vars'[k] = [value |-> h.entries[k], secret |-> SecretIn(h.kind, k)]
            BY <4>1, <2>9
          <6>2. vars'[k].value = h.entries[k] /\ vars'[k].secret = SecretIn(h.kind, k)
            BY <6>1
          <6>3. h.kind = "secret" => SecretIn(h.kind, k)
            BY DEF SecretIn
          <6> QED
            BY <6>2, <6>3
        <5>2. n + 1 \in 1..(n + 1) /\ \A j \in 1..(n + 1) : ~(j > n + 1)
          OBVIOUS
        <5> QED
          BY <4>1, <2>6, <5>1, <5>2
      <4>2. CASE k \notin DOMAIN h.entries
        <5>1. k \in DOMAIN vars /\ vars'[k] = vars[k]
          BY <4>2, <2>9
        <5>2. PICK i \in 1..n :
                 /\ ComesFrom(k, i) /\ vars[k].value = AllLayers[i].entries[k]
                 /\ AllLayers[i].kind = "secret" => vars[k].secret
          BY <1>2, <2>3, <5>1 DEF ConfigInv, VarsInv
        <5>3. \A j \in 1..(n + 1) : j > i => k \notin DOMAIN AllLayers[j].entries
          <6> SUFFICES ASSUME NEW j \in 1..(n + 1), j > i
                       PROVE  k \notin DOMAIN AllLayers[j].entries
            OBVIOUS
          <6>1. CASE j = n + 1
            BY <4>2, <2>6, <6>1
          <6>2. CASE j \in 1..n
            BY <2>3, <5>2, <6>2 DEF ComesFrom
          <6> QED
            BY <6>1, <6>2
        <5> QED
          BY <5>1, <5>2, <5>3 DEF ComesFrom
      <4> QED
        BY <4>1, <4>2
    <3> QED
      BY <2>1, <2>2, <2>5, <3>1, <3>2, <3>3 DEF VarsInv, ComesFrom
  <2>12. TaintInv'
    BY <1>1, <1>2 DEF TaintInv
  <2>13. LimitsInv'
    BY <2>1 DEF LimitsInv
  <2> QED
    BY <2>7, <2>8, <2>11, <2>12, <2>13 DEF ConfigInv
<1> QED
  BY <1>3, <1>4 DEF ApplyLayer

(* What a step past the layers keeps, when it does not fail.                 *)
LEMMA LayersKept ==
    ASSUME ConfigInv, pc # "find", result # "failed", pc' # "find", layers = <<>>,
           UNCHANGED <<options, file, layers>>
    PROVE  LayersInv' /\ AllLayers' = AllLayers /\ Applied' = Applied
<1>1. AllLayers' = AllLayers /\ Applied' = Applied
  BY DEF AllLayers, Applied
<1> QED
  BY <1>1 DEF ConfigInv, LayersInv, Applied

(* The limits in effect, after the last layer.                               *)
LEMMA SetLimitsStep == ConfigInv /\ SetLimits => ConfigInv'
<1> SUFFICES ASSUME ConfigInv, SetLimits PROVE ConfigInv'
  OBVIOUS
<1>1. /\ UNCHANGED <<cwd, configs, options, file, layers, vars, secretEnv, policy>>
      /\ pc = "layers" /\ layers = <<>> /\ result = "none" /\ secretEnv = {}
  BY DEF SetLimits, ConfigInv, ReadInv, TaintInv
<1> DEFINE body == IF options.max_body # 0 THEN options.max_body ELSE file.body
<1>2. CASE Fail /\ UNCHANGED <<limits, mappings>>
  BY <1>1, <1>2, FailStep DEF ConfigInv, VarsInv
<1>3. CASE /\ limits' = [body |-> body,
                         memory |-> IF file.threshold < body THEN file.threshold ELSE body,
                         jobs |-> IF options.jobs # 1 THEN options.jobs
                                  ELSE IF file.jobs < 1 THEN 1 ELSE file.jobs]
           /\ mappings' = file.commands /\ GoTo("commands")
  <2>1. pc' = "commands" /\ result' = "none"
    BY <1>1, <1>3 DEF GoTo
  <2>2. /\ options.max_body \in Nat /\ options.jobs \in Nat \ {0}
        /\ file.threshold \in Nat /\ file.body \in Nat /\ file.jobs \in Nat
        /\ file.commands \in Seq(Keys)
    BY ConfigAssumption DEF ConfigInv, ReadInv, IsFileConfig
  <2>3. limits'.memory <= limits'.body /\ limits'.jobs >= 1
    BY <1>3, <2>2
  <2>4. ReadInv'
    BY <1>1, <1>3, <2>1, <2>2 DEF ConfigInv, ReadInv
  <2>5. LayersInv' /\ AllLayers' = AllLayers /\ Applied' = Applied
    BY <1>1, <2>1, LayersKept
  <2>6. VarsInv'
    BY <1>1, <2>1, <2>5 DEF ConfigInv, VarsInv, ComesFrom
  <2>7. TaintInv'
    BY <1>1 DEF TaintInv
  <2>8. LimitsInv'
    BY <2>1, <2>3 DEF LimitsInv
  <2> QED
    BY <2>4, <2>5, <2>6, <2>7, <2>8 DEF ConfigInv
<1> QED
  BY <1>2, <1>3 DEF SetLimits

(* Tainting a variable leaves its value and every other mark.                *)
LEMMA TaintIs ==
    ASSUME NEW key \in DOMAIN vars, vars' = Taint(key),
           \A k \in DOMAIN vars : vars[k] \in [value : AnyValue, secret : BOOLEAN]
    PROVE  /\ DOMAIN vars' = DOMAIN vars
           /\ \A k \in DOMAIN vars :
                /\ vars'[k] \in [value : AnyValue, secret : BOOLEAN]
                /\ vars'[k].value = vars[k].value
                /\ vars[k].secret => vars'[k].secret
           /\ vars'[key].secret
<1>1. DOMAIN vars' = DOMAIN vars
  BY DEF Taint
<1>2. vars'[key] = [value |-> vars[key].value, secret |-> TRUE]
  BY DEF Taint
<1>3. \A k \in DOMAIN vars : k # key => vars'[k] = vars[k]
  BY DEF Taint
<1>4. vars[key].value \in AnyValue
  OBVIOUS
<1>5. vars'[key].value = vars[key].value /\ vars'[key].secret
  BY <1>2
<1>6. vars'[key] \in [value : AnyValue, secret : BOOLEAN]
  BY <1>2, <1>4
<1> QED
  BY <1>1, <1>3, <1>5, <1>6

(* One variable is passed to a command as a secret.                          *)
LEMMA ResolveMappingStep == ConfigInv /\ ResolveMapping => ConfigInv'
<1> SUFFICES ASSUME ConfigInv, ResolveMapping PROVE ConfigInv'
  OBVIOUS
<1>1. /\ UNCHANGED <<cwd, configs, options, file, layers, limits, policy>>
      /\ pc = "commands" /\ mappings # <<>>
  BY DEF ResolveMapping
<1>2. result = "none" /\ layers = <<>>
  BY <1>1 DEF ConfigInv, ReadInv, LayersInv
<1>3. PICK key : key = Head(mappings)
  OBVIOUS
<1>4. CASE Fail /\ UNCHANGED <<vars, mappings, secretEnv>>
  BY <1>1, <1>4, FailStep DEF ConfigInv, VarsInv, TaintInv
<1>5. CASE key \in DOMAIN vars /\ vars' = Taint(key)
  <2>1. /\ DOMAIN vars' = DOMAIN vars
        /\ \A k \in DOMAIN vars :
             /\ vars'[k] \in [value : AnyValue, secret : BOOLEAN]
             /\ vars'[k].value = vars[k].value
             /\ vars[k].secret => vars'[k].secret
        /\ vars'[key].secret
    BY <1>5, TaintIs DEF ConfigInv, VarsInv
  <2>2. \A v \in secretEnv : \E k \in DOMAIN vars' : vars'[k].value = v /\ vars'[k].secret
    <3> SUFFICES ASSUME NEW v \in secretEnv
                 PROVE  \E k \in DOMAIN vars' : vars'[k].value = v /\ vars'[k].secret
      OBVIOUS
    <3>1. PICK k \in DOMAIN vars : vars[k].value = v /\ vars[k].secret
      BY DEF ConfigInv, TaintInv
    <3> QED
      BY <2>1, <3>1
  <2>3. DOMAIN vars' \subseteq Keys
    BY <2>1 DEF ConfigInv, VarsInv
  <2>4. CASE Fail /\ UNCHANGED <<mappings, secretEnv>>
    BY <1>1, <2>1, <2>2, <2>3, <2>4, FailStep
  <2>5. CASE /\ vars[key].value \in Values /\ secretEnv' = secretEnv \cup {vars[key].value}
             /\ mappings' = Tail(mappings) /\ GoTo("commands")
    <3>1. pc' = "commands" /\ result' = "none"
      BY <1>2, <2>5 DEF GoTo
    <3>2. mappings' \in Seq(Keys)
      BY <1>1, <2>5, HeadTailProperties DEF ConfigInv, ReadInv
    <3>3. ReadInv'
      BY <1>1, <1>2, <3>1, <3>2 DEF ConfigInv, ReadInv
    <3>4. LayersInv' /\ AllLayers' = AllLayers /\ Applied' = Applied
      BY <1>1, <1>2, <3>1, LayersKept
    <3>5. VarsInv'
      <4>1. ASSUME NEW k \in DOMAIN vars
            PROVE  \E i \in 1..Applied :
                      /\ ComesFrom(k, i) /\ vars'[k].value = AllLayers[i].entries[k]
                      /\ AllLayers[i].kind = "secret" => vars'[k].secret
        <5>1. PICK i \in 1..Applied :
                      /\ ComesFrom(k, i) /\ vars[k].value = AllLayers[i].entries[k]
                      /\ AllLayers[i].kind = "secret" => vars[k].secret
          BY <1>1, <1>2 DEF ConfigInv, VarsInv
        <5>2. vars'[k].value = vars[k].value /\ (vars[k].secret => vars'[k].secret)
          BY <2>1
        <5> QED
          BY <5>1, <5>2
      <4> QED
        BY <2>1, <2>3, <3>1, <3>4, <4>1 DEF VarsInv, ComesFrom
    <3>6. TaintInv'
      <4>1. vars[key].value \in Values
        BY <1>5, <2>5 DEF ConfigInv, VarsInv
      <4>2. secretEnv' \subseteq Values
        BY <2>5, <4>1 DEF ConfigInv, TaintInv
      <4>3. ASSUME NEW v \in secretEnv'
            PROVE  \E k \in DOMAIN vars' : vars'[k].value = v /\ vars'[k].secret
        BY <1>5, <2>1, <2>2, <2>5
      <4> QED
        BY <3>1, <4>2, <4>3 DEF TaintInv
    <3>7. LimitsInv'
      BY <1>1, <3>1 DEF ConfigInv, LimitsInv
    <3> QED
      BY <3>3, <3>4, <3>5, <3>6, <3>7 DEF ConfigInv
  <2> QED
    BY <1>3, <1>5, <2>4, <2>5 DEF ResolveMapping, Fail, GoTo
<1> QED
  BY <1>3, <1>4, <1>5 DEF ResolveMapping

(* The configuration is complete.                                            *)
LEMMA LoadedStep == ConfigInv /\ Loaded => ConfigInv'
<1> SUFFICES ASSUME ConfigInv, Loaded PROVE ConfigInv'
  OBVIOUS
<1>1. /\ UNCHANGED <<cwd, configs, options, file, layers, vars, mappings, secretEnv, limits>>
      /\ pc = "commands" /\ pc' = "returned" /\ result' = "loaded"
      /\ policy'.private = (file.private \/ file.hosts \cap Local # {})
  BY DEF Loaded
<1>2. result = "none" /\ layers = <<>>
  BY <1>1 DEF ConfigInv, ReadInv, LayersInv
<1>3. ReadInv'
  BY <1>1, <1>2 DEF ConfigInv, ReadInv
<1>4. LayersInv' /\ AllLayers' = AllLayers /\ Applied' = Applied
  BY <1>1, <1>2, LayersKept
<1>5. VarsInv'
  BY <1>1, <1>2, <1>4 DEF ConfigInv, VarsInv, ComesFrom
<1>6. TaintInv'
  BY <1>1 DEF ConfigInv, TaintInv
<1>7. file' = Default => policy'.private = FALSE
  <2>1. Default.hosts = {} /\ Default.private = FALSE
    BY DEF Default
  <2> QED
    BY <1>1, <2>1
<1>8. LimitsInv'
  BY <1>1, <1>7 DEF ConfigInv, LimitsInv
<1> QED
  BY <1>3, <1>4, <1>5, <1>6, <1>8 DEF ConfigInv

(* Every step keeps ConfigInv.                                               *)
LEMMA ConfigNextInv == ConfigInv /\ [Next]_cfgVars => ConfigInv'
<1>1. ASSUME ConfigInv, UNCHANGED cfgVars PROVE ConfigInv'
  <2>1. UNCHANGED <<cwd, configs, options, pc, file, layers, vars, mappings, secretEnv, limits,
                    policy, result>>
    BY <1>1 DEF cfgVars
  <2>2. AllLayers' = AllLayers /\ Applied' = Applied
    BY <2>1 DEF AllLayers, Applied
  <2>3. ReadInv'
    BY <1>1, <2>1 DEF ConfigInv, ReadInv
  <2>4. LayersInv'
    BY <1>1, <2>1, <2>2 DEF ConfigInv, LayersInv
  <2>5. VarsInv'
    BY <1>1, <2>1, <2>2 DEF ConfigInv, VarsInv, ComesFrom
  <2>6. TaintInv' /\ LimitsInv'
    BY <1>1, <2>1 DEF ConfigInv, TaintInv, LimitsInv
  <2> QED
    BY <2>3, <2>4, <2>5, <2>6 DEF ConfigInv
<1> QED
  BY <1>1, ReadConfigStep, ApplyLayerStep, SetLimitsStep, ResolveMappingStep, LoadedStep
     DEF Next, Done

(* load_config keeps ConfigInv.                                              *)
THEOREM ConfigInductive == Spec => []ConfigInv
  BY ConfigInitInv, ConfigNextInv, PTL DEF Spec

(* The variables, the secrets and the result have their types.               *)
THEOREM ConfigTypeCorrect == Spec => []TypeOK
<1>1. ConfigInv => TypeOK
  BY DEF ConfigInv, ReadInv, VarsInv, TaintInv, TypeOK
<1> QED  BY ConfigInductive, <1>1, PTL

(* Whatever layers a value went through, the one in effect is the last       *)
(* layer's, and every non-empty string in what is secret, or below a secret  *)
(* name, is hidden from reports (load_config, resolve_command_profiles,      *)
(* collect_secret_values).                                                   *)
THEOREM SecretsCorrect == Spec => []SecretsCollected
<1>1. ASSUME ConfigInv, result = "loaded", NEW k \in DOMAIN vars,
             NEW l, l = (CHOOSE i \in DOMAIN AllLayers :
                /\ k \in DOMAIN AllLayers[i].entries
                /\ \A j \in DOMAIN AllLayers : j > i => k \notin DOMAIN AllLayers[j].entries)
      PROVE  /\ vars[k].value = AllLayers[l].entries[k]
             /\ AllLayers[l].kind = "secret" => vars[k].secret
  <2>1. /\ pc = "returned" /\ layers = <<>>
        /\ AllLayers \in Seq(Layers)
    BY <1>1, AllLayersAre DEF ConfigInv, ReadInv, LayersInv
  <2>2. Applied = Len(AllLayers) /\ Len(AllLayers) \in Nat /\ DOMAIN AllLayers = 1..Len(AllLayers)
    BY <2>1, LenProperties, EmptySeq DEF Applied
  <2>3. PICK i \in 1..Applied :
          /\ ComesFrom(k, i) /\ vars[k].value = AllLayers[i].entries[k]
          /\ AllLayers[i].kind = "secret" => vars[k].secret
    BY <1>1, <2>1 DEF ConfigInv, VarsInv
  <2>4. /\ l \in DOMAIN AllLayers /\ k \in DOMAIN AllLayers[l].entries
        /\ \A j \in DOMAIN AllLayers : j > l => k \notin DOMAIN AllLayers[j].entries
    <3>1. \E m \in DOMAIN AllLayers :
             /\ k \in DOMAIN AllLayers[m].entries
             /\ \A j \in DOMAIN AllLayers : j > m => k \notin DOMAIN AllLayers[j].entries
      BY <2>2, <2>3 DEF ComesFrom
    <3> QED
      BY <1>1, <3>1
  <2>5. l = i
    <3>1. ~(l > i) /\ ~(i > l)
      BY <2>2, <2>3, <2>4 DEF ComesFrom
    <3>2. l \in Nat /\ i \in Nat
      BY <2>2, <2>4
    <3> QED
      BY <3>1, <3>2
  <2> QED
    BY <2>3, <2>5
<1>2. ASSUME ConfigInv, result = "loaded"
      PROVE  secretEnv \ {EmptyText} \subseteq CollectSecretValues
  <2> SUFFICES ASSUME NEW v \in secretEnv, v # EmptyText PROVE v \in CollectSecretValues
    OBVIOUS
  <2>1. PICK k \in DOMAIN vars : vars[k].value = v /\ vars[k].secret
    BY <1>2 DEF ConfigInv, TaintInv
  <2>2. v \in Values
    BY <1>2 DEF ConfigInv, TaintInv
  <2>3. [text |-> v, named |-> FALSE] \in Strings(v)
    BY <2>2, ConfigAssumption DEF Strings
  <2>4. v \in CollectTaintedStrings(v, vars[k].secret \/ k \in SecretNames)
    BY <2>1, <2>3 DEF CollectTaintedStrings
  <2> QED
    BY <2>1, <2>4 DEF CollectSecretValues
<1>3. ASSUME NEW k \in DOMAIN vars, NEW s \in Strings(vars[k].value), s.text # EmptyText,
             s.named \/ k \in SecretNames \/ vars[k].secret
      PROVE  s.text \in CollectSecretValues
  <2>1. s.text \in CollectTaintedStrings(vars[k].value, vars[k].secret \/ k \in SecretNames)
    BY <1>3 DEF CollectTaintedStrings
  <2> QED
    BY <2>1 DEF CollectSecretValues
<1>4. ConfigInv => SecretsCollected
  BY <1>1, <1>2, <1>3 DEF SecretsCollected
<1> QED  BY ConfigInductive, <1>4, PTL

(* A loaded configuration keeps in memory no more of a body than it reads,   *)
(* runs at least one job, and without an mdok.toml leaves the private        *)
(* network closed (load_config).                                             *)
THEOREM LimitsCorrect ==
    Spec => [](result = "loaded" => /\ limits.memory <= limits.body /\ limits.jobs >= 1
                                    /\ file = Default => policy.private = FALSE)
<1>1. ConfigInv => (result = "loaded" => /\ limits.memory <= limits.body /\ limits.jobs >= 1
                                         /\ file = Default => policy.private = FALSE)
  BY DEF ConfigInv, LimitsInv
<1> QED  BY ConfigInductive, <1>1, PTL

-----------------------------------------------------------------------------
(* States of the two parsers over the options both have.                     *)
Part == [kind : {"data", "enc"}, len : Lengths]
Methods == {"GET", "POST", "PUT"}
RustStates ==
    [method : Methods, parts : Seq(Part), body : {"none"}, form : {<<>>}, get : BOOLEAN,
     follow : BOOLEAN, urls : Nat, valid : BOOLEAN, err : Nat]
GoStates ==
    [method : Methods, explicit : BOOLEAN, data : Seq(Part), encoded : Seq(Part), get : BOOLEAN,
     follow : BOOLEAN, urls : Nat, valid : BOOLEAN, err : Nat, class : {Parsers!NoError}]

(* The Rust parser is where the Go parser is, with its data before its       *)
(* encoded parts.                                                            *)
Same(r, g) ==
    /\ r.method = g.method /\ r.parts = g.data \o g.encoded /\ r.get = g.get
    /\ r.follow = g.follow /\ r.urls = g.urls /\ r.valid = g.valid /\ r.err = g.err

(* PlansAgree speaks of these commands: no option only one of them has, no   *)
(* method before the data, no encoded part before it.                        *)
Uncommon == {"form", "upload", "dataFile", "urlOption", "denied"}
Common == aSeen.opts \cap Uncommon = {} /\ ~aSeen.late /\ ~aSeen.mixed

(* On such commands the parsers go side by side until the Rust one meets its *)
(* limit; a method named so far is explicit, an encoded part was seen.       *)
SideBySide ==
    /\ aRust \in RustStates /\ aGo \in GoStates /\ Same(aRust, aGo)
    /\ "urlencode" \notin aSeen.opts => aGo.encoded = <<>>
    /\ aSeen.method = "none" => ~aGo.explicit
AgreeInv ==
    /\ aSeen.late \in BOOLEAN /\ aSeen.mixed \in BOOLEAN
    /\ Common => aRust.err = Parsers!E_BODY_LIMIT \/ SideBySide

(* The inductive invariant of the two parsers.                               *)
ParsersInv == AgreeInv /\ PlansAgree

-----------------------------------------------------------------------------
(* Neither parser has read anything.                                         *)
LEMMA ParsersInitInv == Parsers!Init => ParsersInv
<1> SUFFICES ASSUME Parsers!Init PROVE ParsersInv
  OBVIOUS
<1>1. <<>> \in Seq(Part) /\ <<>> = <<>> \o <<>>
  BY EmptySeq, ConcatEmptySeq
<1>2. aSeen.late = FALSE /\ aSeen.mixed = FALSE /\ aSeen.opts = {} /\ aSeen.method = "none"
  BY DEF Parsers!Init
<1>3. aRust \in RustStates
  <2>1. aRust = [method |-> "GET", parts |-> <<>>, body |-> "none", form |-> <<>>, get |-> FALSE,
                 follow |-> FALSE, urls |-> 0, valid |-> TRUE, err |-> Parsers!NoError]
    BY DEF Parsers!Init
  <2>2. "GET" \in Methods /\ Parsers!NoError \in Nat
    BY DEF Parsers!NoError, Methods
  <2>3. PICK e \in Seq(Part) : e = <<>>
    BY <1>1
  <2> QED
    BY <2>1, <2>2, <2>3 DEF RustStates
<1>4. aGo \in GoStates
  <2>1. aGo = [method |-> "GET", explicit |-> FALSE, data |-> <<>>, encoded |-> <<>>, get |-> FALSE,
               follow |-> FALSE, urls |-> 0, valid |-> TRUE, err |-> Parsers!NoError,
               class |-> Parsers!NoError]
    BY DEF Parsers!Init
  <2>2. "GET" \in Methods /\ Parsers!NoError \in Nat
    BY DEF Parsers!NoError, Methods
  <2>3. PICK e \in Seq(Part) : e = <<>>
    BY <1>1
  <2> QED
    BY <2>1, <2>2, <2>3 DEF GoStates
<1>5. Same(aRust, aGo) /\ aGo.encoded = <<>> /\ ~aGo.explicit
  BY <1>1 DEF Parsers!Init, Same
<1>6. PlansAgree
  BY DEF Parsers!Init, PlansAgree, Parsers!PlansAgree
<1> QED
  BY <1>2, <1>3, <1>4, <1>5, <1>6 DEF ParsersInv, AgreeInv, SideBySide

(* The Go parser, on an option it does not refuse as a whole.                *)
LEMMA GoReadsIs ==
    ASSUME NEW g \in GoStates, NEW a, a.opt \notin Uncommon, Parsers!GoParses(g, a) \in GoStates
    PROVE  Parsers!GoReads(g, a) = Parsers!GoParses(g, a)
<1>1. PICK q \in GoStates : q = Parsers!GoParses(g, a)
  OBVIOUS
<1>2. q.class = Parsers!NoError /\ g.class = Parsers!NoError
  BY DEF GoStates
<1>3. Parsers!ClassOf(a) = Parsers!NoError
  BY DEF Parsers!ClassOf, Uncommon
<1>4. Parsers!GoReads(g, a) = [q EXCEPT !.class = Parsers!NoError]
  BY <1>1, <1>2, <1>3 DEF Parsers!GoReads
<1>5. [q EXCEPT !.class = Parsers!NoError] = q
  BY <1>2 DEF GoStates
<1> QED
  BY <1>1, <1>4, <1>5

(* A step of both parsers that are side by side, for an option that changes  *)
(* no part.                                                                  *)
LEMMA PlainStep ==
    ASSUME NEW r \in RustStates, NEW g \in GoStates, Same(r, g),
           NEW a \in Parsers!Arguments,
           a.opt \notin Uncommon \cup {"data", "urlencode"}
    PROVE  /\ Parsers!RustReads(r, a) \in RustStates /\ Parsers!GoParses(g, a) \in GoStates
           /\ Same(Parsers!RustReads(r, a), Parsers!GoParses(g, a))
           /\ Parsers!GoParses(g, a).encoded = g.encoded
           /\ a.opt # "request" => Parsers!GoParses(g, a).explicit = g.explicit
<1>1. CASE r.err # Parsers!NoError
  <2>1. g.err # Parsers!NoError
    BY <1>1 DEF Same
  <2>2. Parsers!RustReads(r, a) = r /\ Parsers!GoParses(g, a) = g
    BY <1>1, <2>1 DEF Parsers!RustReads, Parsers!GoParses
  <2> QED
    BY <2>2
<1>2. CASE r.err = Parsers!NoError
  <2>0. g.err = Parsers!NoError
    BY <1>2 DEF Same
  <2>1. CASE a.opt = "get"
    <3>1. Parsers!RustReads(r, a) = [r EXCEPT !.get = TRUE]
      BY <1>2, <2>1 DEF Parsers!RustReads
    <3>2. Parsers!GoParses(g, a) = [g EXCEPT !.get = TRUE]
      BY <2>0, <2>1 DEF Parsers!GoParses
    <3> QED
      BY <3>1, <3>2 DEF RustStates, GoStates, Same
  <2>2. CASE a.opt = "noGet"
    <3>1. Parsers!RustReads(r, a) = [r EXCEPT !.get = FALSE]
      BY <1>2, <2>2 DEF Parsers!RustReads
    <3>2. Parsers!GoParses(g, a) = [g EXCEPT !.get = FALSE]
      BY <2>0, <2>2 DEF Parsers!GoParses
    <3> QED
      BY <3>1, <3>2 DEF RustStates, GoStates, Same
  <2>3. CASE a.opt = "location"
    <3>1. Parsers!RustReads(r, a) = [r EXCEPT !.follow = TRUE]
      BY <1>2, <2>3 DEF Parsers!RustReads
    <3>2. Parsers!GoParses(g, a) = [g EXCEPT !.follow = TRUE]
      BY <2>0, <2>3 DEF Parsers!GoParses
    <3> QED
      BY <3>1, <3>2 DEF RustStates, GoStates, Same
  <2>4. CASE a.opt = "noLocation"
    <3>1. Parsers!RustReads(r, a) = [r EXCEPT !.follow = FALSE]
      BY <1>2, <2>4 DEF Parsers!RustReads
    <3>2. Parsers!GoParses(g, a) = [g EXCEPT !.follow = FALSE]
      BY <2>0, <2>4 DEF Parsers!GoParses
    <3> QED
      BY <3>1, <3>2 DEF RustStates, GoStates, Same
  <2>5. CASE a.opt = "request" \/ a.opt = "attached"
    <3>0. a.method \in Methods
      <4>1. a.method \in {"GET", "PUT"}
        BY <2>5 DEF Parsers!Arguments, Parsers!Plain, Parsers!Sized
      <4> QED
        BY <4>1 DEF Methods
    <3>1. Parsers!RustReads(r, a) = [r EXCEPT !.method = a.method]
      BY <1>2, <2>5 DEF Parsers!RustReads
    <3>2. CASE a.opt = "request"
      <4>1. Parsers!GoParses(g, a) = [g EXCEPT !.method = a.method, !.explicit = TRUE]
        BY <2>0, <3>2 DEF Parsers!GoParses
      <4> QED
        BY <3>0, <3>1, <3>2, <4>1 DEF RustStates, GoStates, Same
    <3>3. CASE a.opt = "attached"
      <4>1. Parsers!GoParses(g, a) = [g EXCEPT !.method = a.method]
        BY <2>0, <3>3 DEF Parsers!GoParses
      <4> QED
        BY <3>0, <3>1, <3>3, <4>1 DEF RustStates, GoStates, Same
    <3> QED
      BY <2>5, <3>2, <3>3
  <2>6. CASE a.opt = "url"
    <3>0. a.valid \in BOOLEAN
      BY <2>6 DEF Parsers!Arguments, Parsers!Plain, Parsers!Sized
    <3>1. Parsers!RustReads(r, a) = [r EXCEPT !.urls = @ + 1, !.valid = a.valid]
      BY <1>2, <2>6 DEF Parsers!RustReads
    <3>2. Parsers!GoParses(g, a) = [g EXCEPT !.urls = @ + 1, !.valid = a.valid]
      BY <2>0, <2>6 DEF Parsers!GoParses
    <3>3. r.urls + 1 \in Nat /\ g.urls + 1 \in Nat
      BY DEF RustStates, GoStates
    <3>4. Parsers!RustReads(r, a) \in RustStates
      BY <3>0, <3>1, <3>3 DEF RustStates
    <3>5. Parsers!GoParses(g, a) \in GoStates
      BY <3>0, <3>2, <3>3 DEF GoStates
    <3>6. Same(Parsers!RustReads(r, a), Parsers!GoParses(g, a))
      BY <3>1, <3>2 DEF RustStates, GoStates, Same
    <3>7. Parsers!GoParses(g, a).encoded = g.encoded /\ Parsers!GoParses(g, a).explicit = g.explicit
      BY <3>2 DEF GoStates
    <3> QED
      BY <3>4, <3>5, <3>6, <3>7
  <2>7. CASE a.opt = "unknown" \/ a.opt = "noValue"
    <3>1. Parsers!RustReads(r, a) = [r EXCEPT !.err = Parsers!E_UNKNOWN_OPTION]
      BY <1>2, <2>7 DEF Parsers!RustReads
    <3>2. Parsers!GoParses(g, a) = [g EXCEPT !.err = Parsers!E_UNKNOWN_OPTION]
      BY <2>0, <2>7 DEF Parsers!GoParses
    <3>3. PICK e \in Nat : e = Parsers!E_UNKNOWN_OPTION
      BY DEF Parsers!E_UNKNOWN_OPTION
    <3>4. Parsers!RustReads(r, a) \in RustStates
      BY <3>1, <3>3 DEF RustStates
    <3>5. Parsers!GoParses(g, a) \in GoStates
      BY <3>2, <3>3 DEF GoStates
    <3>6. Same(Parsers!RustReads(r, a), Parsers!GoParses(g, a))
      BY <3>1, <3>2 DEF RustStates, GoStates, Same
    <3>7. Parsers!GoParses(g, a).encoded = g.encoded /\ Parsers!GoParses(g, a).explicit = g.explicit
      BY <3>2 DEF GoStates
    <3> QED
      BY <3>4, <3>5, <3>6, <3>7
  <2>8. CASE a.opt = "badValue"
    <3>1. Parsers!RustReads(r, a) = [r EXCEPT !.err = Parsers!E_POLICY]
      BY <1>2, <2>8 DEF Parsers!RustReads
    <3>2. Parsers!GoParses(g, a) = [g EXCEPT !.err = Parsers!E_POLICY]
      BY <2>0, <2>8 DEF Parsers!GoParses
    <3>3. PICK e \in Nat : e = Parsers!E_POLICY
      BY DEF Parsers!E_POLICY
    <3>4. Parsers!RustReads(r, a) \in RustStates
      BY <3>1, <3>3 DEF RustStates
    <3>5. Parsers!GoParses(g, a) \in GoStates
      BY <3>2, <3>3 DEF GoStates
    <3>6. Same(Parsers!RustReads(r, a), Parsers!GoParses(g, a))
      BY <3>1, <3>2 DEF RustStates, GoStates, Same
    <3>7. Parsers!GoParses(g, a).encoded = g.encoded /\ Parsers!GoParses(g, a).explicit = g.explicit
      BY <3>2 DEF GoStates
    <3> QED
      BY <3>4, <3>5, <3>6, <3>7
  <2>9. CASE a.opt = "field"
    <3>1. Parsers!RustReads(r, a) = r /\ Parsers!GoParses(g, a) = g
      BY <1>2, <2>0, <2>9 DEF Parsers!RustReads, Parsers!GoParses
    <3> QED
      BY <3>1
  <2> QED
    BY <2>1, <2>2, <2>3, <2>4, <2>5, <2>6, <2>7, <2>8, <2>9
       DEF Parsers!Arguments, Parsers!Plain, Parsers!Sized, Uncommon
<1> QED
  BY <1>1, <1>2

(* A part is appended to the joined parts where it is appended to the        *)
(* encoded ones.                                                             *)
LEMMA AppendJoined ==
    ASSUME NEW s \in Seq(Part), NEW t \in Seq(Part), NEW p \in Part
    PROVE  Append(s \o t, p) = s \o Append(t, p)
<1>1. s \o t \in Seq(Part) /\ <<p>> \in Seq(Part)
  BY ConcatProperties, OneIs
<1>2. Append(s \o t, p) = (s \o t) \o <<p>>
  BY <1>1, AppendIsConcat
<1>3. Append(t, p) = t \o <<p>>
  BY AppendIsConcat
<1> QED
  BY <1>1, <1>2, <1>3, ConcatAssociative

(* A step of both parsers that are side by side, for a part of the body.     *)
LEMMA PartStep ==
    ASSUME NEW r \in RustStates, NEW g \in GoStates, Same(r, g), r.err = Parsers!NoError,
           NEW a \in Parsers!Arguments, a.opt \in {"data", "urlencode"}, ~g.explicit,
           a.opt = "data" => g.encoded = <<>>
    PROVE  \/ Parsers!RustReads(r, a).err = Parsers!E_BODY_LIMIT
           \/ /\ Parsers!RustReads(r, a) \in RustStates /\ Parsers!GoParses(g, a) \in GoStates
              /\ Same(Parsers!RustReads(r, a), Parsers!GoParses(g, a))
              /\ a.opt = "data" => Parsers!GoParses(g, a).encoded = <<>>
              /\ ~Parsers!GoParses(g, a).explicit
<1>1. a.len \in Lengths
  BY DEF Parsers!Arguments, Parsers!Plain, Parsers!Sized
<1>2. g.err = Parsers!NoError
  BY DEF Same
<1>3. PICK p \in Part : p = [kind |-> IF a.opt = "data" THEN "data" ELSE "enc", len |-> a.len]
  <2>1. PICK k \in {"data", "enc"} : k = IF a.opt = "data" THEN "data" ELSE "enc"
    OBVIOUS
  <2>2. [kind |-> k, len |-> a.len] \in Part
    BY <1>1 DEF Part
  <2> QED
    BY <2>1, <2>2
<1>4. Parsers!RustReads(r, a) = Parsers!RustPart(r, p.kind, a.len)
  <2>1. CASE a.opt = "data"
    BY <1>3, <2>1 DEF Parsers!RustReads
  <2>2. CASE a.opt = "urlencode"
    BY <1>3, <2>2 DEF Parsers!RustReads
  <2> QED
    BY <2>1, <2>2
<1>5. CASE a.len > Parsers!Capacity(r.parts)
  <2>1. Parsers!RustReads(r, a) = [r EXCEPT !.err = Parsers!E_BODY_LIMIT]
    BY <1>4, <1>5 DEF Parsers!RustPart
  <2> QED
    BY <2>1 DEF RustStates
<1>6. CASE ~(a.len > Parsers!Capacity(r.parts))
  <2>1. p = [kind |-> p.kind, len |-> a.len]
    BY <1>3 DEF Part
  <2>2. Parsers!RustReads(r, a) = [r EXCEPT !.parts = Append(r.parts, p), !.method = "POST"]
    BY <1>4, <1>6, <2>1 DEF Parsers!RustPart
  <2>3. r.parts \in Seq(Part) /\ g.data \in Seq(Part) /\ g.encoded \in Seq(Part)
    BY DEF RustStates, GoStates
  <2>4. /\ Append(r.parts, p) \in Seq(Part) /\ Append(g.data, p) \in Seq(Part)
        /\ Append(g.encoded, p) \in Seq(Part) /\ "POST" \in Methods
    BY <2>3, AppendProperties DEF Methods
  <2>5. PICK t \in Seq(Part) : t = Append(r.parts, p)
    BY <2>4
  <2>6. /\ Parsers!RustReads(r, a) \in RustStates
        /\ Parsers!RustReads(r, a).parts = t /\ Parsers!RustReads(r, a).method = "POST"
        /\ Parsers!RustReads(r, a).get = r.get /\ Parsers!RustReads(r, a).follow = r.follow
        /\ Parsers!RustReads(r, a).urls = r.urls /\ Parsers!RustReads(r, a).valid = r.valid
        /\ Parsers!RustReads(r, a).err = r.err
    BY <2>2, <2>4, <2>5 DEF RustStates
  <2>7. CASE a.opt = "data"
    <3>1. PICK d \in Seq(Part) : d = Append(g.data, p)
      BY <2>4
    <3>2. PICK q : q = [g EXCEPT !.data = d]
      OBVIOUS
    <3>3. Parsers!GoParses(g, a) = Parsers!Implied(q)
      BY <1>2, <1>3, <2>7, <3>1, <3>2 DEF Parsers!GoParses
    <3>4. q \in GoStates /\ q.explicit = FALSE
      BY <3>2 DEF GoStates
    <3>5. Parsers!GoParses(g, a) = [q EXCEPT !.method = "POST"]
      BY <3>3, <3>4 DEF Parsers!Implied
    <3>6. Parsers!GoParses(g, a) \in GoStates
      BY <2>4, <3>4, <3>5 DEF GoStates
    <3>7. t = d \o <<>>
      <4>1. r.parts = g.data
        BY <2>3, <2>7, ConcatEmptySeq DEF Same
      <4> QED
        BY <2>5, <3>1, <4>1, ConcatEmptySeq
    <3>8. /\ Parsers!GoParses(g, a).data = d /\ Parsers!GoParses(g, a).encoded = g.encoded
          /\ Parsers!GoParses(g, a).method = "POST" /\ ~Parsers!GoParses(g, a).explicit
          /\ Parsers!GoParses(g, a).get = g.get /\ Parsers!GoParses(g, a).follow = g.follow
          /\ Parsers!GoParses(g, a).urls = g.urls /\ Parsers!GoParses(g, a).valid = g.valid
          /\ Parsers!GoParses(g, a).err = g.err
      BY <3>2, <3>4, <3>5 DEF GoStates
    <3> QED
      BY <2>6, <2>7, <3>6, <3>7, <3>8 DEF Same
  <2>8. CASE a.opt = "urlencode"
    <3>1. PICK d \in Seq(Part) : d = Append(g.encoded, p)
      BY <2>4
    <3>2. PICK q : q = [g EXCEPT !.encoded = d]
      OBVIOUS
    <3>3. Parsers!GoParses(g, a) = Parsers!Implied(q)
      BY <1>2, <1>3, <2>8, <3>1, <3>2 DEF Parsers!GoParses
    <3>4. q \in GoStates /\ q.explicit = FALSE
      BY <3>2 DEF GoStates
    <3>5. Parsers!GoParses(g, a) = [q EXCEPT !.method = "POST"]
      BY <3>3, <3>4 DEF Parsers!Implied
    <3>6. Parsers!GoParses(g, a) \in GoStates
      BY <2>4, <3>4, <3>5 DEF GoStates
    <3>7. t = g.data \o d
      <4>1. Append(g.data \o g.encoded, p) = g.data \o Append(g.encoded, p)
        BY <2>3, AppendJoined
      <4>2. r.parts = g.data \o g.encoded
        BY DEF Same
      <4> QED
        BY <2>5, <3>1, <4>1, <4>2
    <3>8. /\ Parsers!GoParses(g, a).data = g.data /\ Parsers!GoParses(g, a).encoded = d
          /\ Parsers!GoParses(g, a).method = "POST" /\ ~Parsers!GoParses(g, a).explicit
          /\ Parsers!GoParses(g, a).get = g.get /\ Parsers!GoParses(g, a).follow = g.follow
          /\ Parsers!GoParses(g, a).urls = g.urls /\ Parsers!GoParses(g, a).valid = g.valid
          /\ Parsers!GoParses(g, a).err = g.err
      BY <3>2, <3>4, <3>5 DEF GoStates
    <3> QED
      BY <2>6, <2>8, <3>6, <3>7, <3>8 DEF Same
  <2> QED
    BY <2>7, <2>8
<1> QED
  BY <1>5, <1>6

(* What one more argument does to the history.                               *)
LEMMA SawIs ==
    ASSUME NEW a \in Parsers!Arguments, aSeen' = Parsers!Saw(a),
           aSeen.late \in BOOLEAN, aSeen.mixed \in BOOLEAN
    PROVE  /\ aSeen'.late \in BOOLEAN /\ aSeen'.mixed \in BOOLEAN
           /\ aSeen'.opts = aSeen.opts \cup {a.opt}
           /\ Common' => /\ Common /\ a.opt \notin Uncommon
                         /\ a.opt \in {"data", "urlencode"} => aSeen.method = "none"
                         /\ a.opt = "data" => "urlencode" \notin aSeen.opts
           /\ aSeen'.method = "none" =>
                aSeen.method = "none" /\ a.opt \notin {"request", "attached"}
<1>1. /\ aSeen'.opts = aSeen.opts \cup {a.opt}
      /\ aSeen'.late = (aSeen.late \/ (a.opt \in Parsers!BodyOptions /\ aSeen.method # "none"))
      /\ aSeen'.mixed = (aSeen.mixed \/ (a.opt = "data" /\ "urlencode" \in aSeen.opts))
      /\ aSeen'.method = IF a.opt \in {"request", "attached"} THEN a.method ELSE aSeen.method
  BY DEF Parsers!Saw
<1>2. a.opt \in {"request", "attached"} => a.method \in {"GET", "PUT"}
  BY DEF Parsers!Arguments, Parsers!Plain, Parsers!Sized
<1>3. aSeen'.late \in BOOLEAN /\ aSeen'.mixed \in BOOLEAN
  BY <1>1
<1>4. ASSUME Common'
      PROVE  /\ Common /\ a.opt \notin Uncommon
             /\ a.opt \in {"data", "urlencode"} => aSeen.method = "none"
             /\ a.opt = "data" => "urlencode" \notin aSeen.opts
  BY <1>1, <1>4 DEF Common, Uncommon, Parsers!BodyOptions
<1>5. aSeen'.method = "none" => aSeen.method = "none" /\ a.opt \notin {"request", "attached"}
  BY <1>1, <1>2
<1> QED
  BY <1>1, <1>3, <1>4, <1>5

(* Both parsers read one more argument.                                      *)
LEMMA ReadArgumentStep ==
    ASSUME ParsersInv, NEW a \in Parsers!Arguments, Parsers!ReadArgument(a)
    PROVE  ParsersInv'
<1>1. /\ aRust' = Parsers!RustReads(aRust, a) /\ aGo' = Parsers!GoReads(aGo, a)
      /\ aSeen' = Parsers!Saw(a) /\ aRustPlan' = Parsers!NoPlan
  BY DEF Parsers!ReadArgument
<1>2. PlansAgree'
  BY <1>1 DEF PlansAgree, Parsers!PlansAgree
<1>3. /\ aSeen'.late \in BOOLEAN /\ aSeen'.mixed \in BOOLEAN
      /\ aSeen'.opts = aSeen.opts \cup {a.opt}
      /\ Common' => /\ Common /\ a.opt \notin Uncommon
                    /\ a.opt \in {"data", "urlencode"} => aSeen.method = "none"
                    /\ a.opt = "data" => "urlencode" \notin aSeen.opts
      /\ aSeen'.method = "none" =>
           aSeen.method = "none" /\ a.opt \notin {"request", "attached"}
  BY <1>1, SawIs DEF ParsersInv, AgreeInv
<1>4. ASSUME Common' PROVE (aRust.err = Parsers!E_BODY_LIMIT \/ SideBySide)'
  <2>1. aRust.err = Parsers!E_BODY_LIMIT \/ SideBySide
    BY <1>3, <1>4 DEF ParsersInv, AgreeInv
  <2>2. CASE aRust.err = Parsers!E_BODY_LIMIT
    <3>1. aRust.err # Parsers!NoError
      BY <2>2 DEF Parsers!E_BODY_LIMIT, Parsers!NoError
    <3>2. aRust' = aRust
      BY <1>1, <3>1 DEF Parsers!RustReads
    <3> QED
      BY <2>2, <3>2
  <2>3. CASE SideBySide
    <3>1. PICK r \in RustStates : r = aRust
      BY <2>3 DEF SideBySide
    <3>2. PICK g \in GoStates : g = aGo
      BY <2>3 DEF SideBySide
    <3>3. Same(r, g) /\ ("urlencode" \notin aSeen.opts => g.encoded = <<>>)
          /\ (aSeen.method = "none" => ~g.explicit)
      BY <2>3, <3>1, <3>2 DEF SideBySide
    <3>4. CASE a.opt \notin {"data", "urlencode"} \/ r.err # Parsers!NoError
      <4>1. /\ Parsers!RustReads(r, a) \in RustStates /\ Parsers!GoParses(g, a) \in GoStates
            /\ Same(Parsers!RustReads(r, a), Parsers!GoParses(g, a))
            /\ Parsers!GoParses(g, a).encoded = g.encoded
            /\ a.opt # "request" => Parsers!GoParses(g, a).explicit = g.explicit
        <5>1. CASE a.opt \notin {"data", "urlencode"}
          BY <1>3, <1>4, <3>3, <5>1, PlainStep
        <5>2. CASE r.err # Parsers!NoError
          <6>1. g.err # Parsers!NoError
            BY <3>3, <5>2 DEF Same
          <6>2. Parsers!RustReads(r, a) = r /\ Parsers!GoParses(g, a) = g
            BY <5>2, <6>1 DEF Parsers!RustReads, Parsers!GoParses
          <6> QED
            BY <3>3, <6>2
        <5> QED
          BY <3>4, <5>1, <5>2
      <4>2. Parsers!GoReads(g, a) = Parsers!GoParses(g, a)
        BY <1>3, <1>4, <4>1, GoReadsIs
      <4>3. "urlencode" \notin aSeen'.opts => aGo'.encoded = <<>>
        BY <1>1, <1>3, <3>2, <3>3, <4>1, <4>2
      <4>4. aSeen'.method = "none" => ~aGo'.explicit
        BY <1>1, <1>3, <3>2, <3>3, <4>1, <4>2
      <4> QED
        BY <1>1, <3>1, <3>2, <4>1, <4>2, <4>3, <4>4 DEF SideBySide
    <3>5. CASE a.opt \in {"data", "urlencode"} /\ r.err = Parsers!NoError
      <4>1. \/ Parsers!RustReads(r, a).err = Parsers!E_BODY_LIMIT
            \/ /\ Parsers!RustReads(r, a) \in RustStates /\ Parsers!GoParses(g, a) \in GoStates
               /\ Same(Parsers!RustReads(r, a), Parsers!GoParses(g, a))
               /\ a.opt = "data" => Parsers!GoParses(g, a).encoded = <<>>
               /\ ~Parsers!GoParses(g, a).explicit
        BY <1>3, <1>4, <3>3, <3>5, PartStep
      <4>2. CASE Parsers!RustReads(r, a).err = Parsers!E_BODY_LIMIT
        BY <1>1, <3>1, <4>2
      <4>3. CASE /\ Parsers!RustReads(r, a) \in RustStates /\ Parsers!GoParses(g, a) \in GoStates
                 /\ Same(Parsers!RustReads(r, a), Parsers!GoParses(g, a))
                 /\ a.opt = "data" => Parsers!GoParses(g, a).encoded = <<>>
                 /\ ~Parsers!GoParses(g, a).explicit
        <5>1. Parsers!GoReads(g, a) = Parsers!GoParses(g, a)
          BY <1>3, <1>4, <4>3, GoReadsIs
        <5>2. "urlencode" \notin aSeen'.opts => aGo'.encoded = <<>>
          BY <1>1, <1>3, <3>2, <3>5, <4>3, <5>1
        <5> QED
          BY <1>1, <3>1, <3>2, <4>3, <5>1, <5>2 DEF SideBySide
      <4> QED
        BY <4>1, <4>2, <4>3
    <3> QED
      BY <3>4, <3>5
  <2> QED
    BY <2>1, <2>2, <2>3
<1> QED
  BY <1>2, <1>3, <1>4 DEF ParsersInv, AgreeInv

(* Where the parsers are side by side they make the same of the command.     *)
LEMMA EndStep ==
    ASSUME ParsersInv, Parsers!EndOfArguments
    PROVE  ParsersInv'
<1>1. /\ UNCHANGED <<aRust, aGo, aSeen>>
      /\ aRustPlan' = Parsers!RustFinish /\ aGoPlan' = Parsers!GoFinish
  BY DEF Parsers!EndOfArguments
<1>2. AgreeInv'
  BY <1>1 DEF ParsersInv, AgreeInv, Common, SideBySide
<1>3. ASSUME Common PROVE aRustPlan' = aGoPlan' \/ aRustPlan'.err = Parsers!E_BODY_LIMIT
  <2>1. CASE aRust.err = Parsers!E_BODY_LIMIT
    <3>1. Parsers!RustFinish = Parsers!Refused(Parsers!E_BODY_LIMIT)
      BY <2>1 DEF Parsers!RustFinish, Parsers!E_BODY_LIMIT, Parsers!NoError
    <3> QED
      BY <1>1, <3>1 DEF Parsers!Refused
  <2>2. CASE SideBySide
    <3>1. /\ aRust.method = aGo.method /\ aRust.parts = aGo.data \o aGo.encoded
          /\ aRust.get = aGo.get /\ aRust.follow = aGo.follow /\ aRust.urls = aGo.urls
          /\ aRust.valid = aGo.valid /\ aRust.err = aGo.err
      BY <2>2 DEF SideBySide, Same
    <3>2. aRust.body = "none" /\ aRust.form = <<>> /\ aGo.class = Parsers!NoError
      BY <2>2 DEF SideBySide, RustStates, GoStates
    <3>3. CASE aRust.err # Parsers!NoError
      BY <1>1, <3>1, <3>2, <3>3 DEF Parsers!RustFinish, Parsers!GoFinish
    <3>4. CASE aRust.err = Parsers!NoError /\ (aRust.urls # 1 \/ ~aRust.valid)
      BY <1>1, <3>1, <3>2, <3>4 DEF Parsers!RustFinish, Parsers!GoFinish
    <3>5. CASE aRust.err = Parsers!NoError /\ ~(aRust.urls # 1 \/ ~aRust.valid)
      <4>1. PICK t : t = aRust.parts
        OBVIOUS
      <4>2. (IF aRust.parts # <<>> THEN aRust.parts ELSE aRust.form) = t
        BY <3>2, <4>1
      <4>3. Parsers!RustFinish =
              [err |-> Parsers!NoError, made |-> TRUE, follow |-> aRust.follow,
               method |-> IF aRust.get THEN "GET" ELSE aRust.method,
               query |-> IF aRust.get THEN t ELSE <<>>, body |-> IF aRust.get THEN <<>> ELSE t]
        BY <3>2, <3>5, <4>1, <4>2 DEF Parsers!RustFinish
      <4>4. Parsers!GoFinish =
              [err |-> Parsers!NoError, made |-> TRUE, follow |-> aRust.follow,
               method |-> IF aRust.get THEN "GET" ELSE aRust.method,
               query |-> IF aRust.get THEN t ELSE <<>>, body |-> IF aRust.get THEN <<>> ELSE t]
        BY <3>1, <3>2, <3>5, <4>1 DEF Parsers!GoFinish
      <4> QED
        BY <1>1, <4>3, <4>4
    <3> QED
      BY <3>3, <3>4, <3>5
  <2> QED
    BY <1>3, <2>1, <2>2 DEF ParsersInv, AgreeInv
<1>4. PlansAgree'
  BY <1>1, <1>3 DEF PlansAgree, Parsers!PlansAgree, Common, Uncommon
<1> QED
  BY <1>2, <1>4 DEF ParsersInv

(* Every step keeps ParsersInv.                                              *)
LEMMA ParsersNextInv == ParsersInv /\ [Parsers!Next]_Parsers!vars => ParsersInv'
<1>1. ParsersInv /\ UNCHANGED Parsers!vars => ParsersInv'
  BY DEF Parsers!vars, ParsersInv, AgreeInv, Common, SideBySide, PlansAgree, Parsers!PlansAgree
<1> QED
  BY <1>1, ReadArgumentStep, EndStep DEF Parsers!Next, Parsers!Done

(* The two parsers keep ParsersInv.                                          *)
THEOREM ParsersInductive == Parsers!Spec => []ParsersInv
  BY ParsersInitInv, ParsersNextInv, PTL DEF Parsers!Spec

(* Of a command of any length over the options both have, the Rust and the   *)
(* Go parser make the same plan or the same diagnostic, up to the body limit *)
(* of the Rust one (CurlPlan::parse; curlplan.Parse).                        *)
THEOREM PlansCorrect == Parsers!Spec => []PlansAgree
<1>1. ParsersInv => PlansAgree
  BY DEF ParsersInv
<1> QED  BY ParsersInductive, <1>1, PTL

-----------------------------------------------------------------------------
(* f sums up the lengths of the first parts of s, up to n of them.           *)
IsSum(s, n, f) == f = [i \in 0..n |-> IF i = 0 THEN 0 ELSE f[i - 1] + s[i].len]

(* There is such a sum: of a first n without one, n - 1 has one.             *)
LEMMA SumExists ==
    ASSUME NEW s, NEW n \in Nat
    PROVE  \E f : IsSum(s, n, f)
<1> DEFINE T == {m \in Nat : ~\E f : IsSum(s, m, f)}
<1> SUFFICES ASSUME T # {} PROVE FALSE
  OBVIOUS
<1>1. PICK m \in T : \A y \in T : m <= y
  <2>1. T \subseteq Nat
    OBVIOUS
  <2> HIDE DEF T
  <2> QED
    BY <2>1, LeastOf
<1>2. CASE m = 0
  <2> DEFINE f == [i \in 0..0 |-> 0]
  <2>1. IsSum(s, 0, f)
    BY DEF IsSum
  <2> QED
    BY <1>1, <1>2, <2>1
<1>3. CASE m # 0
  <2>1. m - 1 \in Nat /\ m - 1 \notin T
    BY <1>1, <1>3
  <2>2. PICK g : IsSum(s, m - 1, g)
    BY <2>1
  <2> DEFINE f == [i \in 0..m |-> IF i = m THEN g[m - 1] + s[m].len ELSE g[i]]
  <2>3. \A i \in 0..(m - 1) : g[i] = IF i = 0 THEN 0 ELSE g[i - 1] + s[i].len
    BY <2>2 DEF IsSum
  <2>4. ASSUME NEW i \in 0..m PROVE f[i] = IF i = 0 THEN 0 ELSE f[i - 1] + s[i].len
    BY <1>3, <2>3
  <2>5. IsSum(s, m, f)
    BY <2>4 DEF IsSum
  <2> QED
    BY <1>1, <2>5
<1> QED
  BY <1>2, <1>3

(* Length is the last value of the sum.                                      *)
LEMMA LengthIs ==
    ASSUME NEW s \in Seq(Part)
    PROVE  \E f : IsSum(s, Len(s), f) /\ Parsers!Length(s) = f[Len(s)]
<1>1. Len(s) \in Nat
  BY LenProperties
<1>2. \E f : IsSum(s, Len(s), f)
  BY <1>1, SumExists
<1> DEFINE h == CHOOSE f : f = [i \in 0..Len(s) |-> IF i = 0 THEN 0 ELSE f[i - 1] + s[i].len]
<1>3. Parsers!Length(s) = h[Len(s)]
  BY DEF Parsers!Length
<1>4. IsSum(s, Len(s), h)
  BY <1>2 DEF IsSum
<1> QED
  BY <1>3, <1>4

(* Sums are natural, and those of sequences that begin alike begin alike.    *)
LEMMA SumsAgree ==
    ASSUME NEW s \in Seq(Part), NEW t, NEW n \in Nat, NEW m \in Nat, n <= Len(s), n <= m,
           \A i \in 1..n : t[i] = s[i],
           NEW f, IsSum(s, n, f), NEW g, IsSum(t, m, g)
    PROVE  f[n] \in Nat /\ g[n] = f[n]
<1> DEFINE T == {i \in 0..n : ~(f[i] \in Nat /\ g[i] = f[i])}
<1> SUFFICES ASSUME T # {} PROVE FALSE
  OBVIOUS
<1>1. PICK k \in T : \A y \in T : k <= y
  <2>1. T \subseteq Nat
    OBVIOUS
  <2> HIDE DEF T
  <2> QED
    BY <2>1, LeastOf
<1>2. k \in 0..n
  BY <1>1
<1>3. /\ f[k] = (IF k = 0 THEN 0 ELSE f[k - 1] + s[k].len)
      /\ g[k] = (IF k = 0 THEN 0 ELSE g[k - 1] + t[k].len)
  BY <1>2 DEF IsSum
<1>4. CASE k = 0
  BY <1>1, <1>3, <1>4
<1>5. CASE k # 0
  <2>1. k - 1 \in 0..n /\ k \in 1..n /\ k \in 1..Len(s) /\ ~(k <= k - 1)
    BY <1>2, <1>5, LenProperties
  <2>2. f[k - 1] \in Nat /\ g[k - 1] = f[k - 1]
    BY <1>1, <2>1
  <2>3. s[k] \in Part /\ t[k] = s[k]
    BY <2>1, ElementOfSeq
  <2>4. s[k].len \in Nat
    BY <2>3, LengthAssumption DEF Part
  <2> QED
    BY <1>1, <1>3, <1>5, <2>2, <2>3, <2>4
<1> QED
  BY <1>4, <1>5

(* One more part adds its length.                                            *)
LEMMA LengthAppend ==
    ASSUME NEW s \in Seq(Part), NEW p \in Part
    PROVE  /\ Parsers!Length(s) \in Nat
           /\ Parsers!Length(Append(s, p)) = Parsers!Length(s) + p.len
<1> DEFINE t == Append(s, p)
<1>1. /\ t \in Seq(Part) /\ Len(t) = Len(s) + 1 /\ t[Len(s) + 1] = p
      /\ \A i \in 1..Len(s) : t[i] = s[i]
  BY AppendProperties
<1>2. Len(s) \in Nat
  BY LenProperties
<1>3. PICK f : IsSum(s, Len(s), f) /\ Parsers!Length(s) = f[Len(s)]
  BY LengthIs
<1> HIDE DEF t
<1>4. PICK g : IsSum(t, Len(t), g) /\ Parsers!Length(t) = g[Len(t)]
  BY <1>1, LengthIs
<1>5. f[Len(s)] \in Nat /\ g[Len(s)] = f[Len(s)]
  <2>1. Len(s) + 1 \in Nat /\ Len(s) <= Len(s) + 1
    BY <1>2
  <2>2. IsSum(t, Len(s) + 1, g)
    BY <1>1, <1>4
  <2> QED
    BY <1>1, <1>2, <1>3, <2>1, <2>2, SumsAgree
<1>6. g[Len(s) + 1] = g[Len(s)] + p.len
  <2>1. Len(s) + 1 \in 0..Len(t) /\ Len(s) + 1 # 0 /\ Len(s) + 1 - 1 = Len(s)
    BY <1>1, <1>2
  <2>2. g[Len(s) + 1] = g[Len(s) + 1 - 1] + t[Len(s) + 1].len
    BY <1>4, <2>1 DEF IsSum
  <2> QED
    BY <1>1, <2>1, <2>2
<1> QED
  BY <1>1, <1>3, <1>4, <1>5, <1>6 DEF t

(* The next part fits exactly when the joined body does.                     *)
LEMMA JoinedAppend ==
    ASSUME NEW s \in Seq(Part), NEW p \in Part
    PROVE  /\ Parsers!Joined(s) \in Nat /\ Parsers!Joined(Append(s, p)) \in Nat
           /\ Parsers!Joined(Append(s, p)) >= Parsers!Joined(s)
           /\ p.len > Parsers!Capacity(s) <=> Parsers!Joined(Append(s, p)) > MaxBody
<1>1. /\ Parsers!Length(s) \in Nat /\ Parsers!Length(Append(s, p)) = Parsers!Length(s) + p.len
      /\ Append(s, p) # <<>> /\ Len(Append(s, p)) = Len(s) + 1
  BY LengthAppend, AppendProperties
<1>2. p.len \in Nat /\ MaxBody \in Nat /\ Len(s) \in Nat
  BY LengthAssumption, LenProperties DEF Part
<1>3. Parsers!Joined(Append(s, p)) = Parsers!Length(s) + p.len + Len(s)
  BY <1>1, <1>2 DEF Parsers!Joined
<1>4. CASE s = <<>>
  <2>1. Len(s) = 0
    BY <1>4
  <2>2. Parsers!Joined(s) = Parsers!Length(s) /\ Parsers!Capacity(s) = MaxBody - Parsers!Length(s)
    BY <1>1, <1>2, <1>4 DEF Parsers!Joined, Parsers!Capacity
  <2> QED
    BY <1>1, <1>2, <1>3, <2>1, <2>2
<1>5. CASE s # <<>>
  <2>1. Len(s) > 0
    BY <1>2, <1>5, EmptySeq
  <2>2. /\ Parsers!Joined(s) = Parsers!Length(s) + Len(s) - 1
        /\ Parsers!Capacity(s) = MaxBody - (Parsers!Length(s) + Len(s))
    BY <1>1, <1>2, <1>5 DEF Parsers!Joined, Parsers!Capacity
  <2> QED
    BY <1>1, <1>2, <1>3, <2>1, <2>2
<1> QED
  BY <1>4, <1>5

-----------------------------------------------------------------------------
(* BodyLimitExact speaks of the commands over these options.                 *)
Simple == {"data", "urlencode", "get", "noGet", "location", "url"}

(* r has read a command with these parts: it holds them all and they fit, or *)
(* it has met the limit and they do not.                                     *)
Fits(r, parts) ==
    /\ r \in RustStates /\ parts \in Seq(Part)
    /\ \/ /\ r.err = Parsers!NoError /\ r.parts = parts
          /\ Parsers!Joined(parts) <= MaxBody
       \/ r.err = Parsers!E_BODY_LIMIT /\ Parsers!Joined(parts) > MaxBody

(* The inductive invariant of the Rust parser and its limit.                 *)
BodyInv == (aSeen.opts \subseteq Simple => Fits(aRust, aSeen.parts)) /\ BodyLimitExact

(* No part is over no limit.                                                 *)
LEMMA BodyInitInv == Parsers!Init => BodyInv
<1> SUFFICES ASSUME Parsers!Init PROVE BodyInv
  OBVIOUS
<1>1. PICK e \in Seq(Part) : e = <<>>
  BY EmptySeq
<1>2. aRust = [method |-> "GET", parts |-> e, body |-> "none", form |-> <<>>, get |-> FALSE,
               follow |-> FALSE, urls |-> 0, valid |-> TRUE, err |-> Parsers!NoError]
  BY <1>1 DEF Parsers!Init
<1>3. aSeen.parts = e
  BY <1>1 DEF Parsers!Init
<1>4. aRust \in RustStates
  <2>1. "GET" \in Methods /\ Parsers!NoError \in Nat
    BY DEF Parsers!NoError, Methods
  <2> QED
    BY <1>2, <2>1 DEF RustStates
<1>5. Parsers!Joined(e) = 0
  <2>1. PICK f : IsSum(e, Len(e), f) /\ Parsers!Length(e) = f[Len(e)]
    BY LengthIs
  <2>2. Len(e) = 0
    BY <1>1
  <2>3. f[0] = 0
    BY <2>1, <2>2 DEF IsSum
  <2> QED
    BY <1>1, <2>1, <2>2, <2>3 DEF Parsers!Joined
<1>6. Fits(aRust, aSeen.parts)
  <2>1. aRust.err = Parsers!NoError /\ aRust.parts = e
    BY <1>2
  <2>2. Parsers!Joined(e) <= MaxBody
    BY <1>5, LengthAssumption
  <2> QED
    BY <1>3, <1>4, <2>1, <2>2 DEF Fits
<1>7. BodyLimitExact
  BY DEF Parsers!Init, BodyLimitExact, Parsers!BodyLimitExact
<1> QED
  BY <1>6, <1>7 DEF BodyInv

(* An option without a part changes neither the parts nor the error.         *)
LEMMA FitsPlain ==
    ASSUME NEW r \in RustStates, NEW a \in Parsers!Arguments,
           a.opt \in Simple \ {"data", "urlencode"}
    PROVE  /\ Parsers!RustReads(r, a) \in RustStates
           /\ Parsers!RustReads(r, a).err = r.err /\ Parsers!RustReads(r, a).parts = r.parts
<1>1. CASE r.err # Parsers!NoError
  BY <1>1 DEF Parsers!RustReads
<1>2. CASE r.err = Parsers!NoError
  <2>1. CASE a.opt = "get"
    <3>1. Parsers!RustReads(r, a) = [r EXCEPT !.get = TRUE]
      BY <1>2, <2>1 DEF Parsers!RustReads
    <3> QED
      BY <3>1 DEF RustStates
  <2>2. CASE a.opt = "noGet"
    <3>1. Parsers!RustReads(r, a) = [r EXCEPT !.get = FALSE]
      BY <1>2, <2>2 DEF Parsers!RustReads
    <3> QED
      BY <3>1 DEF RustStates
  <2>3. CASE a.opt = "location"
    <3>1. Parsers!RustReads(r, a) = [r EXCEPT !.follow = TRUE]
      BY <1>2, <2>3 DEF Parsers!RustReads
    <3> QED
      BY <3>1 DEF RustStates
  <2>4. CASE a.opt = "url"
    <3>1. Parsers!RustReads(r, a) = [r EXCEPT !.urls = @ + 1, !.valid = a.valid]
      BY <1>2, <2>4 DEF Parsers!RustReads
    <3>2. a.valid \in BOOLEAN
      BY <2>4 DEF Parsers!Arguments, Parsers!Plain, Parsers!Sized
    <3>3. r.urls + 1 \in Nat
      BY DEF RustStates
    <3> QED
      BY <3>1, <3>2, <3>3 DEF RustStates
  <2> QED
    BY <2>1, <2>2, <2>3, <2>4 DEF Simple
<1> QED
  BY <1>1, <1>2

(* A part is taken exactly when the joined body still fits, and after the    *)
(* limit is met the body stays over it.                                      *)
LEMMA FitsPart ==
    ASSUME NEW r, NEW parts, Fits(r, parts), NEW a \in Parsers!Arguments, NEW p \in Part,
           a.opt \in {"data", "urlencode"},
           p = [kind |-> IF a.opt = "urlencode" THEN "enc" ELSE a.opt, len |-> a.len]
    PROVE  Fits(Parsers!RustReads(r, a), Append(parts, p))
<1>1. r \in RustStates /\ parts \in Seq(Part)
  BY DEF Fits
<1>2. PICK t \in Seq(Part) : t = Append(parts, p)
  BY <1>1, AppendProperties
<1>3. /\ Parsers!Joined(parts) \in Nat /\ Parsers!Joined(t) \in Nat
      /\ Parsers!Joined(t) >= Parsers!Joined(parts)
      /\ p.len > Parsers!Capacity(parts) <=> Parsers!Joined(t) > MaxBody
  BY <1>1, <1>2, JoinedAppend
<1>4. CASE r.err # Parsers!NoError
  <2>1. r.err = Parsers!E_BODY_LIMIT /\ Parsers!Joined(parts) > MaxBody
    BY <1>4 DEF Fits
  <2>2. Parsers!RustReads(r, a) = r
    BY <1>4 DEF Parsers!RustReads
  <2>3. Parsers!Joined(t) > MaxBody
    BY <1>3, <2>1, LengthAssumption
  <2> QED
    BY <1>1, <1>2, <2>1, <2>2, <2>3 DEF Fits
<1>5. CASE r.err = Parsers!NoError
  <2>1. r.parts = parts
    BY <1>5 DEF Fits, Parsers!NoError, Parsers!E_BODY_LIMIT
  <2>2. Parsers!RustReads(r, a) = Parsers!RustPart(r, p.kind, p.len)
    <3>1. CASE a.opt = "data"
      BY <1>5, <3>1 DEF Parsers!RustReads
    <3>2. CASE a.opt = "urlencode"
      BY <1>5, <3>2 DEF Parsers!RustReads
    <3> QED
      BY <3>1, <3>2
  <2>3. CASE p.len > Parsers!Capacity(parts)
    <3>1. Parsers!RustReads(r, a) = [r EXCEPT !.err = Parsers!E_BODY_LIMIT]
      BY <2>1, <2>2, <2>3 DEF Parsers!RustPart
    <3>2. PICK e \in Nat : e = Parsers!E_BODY_LIMIT
      BY DEF Parsers!E_BODY_LIMIT
    <3>3. /\ Parsers!RustReads(r, a) \in RustStates
          /\ Parsers!RustReads(r, a).err = Parsers!E_BODY_LIMIT
      BY <1>1, <3>1, <3>2 DEF RustStates
    <3> QED
      BY <1>2, <1>3, <2>3, <3>3 DEF Fits
  <2>4. CASE ~(p.len > Parsers!Capacity(parts))
    <3>1. p = [kind |-> p.kind, len |-> p.len]
      BY DEF Part
    <3>2. Parsers!RustReads(r, a) = [r EXCEPT !.parts = t, !.method = "POST"]
      BY <1>2, <2>1, <2>2, <2>4, <3>1 DEF Parsers!RustPart
    <3>3. "POST" \in Methods
      BY DEF Methods
    <3>4. /\ Parsers!RustReads(r, a) \in RustStates
          /\ Parsers!RustReads(r, a).err = Parsers!NoError
          /\ Parsers!RustReads(r, a).parts = t
      BY <1>1, <1>5, <3>2, <3>3 DEF RustStates
    <3>5. Parsers!Joined(t) <= MaxBody
      BY <1>3, <2>4, LengthAssumption
    <3> QED
      BY <1>2, <3>4, <3>5 DEF Fits
  <2> QED
    BY <2>3, <2>4
<1> QED
  BY <1>4, <1>5

(* The Rust parser reads one more argument.                                  *)
LEMMA BodyReadStep ==
    ASSUME BodyInv, NEW a \in Parsers!Arguments, Parsers!ReadArgument(a)
    PROVE  BodyInv'
<1>1. /\ aRust' = Parsers!RustReads(aRust, a) /\ aSeen' = Parsers!Saw(a)
      /\ aRustPlan' = Parsers!NoPlan
  BY DEF Parsers!ReadArgument
<1>2. aSeen'.opts = aSeen.opts \cup {a.opt}
  BY <1>1 DEF Parsers!Saw
<1>3. ASSUME aSeen'.opts \subseteq Simple PROVE Fits(aRust', aSeen'.parts)
  <2>1. a.opt \in Simple /\ Fits(aRust, aSeen.parts)
    BY <1>2, <1>3 DEF BodyInv
  <2>2. CASE a.opt \in {"data", "urlencode"}
    <3>1. PICK p : p = [kind |-> IF a.opt = "urlencode" THEN "enc" ELSE a.opt, len |-> a.len]
      OBVIOUS
    <3>2. p \in Part
      <4>1. a.len \in Lengths
        BY <2>2 DEF Parsers!Arguments, Parsers!Plain, Parsers!Sized
      <4>2. CASE a.opt = "data"
        BY <3>1, <4>1, <4>2 DEF Part
      <4>3. CASE a.opt = "urlencode"
        BY <3>1, <4>1, <4>3 DEF Part
      <4> QED
        BY <2>2, <4>2, <4>3
    <3>3. aSeen'.parts = Append(aSeen.parts, p)
      BY <1>1, <2>2, <3>1 DEF Parsers!Saw, Parsers!BodyOptions
    <3>4. Fits(Parsers!RustReads(aRust, a), Append(aSeen.parts, p))
      BY <2>1, <2>2, <3>1, <3>2, FitsPart
    <3> QED
      BY <1>1, <3>3, <3>4
  <2>3. CASE a.opt \notin {"data", "urlencode"}
    <3>1. aSeen'.parts = aSeen.parts
      BY <1>1, <2>1, <2>3 DEF Parsers!Saw, Parsers!BodyOptions, Simple
    <3>2. aRust \in RustStates /\ a.opt \in Simple \ {"data", "urlencode"}
      BY <2>1, <2>3 DEF Fits
    <3>3. /\ Parsers!RustReads(aRust, a) \in RustStates
          /\ Parsers!RustReads(aRust, a).err = aRust.err
          /\ Parsers!RustReads(aRust, a).parts = aRust.parts
      BY <3>2, FitsPlain
    <3> QED
      BY <1>1, <2>1, <3>1, <3>3 DEF Fits
  <2> QED
    BY <2>2, <2>3
<1>4. BodyLimitExact'
  BY <1>1 DEF BodyLimitExact, Parsers!BodyLimitExact
<1> QED
  BY <1>3, <1>4 DEF BodyInv

(* The end of the arguments: a body that fits meets no other refusal.        *)
LEMMA BodyEndStep ==
    ASSUME BodyInv, Parsers!EndOfArguments
    PROVE  BodyInv'
<1>1. aRustPlan' = Parsers!RustFinish /\ aRust' = aRust /\ aSeen' = aSeen
  BY DEF Parsers!EndOfArguments
<1>2. ASSUME aSeen.opts \subseteq Simple, aRust.urls = 1, aRust.valid
      PROVE  (Parsers!RustFinish.err = Parsers!E_BODY_LIMIT)
                = (Parsers!Joined(aSeen.parts) > MaxBody)
  <2>1. Fits(aRust, aSeen.parts)
    BY <1>2 DEF BodyInv
  <2>2. aRust.body = "none"
    BY <2>1 DEF Fits, RustStates
  <2>3. Parsers!Joined(aSeen.parts) \in Int /\ MaxBody \in Int
    <3>1. aSeen.parts \in Seq(Part)
      BY <2>1 DEF Fits
    <3>2. PICK f : IsSum(aSeen.parts, Len(aSeen.parts), f)
                    /\ Parsers!Length(aSeen.parts) = f[Len(aSeen.parts)]
      BY <3>1, LengthIs
    <3>3. Len(aSeen.parts) \in Nat
      BY <3>1, LenProperties
    <3>4. f[Len(aSeen.parts)] \in Nat
      BY <3>1, <3>2, <3>3, SumsAgree
    <3> QED
      BY <3>2, <3>3, <3>4, LengthAssumption DEF Parsers!Joined
  <2>4. CASE aRust.err = Parsers!NoError
    <3>1. Parsers!RustFinish.err = Parsers!NoError
      BY <1>2, <2>2, <2>4 DEF Parsers!RustFinish
    <3>2. Parsers!Joined(aSeen.parts) <= MaxBody
      BY <2>1, <2>4 DEF Fits, Parsers!NoError, Parsers!E_BODY_LIMIT
    <3> QED
      BY <2>3, <3>1, <3>2 DEF Parsers!NoError, Parsers!E_BODY_LIMIT
  <2>5. CASE aRust.err = Parsers!E_BODY_LIMIT
    <3>1. Parsers!RustFinish.err = Parsers!E_BODY_LIMIT
      BY <2>5 DEF Parsers!RustFinish, Parsers!Refused, Parsers!NoError, Parsers!E_BODY_LIMIT
    <3>2. Parsers!Joined(aSeen.parts) > MaxBody
      BY <2>1, <2>5 DEF Fits, Parsers!NoError, Parsers!E_BODY_LIMIT
    <3> QED
      BY <3>1, <3>2
  <2> QED
    BY <2>1, <2>4, <2>5 DEF Fits
<1>3. BodyLimitExact'
  BY <1>1, <1>2 DEF BodyLimitExact, Parsers!BodyLimitExact, Simple
<1> QED
  BY <1>1, <1>3 DEF BodyInv

(* Every step keeps BodyInv.                                                 *)
LEMMA BodyNextInv == BodyInv /\ [Parsers!Next]_Parsers!vars => BodyInv'
<1>1. BodyInv /\ UNCHANGED Parsers!vars => BodyInv'
  BY DEF Parsers!vars, BodyInv, BodyLimitExact, Parsers!BodyLimitExact
<1> QED
  BY <1>1, BodyReadStep, BodyEndStep DEF Parsers!Next, Parsers!Done

(* For parts of any number and any lengths and any limit: checking each part *)
(* as it is read, against what the joined body leaves, refuses a command     *)
(* exactly when its whole joined body is over the limit                      *)
(* (body_part_capacity and body_parts_len of mdok-curl).                     *)
THEOREM BodyLimitCorrect == Parsers!Spec => []BodyLimitExact
<1>1. BodyInv => BodyLimitExact
  BY DEF BodyInv
<1> QED  BY BodyInitInv, BodyNextInv, <1>1, PTL DEF Parsers!Spec

-----------------------------------------------------------------------------
(* A view: attached are only steps that are there.                           *)
Attached == [role : {"check", "capture"}, name : Names, at : Nat]
Views == [steps : Seq(Names), attached : SUBSET Attached, err : BOOLEAN]
IsView(v) ==
    /\ v \in Views
    /\ \A x \in v.attached : x.name \in Planner!Range(v.steps)

(* Two views are the same unless one of them has refused the document.       *)
Agree(v, w) == ~v.err /\ ~w.err => v.steps = w.steps /\ v.attached = w.attached

(* A fence of three backticks.                                               *)
IsFence(f) ==
    \/ f = Planner!NoFence
    \/ f.mark = "tick" /\ f.info \in Planner!Infos /\ f.at \in Nat

(* The inductive invariant of the two readers: on a plain document they are  *)
(* in the same fence and have the same view.                                 *)
ViewsInv ==
    pPlain =>
      /\ IsFence(pFence["core"]) /\ pFence["adapter"] = pFence["core"]
      /\ IsView(pView["adapter"]) /\ IsView(pView["core"])
      /\ Agree(pView["adapter"], pView["core"])
PlannerInv ==
    /\ pPlain \in BOOLEAN /\ pLine \in Nat /\ (pPc # "planned" => pPlan = Planner!NoPlan)
    /\ ViewsInv /\ ReadersAgreeOnPlain

(* Nothing is read yet.                                                      *)
LEMMA PlannerInitInv == Planner!Init => PlannerInv
<1> SUFFICES ASSUME Planner!Init PROVE PlannerInv
  OBVIOUS
<1>1. PICK e \in Seq(Names) : e = <<>>
  BY EmptySeq
<1>2. \A r \in Planner!Readers : pFence[r] = Planner!NoFence /\ pView[r] = Planner!NoView
  BY DEF Planner!Init
<1>3. IsView(Planner!NoView) /\ IsFence(Planner!NoFence) /\ Agree(Planner!NoView, Planner!NoView)
  BY <1>1 DEF Planner!NoView, IsView, Views, IsFence, Agree
<1>4. ViewsInv
  <2>1. /\ pFence["adapter"] = Planner!NoFence /\ pFence["core"] = Planner!NoFence
        /\ pView["adapter"] = Planner!NoView /\ pView["core"] = Planner!NoView
    BY <1>2 DEF Planner!Readers
  <2> QED
    BY <1>3, <2>1 DEF ViewsInv
<1>5. pPlan = Planner!NoPlan /\ pPlain = TRUE /\ ~pPlan.ok /\ pLine = 0
  BY DEF Planner!Init, Planner!NoPlan
<1> QED
  BY <1>4, <1>5 DEF PlannerInv, ReadersAgreeOnPlain, Planner!ReadersAgreeOnPlain

(* What a reader makes of a fence: a view again, and one that has refused    *)
(* stays so.                                                                 *)
LEMMA RefuseIs ==
    ASSUME NEW v, IsView(v)
    PROVE  IsView(Planner!Refuse(v)) /\ Planner!Refuse(v).err
<1>1. v \in Views /\ \A x \in v.attached : x.name \in Planner!Range(v.steps)
  BY DEF IsView
<1>2. PICK w : w = Planner!Refuse(v)
  OBVIOUS
<1>3. w \in Views /\ w.steps = v.steps /\ w.attached = v.attached /\ w.err
  BY <1>1, <1>2 DEF Planner!Refuse, Views
<1> QED
  BY <1>1, <1>2, <1>3 DEF IsView

(* A step is appended.                                                       *)
LEMMA AddStepIs ==
    ASSUME NEW v, IsView(v), NEW n \in Names, NEW usable \in BOOLEAN
    PROVE  LET w == Planner!AddStep(v, n, usable) IN
           /\ IsView(w) /\ (v.err => w.err)
           /\ ~w.err => /\ w.steps = Append(v.steps, n) /\ w.attached = v.attached
                        /\ ~(Len(v.steps) >= MaxSteps \/ n \in Planner!Range(v.steps))
<1>1. CASE Len(v.steps) >= MaxSteps \/ n \in Planner!Range(v.steps) \/ ~usable
  <2>1. Planner!AddStep(v, n, usable) = Planner!Refuse(v)
    BY <1>1 DEF Planner!AddStep
  <2> QED
    BY <2>1, RefuseIs
<1>2. CASE ~(Len(v.steps) >= MaxSteps \/ n \in Planner!Range(v.steps) \/ ~usable)
  <2>1. PICK t : t = Append(v.steps, n)
    OBVIOUS
  <2>2. t \in Seq(Names) /\ Planner!Range(v.steps) \subseteq Planner!Range(t)
    <3>1. /\ t \in Seq(Names) /\ Len(t) = Len(v.steps) + 1
          /\ \A i \in 1..Len(v.steps) : t[i] = v.steps[i]
      BY <2>1, AppendProperties DEF IsView, Views
    <3>2. /\ DOMAIN v.steps = 1..Len(v.steps) /\ DOMAIN t = 1..Len(t) /\ Len(v.steps) \in Nat
      BY <3>1, LenProperties DEF IsView, Views
    <3> QED
      BY <3>1, <3>2 DEF Planner!Range
  <2>3. Planner!AddStep(v, n, usable) = [steps |-> t, attached |-> v.attached, err |-> v.err]
    BY <1>2, <2>1 DEF Planner!AddStep, IsView, Views
  <2>4. IsView([steps |-> t, attached |-> v.attached, err |-> v.err])
    BY <2>2 DEF IsView, Views
  <2> QED
    BY <1>2, <2>1, <2>3, <2>4
<1> QED
  BY <1>1, <1>2

(* A check or a capture is attached.                                         *)
LEMMA AttachIs ==
    ASSUME NEW v, IsView(v), NEW info, NEW at \in Nat,
           info.role \in {"check", "capture"}, info.name \in Names
    PROVE  LET w == Planner!Attach(v, info, at) IN
           /\ IsView(w) /\ (v.err => w.err)
           /\ ~w.err =>
                /\ w.steps = v.steps /\ info.name \in Planner!Range(v.steps)
                /\ w.attached = v.attached
                     \cup {[role |-> info.role, name |-> info.name, at |-> at]}
<1>1. CASE info.name \notin Planner!Range(v.steps)
  <2>1. Planner!Attach(v, info, at) = Planner!Refuse(v)
    BY <1>1 DEF Planner!Attach
  <2> QED
    BY <2>1, RefuseIs
<1>2. CASE info.name \in Planner!Range(v.steps)
  <2>1. PICK t : t = v.attached \cup {[role |-> info.role, name |-> info.name, at |-> at]}
    OBVIOUS
  <2>4. t \in SUBSET Attached
    BY <2>1 DEF Attached, IsView, Views
  <2>2. Planner!Attach(v, info, at) = [steps |-> v.steps, attached |-> t, err |-> v.err]
    BY <1>2, <2>1 DEF Planner!Attach, IsView, Views
  <2>3. IsView([steps |-> v.steps, attached |-> t, err |-> v.err])
    BY <1>2, <2>1, <2>4 DEF IsView, Views
  <2> QED
    BY <1>2, <2>1, <2>2, <2>3
<1> QED
  BY <1>1, <1>2

(* Both readers collect the same fence.                                      *)
LEMMA CollectedIs ==
    ASSUME IsView(pView["adapter"]), IsView(pView["core"]),
           Agree(pView["adapter"], pView["core"]),
           NEW f, f.info \in Planner!Infos, f.at \in Nat, NEW valid \in BOOLEAN
    PROVE  /\ IsView(Planner!Collected("adapter", f, valid))
           /\ IsView(Planner!Collected("core", f, valid))
           /\ Agree(Planner!Collected("adapter", f, valid), Planner!Collected("core", f, valid))
<1> DEFINE a == pView["adapter"]
           c == pView["core"]
           role == f.info.role
<1>1. /\ role \in {"step", "check", "capture", "bad", "lax", "plain", "bare"}
      /\ role \in {"step", "check", "capture"} => f.info.name \in Names
  BY DEF Planner!Infos, Planner!Executable, Planner!Other, Planner!NoInfo, Planner!Roles
<1>2. CASE role = "step"
  <2>1. /\ Planner!Collected("adapter", f, valid) = Planner!AddStep(a, f.info.name, valid)
        /\ Planner!Collected("core", f, valid) = Planner!AddStep(c, f.info.name, TRUE)
    BY <1>2 DEF Planner!Collected
  <2>2. f.info.name \in Names
    BY <1>1, <1>2
  <2> HIDE DEF a, c, role
  <2>3. /\ IsView(Planner!AddStep(a, f.info.name, valid))
        /\ a.err => Planner!AddStep(a, f.info.name, valid).err
        /\ ~Planner!AddStep(a, f.info.name, valid).err =>
             /\ Planner!AddStep(a, f.info.name, valid).steps = Append(a.steps, f.info.name)
             /\ Planner!AddStep(a, f.info.name, valid).attached = a.attached
    BY <2>2, AddStepIs DEF a
  <2>4. /\ IsView(Planner!AddStep(c, f.info.name, TRUE))
        /\ c.err => Planner!AddStep(c, f.info.name, TRUE).err
        /\ ~Planner!AddStep(c, f.info.name, TRUE).err =>
             /\ Planner!AddStep(c, f.info.name, TRUE).steps = Append(c.steps, f.info.name)
             /\ Planner!AddStep(c, f.info.name, TRUE).attached = c.attached
    BY <2>2, AddStepIs DEF c
  <2> QED
    BY <2>1, <2>3, <2>4 DEF Agree, a, c
<1>3. CASE role \in {"check", "capture"}
  <2>1. /\ Planner!Collected("adapter", f, valid) = Planner!Attach(a, f.info, f.at)
        /\ Planner!Collected("core", f, valid) = Planner!Attach(c, f.info, f.at)
    BY <1>3 DEF Planner!Collected
  <2>5. f.info.name \in Names /\ f.info.role \in {"check", "capture"}
    BY <1>1, <1>3
  <2> HIDE DEF a, c, role
  <2>2. PICK x : x = [role |-> f.info.role, name |-> f.info.name, at |-> f.at]
    OBVIOUS
  <2>3. /\ IsView(Planner!Attach(a, f.info, f.at))
        /\ a.err => Planner!Attach(a, f.info, f.at).err
        /\ ~Planner!Attach(a, f.info, f.at).err =>
             /\ Planner!Attach(a, f.info, f.at).steps = a.steps
             /\ Planner!Attach(a, f.info, f.at).attached = a.attached \cup {x}
    BY <2>2, <2>5, AttachIs DEF a
  <2>4. /\ IsView(Planner!Attach(c, f.info, f.at))
        /\ c.err => Planner!Attach(c, f.info, f.at).err
        /\ ~Planner!Attach(c, f.info, f.at).err =>
             /\ Planner!Attach(c, f.info, f.at).steps = c.steps
             /\ Planner!Attach(c, f.info, f.at).attached = c.attached \cup {x}
    BY <2>2, <2>5, AttachIs DEF c
  <2> QED
    BY <2>1, <2>3, <2>4 DEF Agree, a, c
<1>4. CASE role = "bad"
  <2>1. /\ Planner!Collected("adapter", f, valid) = Planner!Refuse(a)
        /\ Planner!Collected("core", f, valid) = Planner!Refuse(c)
    BY <1>4 DEF Planner!Collected
  <2> QED
    BY <2>1, RefuseIs DEF Agree
<1>5. CASE role = "lax"
  <2>1. /\ Planner!Collected("adapter", f, valid) = a
        /\ Planner!Collected("core", f, valid) = Planner!Refuse(c)
    BY <1>5 DEF Planner!Collected
  <2> QED
    BY <2>1, RefuseIs DEF Agree
<1>6. CASE role \in {"plain", "bare"}
  <2>1. /\ Planner!Collected("adapter", f, valid) = a
        /\ Planner!Collected("core", f, valid) = c
    BY <1>6 DEF Planner!Collected
  <2> QED
    BY <2>1
<1> QED
  BY <1>1, <1>2, <1>3, <1>4, <1>5, <1>6

(* The readers take the same line of a plain document.                       *)
LEMMA ReadLineStep ==
    ASSUME PlannerInv, NEW mark \in Planner!Marks, NEW info \in Planner!Infos,
           NEW by \in Planner!Markers, NEW valid \in BOOLEAN,
           Planner!ReadLine(mark, info, by, valid)
    PROVE  PlannerInv'
<1>1. /\ pPc = "read" /\ pPc' = pPc /\ pPlan' = pPlan
      /\ pPlain' = (pPlain /\ mark = "tick" /\ by = Planner!Readers
                      /\ (info = Planner!NoInfo => pFence["core"] # Planner!NoFence))
      /\ pFence' = [r \in Planner!Readers |-> Planner!FenceAfter(r, mark, info, by)]
      /\ pView' = [r \in Planner!Readers |->
                     IF Planner!Ends(r, mark, info) THEN Planner!Collected(r, pFence[r], valid)
                     ELSE pView[r]]
  BY DEF Planner!ReadLine
<1>2. pPlan = Planner!NoPlan /\ ~pPlan.ok
  BY <1>1 DEF PlannerInv, Planner!NoPlan
<1>3. pPlain' \in BOOLEAN /\ pLine' \in Nat
  BY <1>1 DEF PlannerInv, Planner!ReadLine
<1>4. ASSUME pPlain' PROVE ViewsInv'
  <2> DEFINE f == pFence["core"]
  <2>1. pPlain /\ mark = "tick" /\ by = Planner!Readers /\ (info = Planner!NoInfo => f # Planner!NoFence)
    BY <1>1, <1>4 DEF PlannerInv
  <2>2. /\ IsFence(f) /\ pFence["adapter"] = f /\ pFence["core"] = f
        /\ IsView(pView["adapter"]) /\ IsView(pView["core"])
        /\ Agree(pView["adapter"], pView["core"])
    BY <2>1 DEF PlannerInv, ViewsInv
  <2>3. /\ pFence'["adapter"] = Planner!FenceAfter("adapter", mark, info, by)
        /\ pFence'["core"] = Planner!FenceAfter("core", mark, info, by)
        /\ pView'["adapter"] = IF Planner!Ends("adapter", mark, info)
              THEN Planner!Collected("adapter", f, valid) ELSE pView["adapter"]
        /\ pView'["core"] = IF Planner!Ends("core", mark, info)
              THEN Planner!Collected("core", f, valid) ELSE pView["core"]
    BY <1>1, <2>2 DEF Planner!Readers
  <2> HIDE DEF f
  <2>4. CASE f = Planner!NoFence
    <3>1. ~Planner!Ends("adapter", mark, info) /\ ~Planner!Ends("core", mark, info)
      BY <2>2, <2>4 DEF Planner!Ends
    <3>2. Planner!Opens("adapter", mark, info) /\ Planner!Opens("core", mark, info)
      BY <2>1, <2>4 DEF Planner!Opens
    <3>3. PICK g : g = [role |-> "open", mark |-> mark, info |-> info, at |-> pLine + 1]
      OBVIOUS
    <3>4. /\ Planner!Fence("adapter", mark, info, by) = g
          /\ Planner!Fence("core", mark, info, by) = g
      <4>1. "adapter" \in by /\ "core" \in by
        BY <2>1 DEF Planner!Readers
      <4>2. /\ Planner!InfoRead("adapter", mark, info, by) = info
            /\ Planner!InfoRead("core", mark, info, by) = info
        BY <2>1, <4>1 DEF Planner!InfoRead
      <4> QED
        BY <3>3, <4>2 DEF Planner!Fence
    <3>5. pFence'["adapter"] = g /\ pFence'["core"] = g
      BY <2>2, <2>3, <2>4, <3>2, <3>4 DEF Planner!FenceAfter
    <3>6. IsFence(g)
      BY <2>1, <3>3 DEF IsFence, PlannerInv
    <3>7. pView'["adapter"] = pView["adapter"] /\ pView'["core"] = pView["core"]
      BY <2>3, <3>1
    <3> QED
      BY <2>2, <3>5, <3>6, <3>7 DEF ViewsInv
  <2>5. CASE f # Planner!NoFence
    <3>1. f.mark = "tick" /\ f.info \in Planner!Infos /\ f.at \in Nat
      BY <2>2, <2>5 DEF IsFence
    <3>2. /\ Planner!Closes("adapter", mark, info) <=> info = Planner!NoInfo
          /\ Planner!Closes("core", mark, info) <=> info = Planner!NoInfo
      BY <2>1, <2>2, <3>1 DEF Planner!Closes
    <3>3. CASE info = Planner!NoInfo
      <4>1. /\ Planner!Ends("adapter", mark, info) /\ Planner!Ends("core", mark, info)
            /\ Planner!FenceAfter("adapter", mark, info, by) = Planner!NoFence
            /\ Planner!FenceAfter("core", mark, info, by) = Planner!NoFence
        BY <2>2, <2>5, <3>2, <3>3 DEF Planner!Ends, Planner!FenceAfter
      <4>2. /\ IsView(Planner!Collected("adapter", f, valid))
            /\ IsView(Planner!Collected("core", f, valid))
            /\ Agree(Planner!Collected("adapter", f, valid), Planner!Collected("core", f, valid))
        BY <2>2, <3>1, CollectedIs
      <4>3. IsFence(Planner!NoFence)
        BY DEF IsFence
      <4> QED
        BY <2>3, <4>1, <4>2, <4>3 DEF ViewsInv
    <3>4. CASE info # Planner!NoInfo
      <4>1. /\ ~Planner!Ends("adapter", mark, info) /\ ~Planner!Ends("core", mark, info)
            /\ Planner!FenceAfter("adapter", mark, info, by) = f
            /\ Planner!FenceAfter("core", mark, info, by) = f
        BY <2>2, <2>5, <3>2, <3>4 DEF Planner!Ends, Planner!FenceAfter
      <4> QED
        BY <2>2, <2>3, <4>1 DEF ViewsInv
    <3> QED
      BY <3>3, <3>4
  <2> QED
    BY <2>4, <2>5
<1>5. ReadersAgreeOnPlain'
  BY <1>1, <1>2 DEF ReadersAgreeOnPlain, Planner!ReadersAgreeOnPlain
<1>6. ViewsInv'
  BY <1>4 DEF ViewsInv
<1> QED
  BY <1>1, <1>2, <1>3, <1>5, <1>6 DEF PlannerInv

(* The end of the document closes the same fence for both.                   *)
LEMMA EndOfDocumentStep ==
    ASSUME PlannerInv, NEW valid \in BOOLEAN, Planner!EndOfDocument(valid)
    PROVE  PlannerInv'
<1>1. /\ pPc = "read" /\ pPc' = "merge" /\ pPlan' = pPlan /\ pPlain' = pPlain /\ pLine' = pLine
      /\ pFence' = [r \in Planner!Readers |-> Planner!NoFence]
      /\ pView' = [r \in Planner!Readers |->
                     IF pFence[r] # Planner!NoFence THEN Planner!Collected(r, pFence[r], valid)
                     ELSE pView[r]]
  BY DEF Planner!EndOfDocument
<1>2. pPlan = Planner!NoPlan /\ ~pPlan.ok
  BY <1>1 DEF PlannerInv, Planner!NoPlan
<1>3. ASSUME pPlain PROVE ViewsInv'
  <2> DEFINE f == pFence["core"]
  <2>1. /\ IsFence(f) /\ pFence["adapter"] = f /\ pFence["core"] = f
        /\ IsView(pView["adapter"]) /\ IsView(pView["core"])
        /\ Agree(pView["adapter"], pView["core"])
    BY <1>3 DEF PlannerInv, ViewsInv
  <2>2. /\ pFence'["adapter"] = Planner!NoFence /\ pFence'["core"] = Planner!NoFence
        /\ pView'["adapter"] = IF f # Planner!NoFence
              THEN Planner!Collected("adapter", f, valid) ELSE pView["adapter"]
        /\ pView'["core"] = IF f # Planner!NoFence
              THEN Planner!Collected("core", f, valid) ELSE pView["core"]
    BY <1>1, <2>1 DEF Planner!Readers
  <2> HIDE DEF f
  <2>5. IsFence(Planner!NoFence)
    BY DEF IsFence
  <2>3. CASE f # Planner!NoFence
    <3>1. f.info \in Planner!Infos /\ f.at \in Nat
      BY <2>1, <2>3 DEF IsFence
    <3>2. /\ IsView(Planner!Collected("adapter", f, valid))
          /\ IsView(Planner!Collected("core", f, valid))
          /\ Agree(Planner!Collected("adapter", f, valid), Planner!Collected("core", f, valid))
      BY <2>1, <3>1, CollectedIs
    <3> QED
      BY <2>2, <2>3, <2>5, <3>2 DEF ViewsInv
  <2>4. CASE f = Planner!NoFence
    BY <2>1, <2>2, <2>4, <2>5 DEF ViewsInv
  <2> QED
    BY <2>3, <2>4
<1>4. ReadersAgreeOnPlain'
  BY <1>1, <1>2 DEF ReadersAgreeOnPlain, Planner!ReadersAgreeOnPlain
<1>5. ViewsInv'
  BY <1>1, <1>3 DEF ViewsInv
<1> QED
  BY <1>1, <1>2, <1>4, <1>5 DEF PlannerInv

-----------------------------------------------------------------------------
(* f keeps, of the first n elements of s, those in known.                    *)
IsKept(s, known, n, f) ==
    f = [i \in 0..n |-> IF i = 0 THEN <<>>
                        ELSE f[i - 1] \o (IF s[i] \in known THEN <<s[i]>> ELSE <<>>)]

(* There is such a selection.                                                *)
LEMMA KeptExists ==
    ASSUME NEW s, NEW known, NEW n \in Nat
    PROVE  \E f : IsKept(s, known, n, f)
<1> DEFINE T == {m \in Nat : ~\E f : IsKept(s, known, m, f)}
<1> SUFFICES ASSUME T # {} PROVE FALSE
  OBVIOUS
<1>1. PICK m \in T : \A y \in T : m <= y
  <2>1. T \subseteq Nat
    OBVIOUS
  <2> HIDE DEF T
  <2> QED
    BY <2>1, LeastOf
<1>2. CASE m = 0
  <2> DEFINE f == [i \in 0..0 |-> <<>>]
  <2>1. IsKept(s, known, 0, f)
    BY DEF IsKept
  <2> QED
    BY <1>1, <1>2, <2>1
<1>3. CASE m # 0
  <2>1. m - 1 \in Nat /\ m - 1 \notin T
    BY <1>1, <1>3
  <2>2. PICK g : IsKept(s, known, m - 1, g)
    BY <2>1
  <2> DEFINE one(i) == IF s[i] \in known THEN <<s[i]>> ELSE <<>>
             f == [i \in 0..m |-> IF i = m THEN g[m - 1] \o one(m) ELSE g[i]]
  <2>3. \A i \in 0..(m - 1) : g[i] = IF i = 0 THEN <<>> ELSE g[i - 1] \o one(i)
    BY <2>2 DEF IsKept
  <2>4. ASSUME NEW i \in 0..m PROVE f[i] = IF i = 0 THEN <<>> ELSE f[i - 1] \o one(i)
    <3> HIDE DEF one
    <3> QED
      BY <1>3, <2>3
  <2>5. IsKept(s, known, m, f)
    BY <2>4 DEF IsKept
  <2> QED
    BY <1>1, <2>5
<1> QED
  BY <1>2, <1>3

(* Where every element is known, all are kept, in their order.               *)
LEMMA KeptAll ==
    ASSUME NEW S, NEW s \in Seq(S), NEW known, \A i \in 1..Len(s) : s[i] \in known,
           NEW f, IsKept(s, known, Len(s), f)
    PROVE  f[Len(s)] = s
<1> DEFINE Good(k) == /\ f[k] \in Seq(S) /\ Len(f[k]) = k
                      /\ \A j \in 1..k : f[k][j] = s[j]
           T == {k \in 0..Len(s) : ~Good(k)}
<1>1. Len(s) \in Nat
  BY LenProperties
<1>2. ASSUME T # {} PROVE FALSE
  <2>1. PICK k \in T : \A y \in T : k <= y
    <3>1. T \subseteq Nat
      BY <1>1
    <3> HIDE DEF T
    <3> QED
      BY <1>2, <3>1, LeastOf
  <2>2. k \in 0..Len(s) /\ k \in Nat
    BY <1>1, <2>1
  <2>3. CASE k = 0
    <3>1. f[0] = <<>>
      BY <1>1 DEF IsKept
    <3>2. <<>> \in Seq(S) /\ Len(<<>>) = 0
      BY EmptySeq
    <3>3. Good(0)
      BY <3>1, <3>2
    <3> QED
      BY <2>1, <2>3, <3>3
  <2>4. CASE k # 0
    <3>1. k - 1 \in 0..Len(s) /\ ~(k <= k - 1) /\ k \in 1..Len(s)
      BY <1>1, <2>2, <2>4
    <3>2. Good(k - 1)
      BY <2>1, <3>1
    <3>3. PICK g : g = f[k - 1]
      OBVIOUS
    <3>4. g \in Seq(S) /\ Len(g) = k - 1 /\ \A j \in 1..(k - 1) : g[j] = s[j]
      BY <3>2, <3>3
    <3>5. PICK x \in S : x = s[k]
      BY <3>1, ElementOfSeq
    <3>6. f[k] = g \o <<x>>
      BY <2>2, <2>4, <3>1, <3>3, <3>5 DEF IsKept
    <3>7. g \o <<x>> = Append(g, x)
      BY <3>4, AppendIsConcat
    <3>8. /\ Append(g, x) \in Seq(S) /\ Len(Append(g, x)) = Len(g) + 1
          /\ \A j \in 1..Len(g) : Append(g, x)[j] = g[j]
          /\ Append(g, x)[Len(g) + 1] = x
      BY <3>4, AppendProperties
    <3>9. Good(k)
      <4>1. f[k] = Append(g, x) /\ Len(g) + 1 = k
        BY <2>2, <3>4, <3>6, <3>7
      <4>2. ASSUME NEW j \in 1..k PROVE f[k][j] = s[j]
        BY <2>2, <3>4, <3>5, <3>8, <4>1
      <4> QED
        BY <3>8, <4>1, <4>2
    <3> QED
      BY <2>1, <3>9
  <2> QED
    BY <2>3, <2>4
<1>3. Good(Len(s))
  <2>1. Len(s) \in 0..Len(s) /\ Len(s) \notin T
    BY <1>1, <1>2
  <2> QED
    BY <2>1
<1> QED
  BY <1>3, SeqEqual

(* Merging two equal lists of steps keeps all of them.                       *)
LEMMA KeptIs ==
    ASSUME pView["core"].steps \in Seq(Names), pView["adapter"].steps = pView["core"].steps
    PROVE  Planner!Kept = pView["core"].steps
<1>1. PICK s \in Seq(Names) : s = pView["core"].steps
  OBVIOUS
<1> DEFINE h == CHOOSE f : IsKept(s, Planner!Range(s), Len(s), f)
<1>2. Len(s) \in Nat /\ DOMAIN s = 1..Len(s)
  BY LenProperties
<1>3. Planner!Kept = h[Len(s)]
  BY <1>1 DEF Planner!Kept, Planner!Core, Planner!Adapter, IsKept
<1>4. IsKept(s, Planner!Range(s), Len(s), h)
  BY <1>2, KeptExists
<1>5. \A i \in 1..Len(s) : s[i] \in Planner!Range(s)
  BY <1>2 DEF Planner!Range
<1> HIDE DEF h
<1> QED
  BY <1>1, <1>3, <1>4, <1>5, KeptAll

(* The plan of a plain document is the core's view.                          *)
LEMMA PlanStep ==
    ASSUME PlannerInv, Planner!Plan
    PROVE  PlannerInv'
<1>1. /\ pPc' = "planned" /\ pFence' = pFence /\ pView' = pView /\ pPlain' = pPlain
      /\ pLine' = pLine
      /\ pPlan' \in IF Planner!Accepted THEN {Planner!Merged, Planner!NoPlan} ELSE {Planner!NoPlan}
  BY DEF Planner!Plan
<1>2. ASSUME pPlain, Planner!Accepted
      PROVE  /\ Planner!Merged.steps = pView["core"].steps
             /\ Planner!Merged.attached = pView["core"].attached
  <2>1. /\ IsView(pView["adapter"]) /\ IsView(pView["core"])
        /\ pView["adapter"].steps = pView["core"].steps
        /\ pView["adapter"].attached = pView["core"].attached
    BY <1>2 DEF PlannerInv, ViewsInv, Agree, Planner!Accepted, Planner!Adapter, Planner!Core
  <2>2. PICK s : s = pView["core"].steps
    OBVIOUS
  <2>3. Planner!Kept = s
    BY <2>1, <2>2, KeptIs DEF IsView, Views
  <2>4. Planner!Merged =
          [steps |-> s, attached |-> {x \in pView["core"].attached : x.name \in Planner!Range(s)}, ok |-> TRUE]
    BY <2>1, <2>2, <2>3 DEF Planner!Merged, Planner!Adapter, Planner!Core
  <2>5. {x \in pView["core"].attached : x.name \in Planner!Range(s)} = pView["core"].attached
    BY <2>1, <2>2 DEF IsView
  <2> QED
    BY <2>2, <2>4, <2>5
<1>3. ReadersAgreeOnPlain'
  <2>1. ASSUME pPlain, pPlan'.ok
        PROVE  pPlan'.steps = pView["core"].steps /\ pPlan'.attached = pView["core"].attached
    <3>1. Planner!Accepted /\ pPlan' = Planner!Merged
      BY <1>1, <2>1 DEF Planner!NoPlan
    <3> QED
      BY <1>2, <2>1, <3>1
  <2> QED
    BY <1>1, <2>1 DEF ReadersAgreeOnPlain, Planner!ReadersAgreeOnPlain, Planner!Core
<1>4. ViewsInv' /\ pPlain' \in BOOLEAN
  BY <1>1 DEF PlannerInv, ViewsInv
<1> QED
  BY <1>1, <1>3, <1>4 DEF PlannerInv

(* Every step keeps PlannerInv.                                              *)
LEMMA PlannerNextInv == PlannerInv /\ [Planner!Next]_Planner!vars => PlannerInv'
<1>1. PlannerInv /\ UNCHANGED Planner!vars => PlannerInv'
  BY DEF Planner!vars, PlannerInv, ViewsInv, ReadersAgreeOnPlain, Planner!ReadersAgreeOnPlain,
         Planner!Core
<1> QED
  BY <1>1, ReadLineStep, EndOfDocumentStep, PlanStep DEF Planner!Next, Planner!Planned

(* For documents of any length, any names and any number of steps: where all *)
(* fences have three unindented backticks and an info string, parse_fences   *)
(* and the Markdown tree agree, and the merge of build_plan is the tree's    *)
(* view with all of its checks and captures.                                 *)
THEOREM ReadersCorrect == Planner!Spec => []ReadersAgreeOnPlain
<1>1. PlannerInv => ReadersAgreeOnPlain
  BY DEF PlannerInv
<1> QED  BY PlannerInitInv, PlannerNextInv, <1>1, PTL DEF Planner!Spec

-----------------------------------------------------------------------------
(* The first n names of a path.                                              *)
Cut(s, n) == SubSeq(s, 1, n)

(* What a beginning of a path holds.                                         *)
LEMMA CutIs ==
    ASSUME NEW S, NEW s \in Seq(S), NEW n \in 0..Len(s)
    PROVE  Cut(s, n) \in Seq(S) /\ Len(Cut(s, n)) = n /\ \A i \in 1..n : Cut(s, n)[i] = s[i]
<1>1. Len(s) \in Nat /\ \A i \in 1..Len(s) : s[i] \in S
  BY LenProperties
<1>2. \A i \in 1..n : s[i] \in S
  BY <1>1
<1>3. n \in Nat /\ (IF 1 <= n THEN n - 1 + 1 ELSE 0) = n /\ n - 1 + 1 = n
  BY <1>1
<1>4. /\ SubSeq(s, 1, n) \in Seq(S) /\ Len(SubSeq(s, 1, n)) = IF 1 <= n THEN n - 1 + 1 ELSE 0
      /\ \A i \in 1..(n - 1 + 1) : SubSeq(s, 1, n)[i] = s[1 + i - 1]
  BY <1>2, <1>3, SubSeqProperties
<1>5. \A i \in 1..n : SubSeq(s, 1, n)[i] = s[i]
  BY <1>3, <1>4
<1> QED
  BY <1>3, <1>4, <1>5 DEF Cut

(* A beginning of a beginning.                                               *)
LEMMA CutOfCut ==
    ASSUME NEW S, NEW s \in Seq(S), NEW n \in 0..Len(s), NEW k \in 0..n
    PROVE  Cut(Cut(s, n), k) = Cut(s, k)
<1>1. Len(s) \in Nat /\ k \in 0..Len(s)
  BY LenProperties
<1>2. PICK a : a = Cut(s, n)
  OBVIOUS
<1>3. a \in Seq(S) /\ Len(a) = n /\ \A i \in 1..n : a[i] = s[i]
  BY <1>2, CutIs
<1>4. PICK b : b = Cut(a, k)
  OBVIOUS
<1>5. b \in Seq(S) /\ Len(b) = k /\ \A i \in 1..k : b[i] = a[i]
  BY <1>3, <1>4, CutIs
<1>6. PICK c : c = Cut(s, k)
  OBVIOUS
<1>7. c \in Seq(S) /\ Len(c) = k /\ \A i \in 1..k : c[i] = s[i]
  BY <1>1, <1>6, CutIs
<1>8. Len(b) = Len(c) /\ \A i \in 1..Len(b) : b[i] = c[i]
  BY <1>1, <1>3, <1>5, <1>7
<1>9. b = c
  BY <1>5, <1>7, <1>8, SeqEqual
<1> QED
  BY <1>2, <1>4, <1>6, <1>9

(* All the names of a path.                                                  *)
LEMMA WholeCut ==
    ASSUME NEW S, NEW s \in Seq(S)
    PROVE  Cut(s, Len(s)) = s
  BY SubSeqFull DEF Cut

-----------------------------------------------------------------------------
(* A path of names, and the files of the model.                              *)
Paths == Seq(STRING)
AllFiles == {Files[i] : i \in DOMAIN Files}

(* A root and what lies below it.                                            *)
LEMMA BelowIs ==
    ASSUME NEW r \in Paths, NEW p \in Paths
    PROVE  Walk!Below(r, p) <=> Len(r) < Len(p) /\ Cut(p, Len(r)) = r
<1>1. Len(r) \in Nat /\ Len(p) \in Nat
  BY LenProperties DEF Paths
<1>2. Cut(r, Len(r)) = r
  BY WholeCut DEF Paths
<1>3. Cut(p, Len(p)) = p
  BY WholeCut DEF Paths
<1>4. Walk!Below(r, p) <=> Len(r) <= Len(p) /\ Cut(r, Len(r)) = Cut(p, Len(r)) /\ r # p
  BY DEF Walk!Below, Walk!IsStrictPrefix, Walk!IsPrefix, Cut
<1>5. CASE Len(r) = Len(p)
  BY <1>1, <1>2, <1>3, <1>4, <1>5
<1>6. CASE Len(r) # Len(p)
  BY <1>1, <1>2, <1>4, <1>6
<1> QED
  BY <1>5, <1>6

(* The directories are the beginnings of files.                              *)
LEMMA DirsAre ==
    /\ AllFiles \subseteq Paths /\ Walk!Dirs \subseteq Paths
    /\ AllFiles \cap Walk!Dirs = {}
    /\ \A f \in AllFiles : \A n \in 0..(Len(f) - 1) : Cut(f, n) \in Walk!Dirs
    /\ \A d \in Walk!Dirs : \A n \in 0..Len(d) : Cut(d, n) \in Walk!Dirs
<1>1. Files \in Seq(Paths)
  BY FilesAssumption DEF Paths
<1>2. DOMAIN Files = 1..Len(Files) /\ Len(Files) \in Nat
  BY <1>1, LenProperties
<1>3. ASSUME NEW f \in AllFiles PROVE f \in Paths /\ f \notin Walk!Dirs
  <2>1. PICK i \in DOMAIN Files : Files[i] = f
    BY DEF AllFiles
  <2>2. i \in 1..Len(Files)
    BY <1>2
  <2>3. Files[i] \in Paths
    BY <1>1, <2>2, ElementOfSeq
  <2> QED
    BY <2>1, <2>3, FilesAssumption
<1>4. Walk!Range(Files) = AllFiles
  BY DEF Walk!Range, AllFiles
<1>5. ASSUME NEW d
      PROVE  d \in Walk!Dirs <=> \E f \in AllFiles : \E n \in 0..Len(f) : d = Cut(f, n) /\ d # f
  BY <1>4 DEF Walk!Dirs, Walk!Prefixes, Cut
<1>6. ASSUME NEW f \in AllFiles, NEW n \in 0..(Len(f) - 1) PROVE Cut(f, n) \in Walk!Dirs
  <2>1. f \in Seq(STRING) /\ Len(f) \in Nat /\ n \in 0..Len(f)
    BY <1>3, LenProperties DEF Paths
  <2>2. Len(Cut(f, n)) = n
    BY <2>1, CutIs
  <2>3. Cut(f, n) # f
    BY <2>1, <2>2
  <2> QED
    BY <1>5, <2>1, <2>3
<1>7. ASSUME NEW d \in Walk!Dirs
      PROVE  d \in Paths /\ \A n \in 0..Len(d) : Cut(d, n) \in Walk!Dirs
  <2>1. PICK f \in AllFiles : \E n \in 0..Len(f) : d = Cut(f, n) /\ d # f
    BY <1>5
  <2>2. PICK m \in 0..Len(f) : d = Cut(f, m) /\ d # f
    BY <2>1
  <2>3. f \in Seq(STRING) /\ Len(f) \in Nat
    BY <1>3, LenProperties DEF Paths
  <2>4. d \in Seq(STRING) /\ Len(d) = m
    BY <2>2, <2>3, CutIs
  <2>5. m # Len(f)
    BY <2>2, <2>3, WholeCut
  <2>6. ASSUME NEW n \in 0..Len(d) PROVE Cut(d, n) \in Walk!Dirs
    <3>1. n \in 0..m /\ n \in 0..(Len(f) - 1)
      BY <2>2, <2>3, <2>4, <2>5
    <3>2. Cut(Cut(f, m), n) = Cut(f, n)
      BY <2>3, <3>1, CutOfCut
    <3> QED
      BY <1>6, <2>2, <3>1, <3>2
  <2> QED
    BY <2>4, <2>6 DEF Paths
<1> QED
  BY <1>3, <1>6, <1>7

(* What the walk may come to.                                                *)
Listed == Walk!Dirs \cup AllFiles

(* What a directory holds.                                                   *)
Children(d) == {c \in Listed : c # <<>> /\ Walk!Parent(c) = d}

(* An entry of a directory is one name longer.                               *)
LEMMA ChildIs ==
    ASSUME NEW d \in Paths, NEW c \in Children(d)
    PROVE  /\ c \in Listed /\ c \in Paths /\ Len(c) = Len(d) + 1 /\ Cut(c, Len(d)) = d
<1>1. c \in Listed /\ c # <<>> /\ Walk!Parent(c) = d
  BY DEF Children
<1>2. c \in Paths
  BY <1>1, DirsAre DEF Listed
<1>3. c \in Seq(STRING) /\ Len(c) \in Nat
  BY <1>2, LenProperties DEF Paths
<1>4. Len(c) # 0
  BY <1>1, <1>3, EmptySeq
<1>5. d = Cut(c, Len(c) - 1)
  BY <1>1 DEF Walk!Parent, Walk!Front, Cut
<1>6. Len(c) - 1 \in 0..Len(c)
  BY <1>3, <1>4
<1>7. Len(d) = Len(c) - 1
  BY <1>3, <1>5, <1>6, CutIs
<1> QED
  BY <1>1, <1>2, <1>3, <1>5, <1>7

(* The next name towards a file is an entry of its directory.                *)
LEMMA NextTowards ==
    ASSUME NEW f \in AllFiles, NEW n \in 0..(Len(f) - 1)
    PROVE  Cut(f, n + 1) \in Children(Cut(f, n))
<1>1. f \in Seq(STRING) /\ Len(f) \in Nat
  BY DirsAre, LenProperties DEF Paths
<1>2. n + 1 \in 0..Len(f) /\ n \in 0..(n + 1) /\ (n + 1) - 1 = n
  BY <1>1
<1>3. PICK c : c = Cut(f, n + 1)
  OBVIOUS
<1>4. c \in Seq(STRING) /\ Len(c) = n + 1
  BY <1>1, <1>2, <1>3, CutIs
<1>5. c \in Listed
  <2>1. CASE n + 1 = Len(f)
    BY <1>1, <1>3, <2>1, WholeCut DEF Listed
  <2>2. CASE n + 1 # Len(f)
    <3>1. n + 1 \in 0..(Len(f) - 1)
      BY <1>1, <1>2, <2>2
    <3> QED
      BY <1>3, <3>1, DirsAre DEF Listed
  <2> QED
    BY <2>1, <2>2
<1>6. c # <<>>
  BY <1>2, <1>4, EmptySeq
<1>7. Cut(Cut(f, n + 1), n) = Cut(f, n)
  BY <1>1, <1>2, CutOfCut
<1>8. Walk!Parent(c) = Cut(f, n)
  BY <1>2, <1>3, <1>4, <1>7 DEF Walk!Parent, Walk!Front, Cut
<1> QED
  BY <1>3, <1>5, <1>6, <1>8 DEF Children


-----------------------------------------------------------------------------
(* g holds the paths that the rules leave out, each with the root of the     *)
(* walk.  A directory that is gone into, and what a walk comes to.           *)
Kept(g, d, r) == <<d, r>> \notin g /\ Walk!Last(d) \notin Pruned
Reached(g, e, r) ==
    /\ e \in Listed /\ Walk!Below(r, e)
    /\ \A n \in (Len(r) + 1)..(Len(e) - 1) : Kept(g, Cut(e, n), r)

(* What a walk finds, and what an argument does.                             *)
Wanted(g, f, r) == Reached(g, f, r) /\ <<f, r>> \notin g /\ Walk!Last(f) \in Markdown
Finds(g, r, f) == r = f \/ Wanted(g, f, r)

(* The walk from r: it has come to what is to visit, it has found what it    *)
(* wants, and on the way to each other file there is an entry to visit.      *)
Towards(r, f, S) == \E n \in (Len(r) + 1)..Len(f) : Cut(f, n) \in S
Walking(g, r, S, F0) ==
    /\ \A e \in S : Reached(g, e, r)
    /\ \A f \in F0 : f \in AllFiles /\ Wanted(g, f, r)
    /\ \A f \in AllFiles : Wanted(g, f, r) => f \in F0 \/ Towards(r, f, S)

(* A path that was reached.                                                  *)
LEMMA ReachedIs ==
    ASSUME NEW g, NEW r \in Paths, NEW e, Reached(g, e, r)
    PROVE  e \in Paths /\ Len(e) \in Nat /\ Len(r) \in Nat /\ Len(r) < Len(e) /\ Cut(e, Len(r)) = r
<1>1. e \in Paths
  BY DirsAre DEF Reached, Listed
<1>2. Len(e) \in Nat /\ Len(r) \in Nat
  BY <1>1, LenProperties DEF Paths
<1>3. Walk!Below(r, e)
  BY DEF Reached
<1> QED
  BY <1>1, <1>2, <1>3, BelowIs

(* Below a directory that is gone into.                                      *)
LEMMA ChildReached ==
    ASSUME NEW g, NEW r \in Paths, NEW e, Reached(g, e, r), Kept(g, e, r), NEW c \in Children(e)
    PROVE  Reached(g, c, r)
<1>1. e \in Paths /\ Len(e) \in Nat /\ Len(r) \in Nat /\ Len(r) < Len(e) /\ Cut(e, Len(r)) = r
  BY ReachedIs
<1>2. e \in Paths
  BY <1>1
<1>3. c \in Listed /\ c \in Paths /\ Len(c) = Len(e) + 1 /\ Cut(c, Len(e)) = e
  BY <1>2, ChildIs
<1>4. c \in Seq(STRING)
  BY <1>3 DEF Paths
<1>5. ASSUME NEW n \in 0..Len(e) PROVE Cut(c, n) = Cut(e, n)
  <2>1. Len(e) \in 0..Len(c)
    BY <1>1, <1>3
  <2>2. Cut(Cut(c, Len(e)), n) = Cut(c, n)
    BY <1>4, <2>1, CutOfCut
  <2> QED
    BY <1>3, <2>2
<1>6. Walk!Below(r, c)
  <2>1. Len(r) \in 0..Len(e) /\ Len(r) < Len(c)
    BY <1>1, <1>3
  <2>2. Cut(c, Len(r)) = r
    BY <1>1, <1>5, <2>1
  <2> QED
    BY <1>3, <2>1, <2>2, BelowIs
<1>7. ASSUME NEW n \in (Len(r) + 1)..(Len(c) - 1) PROVE Kept(g, Cut(c, n), r)
  <2>1. n \in 0..Len(e)
    BY <1>1, <1>3
  <2>2. CASE n = Len(e)
    BY <1>3, <2>2
  <2>3. CASE n # Len(e)
    <3>1. n \in (Len(r) + 1)..(Len(e) - 1)
      BY <1>1, <1>3, <2>3
    <3>2. Kept(g, Cut(e, n), r)
      BY <3>1 DEF Reached
    <3> QED
      BY <1>5, <2>1, <3>2
  <2> QED
    BY <2>2, <2>3
<1> QED
  BY <1>3, <1>6, <1>7 DEF Reached

(* A walk begins with what its root holds.                                   *)
LEMMA WalkStarts ==
    ASSUME NEW g, NEW r \in Walk!Dirs
    PROVE  Walking(g, r, Children(r), {})
<1>1. r \in Paths
  BY DirsAre
<1>2. Len(r) \in Nat
  BY <1>1, LenProperties DEF Paths
<1>3. ASSUME NEW c \in Children(r) PROVE Reached(g, c, r)
  <2>1. c \in Listed /\ c \in Paths /\ Len(c) = Len(r) + 1 /\ Cut(c, Len(r)) = r
    BY <1>1, ChildIs
  <2>2. Walk!Below(r, c)
    BY <1>1, <1>2, <2>1, BelowIs
  <2>3. ~\E n \in (Len(r) + 1)..(Len(c) - 1) : TRUE
    BY <1>2, <2>1
  <2> QED
    BY <2>1, <2>2, <2>3 DEF Reached
<1>4. ASSUME NEW f \in AllFiles, Wanted(g, f, r) PROVE Towards(r, f, Children(r))
  <2>1. Reached(g, f, r)
    BY <1>4 DEF Wanted
  <2>2. f \in Paths /\ Len(f) \in Nat /\ Len(r) \in Nat /\ Len(r) < Len(f) /\ Cut(f, Len(r)) = r
    BY <1>1, <2>1, ReachedIs
  <2>3. Len(r) \in 0..(Len(f) - 1) /\ Len(r) + 1 \in (Len(r) + 1)..Len(f)
    BY <2>2
  <2>4. Cut(f, Len(r) + 1) \in Children(Cut(f, Len(r)))
    BY <2>3, NextTowards
  <2> QED
    BY <2>2, <2>3, <2>4 DEF Towards
<1> QED
  BY <1>3, <1>4 DEF Walking

(* A directory is visited.                                                   *)
LEMMA VisitDirectory ==
    ASSUME NEW g, NEW r \in Paths, NEW S, NEW F0, Walking(g, r, S, F0),
           NEW e \in S, e \in Walk!Dirs
    PROVE  Walking(g, r, (S \ {e}) \cup (IF Kept(g, e, r) THEN Children(e) ELSE {}), F0)
<1>1. PICK T : T = (S \ {e}) \cup (IF Kept(g, e, r) THEN Children(e) ELSE {})
  OBVIOUS
<1>2. Reached(g, e, r)
  BY DEF Walking
<1>3. ASSUME NEW c \in T PROVE Reached(g, c, r)
  <2>1. CASE c \in S
    BY <2>1 DEF Walking
  <2>2. CASE c \notin S
    <3>1. Kept(g, e, r) /\ c \in Children(e)
      BY <1>1, <2>2
    <3> QED
      BY <1>2, <3>1, ChildReached
  <2> QED
    BY <2>1, <2>2
<1>4. ASSUME NEW f \in AllFiles, Wanted(g, f, r), f \notin F0 PROVE Towards(r, f, T)
  <2>1. Towards(r, f, S)
    BY <1>4 DEF Walking
  <2>2. PICK n \in (Len(r) + 1)..Len(f) : Cut(f, n) \in S
    BY <2>1 DEF Towards
  <2>3. CASE Cut(f, n) # e
    BY <1>1, <2>2, <2>3 DEF Towards
  <2>4. CASE Cut(f, n) = e
    <3>1. Reached(g, f, r)
      BY <1>4 DEF Wanted
    <3>2. f \in Paths /\ Len(f) \in Nat /\ Len(r) \in Nat /\ Len(r) < Len(f)
      BY <3>1, ReachedIs
    <3>3. Cut(f, Len(f)) = f
      BY <3>2, WholeCut DEF Paths
    <3>4. n # Len(f)
      BY <2>4, <3>3, DirsAre
    <3>5. n \in (Len(r) + 1)..(Len(f) - 1) /\ n \in 0..(Len(f) - 1) /\ n + 1 \in (Len(r) + 1)..Len(f)
      BY <2>2, <3>2, <3>4
    <3>6. Kept(g, e, r)
      BY <2>4, <3>1, <3>5 DEF Reached
    <3>7. Cut(f, n + 1) \in Children(e)
      BY <2>4, <3>5, NextTowards
    <3>8. Cut(f, n + 1) \in T
      BY <1>1, <3>6, <3>7
    <3> QED
      BY <3>5, <3>8 DEF Towards
  <2> QED
    BY <2>3, <2>4
<1>5. \A f \in F0 : f \in AllFiles /\ Wanted(g, f, r)
  BY DEF Walking
<1>6. Walking(g, r, T, F0)
  BY <1>3, <1>4, <1>5 DEF Walking
<1> QED
  BY <1>1, <1>6

(* A file is visited.                                                        *)
LEMMA VisitFile ==
    ASSUME NEW g, NEW r \in Paths, NEW S, NEW F0, Walking(g, r, S, F0),
           NEW e \in S, e \notin Walk!Dirs
    PROVE  Walking(g, r, S \ {e},
                   IF <<e, r>> \notin g /\ Walk!Last(e) \in Markdown THEN F0 \cup {e} ELSE F0)
<1>1. PICK T : T = S \ {e}
  OBVIOUS
<1>2. PICK G : G = IF <<e, r>> \notin g /\ Walk!Last(e) \in Markdown THEN F0 \cup {e} ELSE F0
  OBVIOUS
<1>3. Reached(g, e, r)
  BY DEF Walking
<1>4. e \in AllFiles
  BY <1>3 DEF Reached, Listed
<1>5. ASSUME NEW c \in T PROVE Reached(g, c, r)
  BY <1>1 DEF Walking
<1>6. ASSUME NEW f \in G PROVE f \in AllFiles /\ Wanted(g, f, r)
  <2>1. CASE f \in F0
    BY <2>1 DEF Walking
  <2>2. CASE f \notin F0
    BY <1>2, <1>3, <1>4, <2>2 DEF Wanted
  <2> QED
    BY <2>1, <2>2
<1>7. ASSUME NEW f \in AllFiles, Wanted(g, f, r), f \notin G PROVE Towards(r, f, T)
  <2>1. f \notin F0
    BY <1>2, <1>7
  <2>2. Towards(r, f, S)
    BY <1>7, <2>1 DEF Walking
  <2>3. PICK n \in (Len(r) + 1)..Len(f) : Cut(f, n) \in S
    BY <2>2 DEF Towards
  <2>4. CASE Cut(f, n) # e
    BY <1>1, <2>3, <2>4 DEF Towards
  <2>5. CASE Cut(f, n) = e
    <3>1. Reached(g, f, r)
      BY <1>7 DEF Wanted
    <3>2. f \in Paths /\ Len(f) \in Nat /\ Len(r) \in Nat
      BY <3>1, ReachedIs
    <3>3. Cut(f, Len(f)) = f
      BY <3>2, WholeCut DEF Paths
    <3>4. n = Len(f)
      <4>1. n # Len(f) => n \in 0..(Len(f) - 1)
        BY <2>3, <3>2
      <4> QED
        BY <2>5, <4>1, DirsAre
    <3>5. f = e
      BY <2>5, <3>3, <3>4
    <3>6. f \in G
      BY <1>2, <1>7, <3>5 DEF Wanted
    <3> QED
      BY <1>7, <3>6
  <2> QED
    BY <2>4, <2>5
<1>8. Walking(g, r, T, G)
  BY <1>5, <1>6, <1>7 DEF Walking
<1> QED
  BY <1>1, <1>2, <1>8

(* Nothing is left to visit: what is wanted was found.                       *)
LEMMA WalkEnds ==
    ASSUME NEW g, NEW r \in Paths, NEW F0, Walking(g, r, {}, F0)
    PROVE  F0 = {f \in AllFiles : Wanted(g, f, r)}
  BY DEF Walking, Towards


-----------------------------------------------------------------------------
(* The paths of a list.                                                      *)
Rng(q) == {q[i] : i \in 1..Len(q)}

(* Argument k is the first that finds p; one of the first n finds it.        *)
At(g, gv, k, p) == Finds(g, gv[k], p) /\ \A j \in 1..(k - 1) : ~Finds(g, gv[j], p)
ByFirst(g, gv, n, p) == \E k \in 1..n : Finds(g, gv[k], p)

(* p comes before q: an argument before that finds it, or the same does and  *)
(* it is sorted before.                                                      *)
Earlier(g, gv, n, p, q) ==
    \E k \in 1..n : \E l \in 1..n :
        At(g, gv, k, p) /\ At(g, gv, l, q) /\ (k < l \/ (k = l /\ Walk!Rank(p) < Walk!Rank(q)))

(* Each path once, in the order of the first n arguments.                    *)
InPlace(g, gv, n, q) ==
    /\ q \in Seq(AllFiles)
    /\ \A a \in 1..Len(q) : \A b \in 1..Len(q) : q[a] = q[b] => a = b
    /\ \A a \in 1..Len(q) : \A b \in 1..Len(q) : a < b => Earlier(g, gv, n, q[a], q[b])

(* The list of what the first n arguments find; and some of the next.        *)
Listing(g, gv, n, q) ==
    InPlace(g, gv, n, q) /\ \A f \in AllFiles : f \in Rng(q) <=> ByFirst(g, gv, n, f)
PartList(g, gv, n, D, q) ==
    InPlace(g, gv, n + 1, q) /\ \A f \in AllFiles : f \in Rng(q) <=> ByFirst(g, gv, n, f) \/ f \in D

(* The place of a file.                                                      *)
LEMMA RankIs ==
    ASSUME NEW i \in DOMAIN Files
    PROVE  Walk!Rank(Files[i]) = i
  BY FilesAssumption DEF Walk!Rank

(* Who finds a path, finds it first, or another before does.                 *)
LEMMA FirstFinds ==
    ASSUME NEW g, NEW gv, NEW n \in Nat, NEW p, ByFirst(g, gv, n, p)
    PROVE  \E k \in 1..n : At(g, gv, k, p)
<1> DEFINE T == {k \in 1..n : Finds(g, gv[k], p)}
<1>1. T \subseteq Nat /\ T # {}
  BY DEF ByFirst
<1>2. PICK k \in T : \A y \in T : k <= y
  <2> HIDE DEF T
  <2> QED
    BY <1>1, LeastOf
<1>3. k \in 1..n /\ Finds(g, gv[k], p)
  BY <1>2
<1>4. ASSUME NEW j \in 1..(k - 1) PROVE ~Finds(g, gv[j], p)
  <2>1. j \in 1..n /\ ~(k <= j)
    BY <1>3
  <2> QED
    BY <1>2, <2>1
<1> QED
  BY <1>3, <1>4 DEF At

(* More arguments.                                                           *)
LEMMA InPlaceGrows ==
    ASSUME NEW g, NEW gv, NEW n \in Nat, NEW q, InPlace(g, gv, n, q)
    PROVE  InPlace(g, gv, n + 1, q)
<1>1. ASSUME NEW x, NEW y, Earlier(g, gv, n, x, y) PROVE Earlier(g, gv, n + 1, x, y)
  <2>1. \A k \in 1..n : k \in 1..(n + 1)
    OBVIOUS
  <2> QED
    BY <1>1, <2>1 DEF Earlier
<1> QED
  BY <1>1 DEF InPlace

(* discover_paths adds a path the next argument finds.                       *)
LEMMA AddOne ==
    ASSUME NEW g, NEW gv, NEW n \in Nat, NEW D, NEW q, PartList(g, gv, n, D, q),
           NEW f \in AllFiles, Finds(g, gv[n + 1], f),
           \A x \in D : x \in AllFiles /\ Finds(g, gv[n + 1], x) /\ Walk!Rank(x) < Walk!Rank(f)
    PROVE  PartList(g, gv, n, D \cup {f}, Walk!AddPath(q, f))
<1>1. q \in Seq(AllFiles)
  BY DEF PartList, InPlace
<1>2. Len(q) \in Nat /\ DOMAIN q = 1..Len(q)
  BY <1>1, LenProperties
<1>3. Walk!AddPath(q, f) = IF f \in Rng(q) THEN q ELSE Append(q, f)
  BY <1>2 DEF Walk!AddPath, Walk!Range, Rng
<1>4. \A x \in AllFiles : x \in Rng(q) <=> ByFirst(g, gv, n, x) \/ x \in D
  BY DEF PartList
<1>5. CASE f \in Rng(q)
  <2>1. \A x \in AllFiles : x \in Rng(q) <=> ByFirst(g, gv, n, x) \/ x \in D \cup {f}
    BY <1>4, <1>5
  <2>2. Walk!AddPath(q, f) = q
    BY <1>3, <1>5
  <2> QED
    BY <2>1, <2>2 DEF PartList
<1>6. CASE f \notin Rng(q)
  <2>1. PICK s : s = Append(q, f)
    OBVIOUS
  <2>2. PICK m : m = Len(q)
    OBVIOUS
  <2>3. m \in Nat /\ s \in Seq(AllFiles) /\ Len(s) = m + 1 /\ s[m + 1] = f /\ \A i \in 1..m : s[i] = q[i]
    BY <1>1, <1>2, <2>1, <2>2, AppendProperties
  <2>4. \A i \in 1..m : q[i] \in Rng(q) /\ q[i] \in AllFiles
    BY <1>1, <2>2, ElementOfSeq DEF Rng
  <2>5. \A i \in 1..(m + 1) : i \in 1..m \/ i = m + 1
    BY <2>3
  <2>6. ASSUME NEW x PROVE x \in Rng(s) <=> x \in Rng(q) \/ x = f
    <3>1. x \in Rng(s) <=> \E i \in 1..(m + 1) : x = s[i]
      BY <2>3 DEF Rng
    <3>2. x \in Rng(q) <=> \E i \in 1..m : x = q[i]
      BY <2>2 DEF Rng
    <3>3. m + 1 \in 1..(m + 1) /\ \A i \in 1..m : i \in 1..(m + 1)
      BY <2>3
    <3> QED
      BY <2>3, <2>5, <3>1, <3>2, <3>3
  <2>7. \A x \in AllFiles : x \in Rng(s) <=> ByFirst(g, gv, n, x) \/ x \in D \cup {f}
    BY <1>4, <2>6
  <2>8. ASSUME NEW a \in 1..(m + 1), NEW b \in 1..(m + 1), s[a] = s[b] PROVE a = b
    <3>1. CASE a \in 1..m /\ b \in 1..m
      BY <2>2, <2>3, <2>8, <3>1 DEF PartList, InPlace
    <3>2. CASE a = m + 1 /\ b \in 1..m
      BY <1>6, <2>3, <2>4, <2>8, <3>2
    <3>3. CASE a \in 1..m /\ b = m + 1
      BY <1>6, <2>3, <2>4, <2>8, <3>3
    <3> QED
      BY <2>5, <3>1, <3>2, <3>3
  <2>9. At(g, gv, n + 1, f)
    <3>1. ~ByFirst(g, gv, n, f)
      BY <1>4, <1>6
    <3>2. (n + 1) - 1 = n
      OBVIOUS
    <3> QED
      BY <3>1, <3>2 DEF At, ByFirst
  <2>10. ASSUME NEW a \in 1..m PROVE Earlier(g, gv, n + 1, q[a], f)
    <3>1. q[a] \in AllFiles /\ (ByFirst(g, gv, n, q[a]) \/ q[a] \in D)
      BY <1>4, <2>4
    <3>2. n + 1 \in 1..(n + 1)
      OBVIOUS
    <3>3. CASE ByFirst(g, gv, n, q[a])
      <4>1. PICK k \in 1..n : At(g, gv, k, q[a])
        BY <3>3, FirstFinds
      <4>2. k \in 1..(n + 1) /\ k < n + 1
        OBVIOUS
      <4> QED
        BY <2>9, <3>2, <4>1, <4>2 DEF Earlier
    <3>4. CASE ~ByFirst(g, gv, n, q[a]) /\ q[a] \in D
      <4>1. Finds(g, gv[n + 1], q[a]) /\ Walk!Rank(q[a]) < Walk!Rank(f)
        BY <3>4
      <4>2. At(g, gv, n + 1, q[a])
        <5>1. (n + 1) - 1 = n
          OBVIOUS
        <5> QED
          BY <3>4, <4>1, <5>1 DEF At, ByFirst
      <4> QED
        BY <2>9, <3>2, <4>1, <4>2 DEF Earlier
    <3> QED
      BY <3>1, <3>3, <3>4
  <2>11. ASSUME NEW a \in 1..(m + 1), NEW b \in 1..(m + 1), a < b PROVE Earlier(g, gv, n + 1, s[a], s[b])
    <3>1. CASE b \in 1..m
      <4>1. a \in 1..m
        BY <2>3, <2>11, <3>1
      <4> QED
        BY <2>2, <2>3, <2>11, <3>1, <4>1 DEF PartList, InPlace
    <3>2. CASE b = m + 1
      <4>1. a \in 1..m
        BY <2>3, <2>11, <3>2
      <4> QED
        BY <2>3, <2>10, <3>2, <4>1
    <3> QED
      BY <2>5, <3>1, <3>2
  <2>12. InPlace(g, gv, n + 1, s)
    BY <2>3, <2>8, <2>11 DEF InPlace
  <2>13. Walk!AddPath(q, f) = s
    BY <1>3, <1>6, <2>1
  <2> QED
    BY <2>7, <2>12, <2>13 DEF PartList
<1> QED
  BY <1>5, <1>6

(* Nothing of the next argument is in the list yet.                          *)
LEMMA ListStarts ==
    ASSUME NEW g, NEW gv, NEW n \in Nat, NEW q, Listing(g, gv, n, q)
    PROVE  PartList(g, gv, n, {}, q)
  BY InPlaceGrows DEF Listing, PartList

(* All the next argument finds is in the list.                               *)
LEMMA ListEnds ==
    ASSUME NEW g, NEW gv, NEW n \in Nat, NEW q, NEW D, PartList(g, gv, n, D, q),
           \A f \in AllFiles : f \in D <=> Finds(g, gv[n + 1], f)
    PROVE  Listing(g, gv, n + 1, q)
<1>1. ASSUME NEW f PROVE ByFirst(g, gv, n + 1, f) <=> ByFirst(g, gv, n, f) \/ Finds(g, gv[n + 1], f)
  <2>1. \A k \in 1..(n + 1) : k \in 1..n \/ k = n + 1
    OBVIOUS
  <2>2. n + 1 \in 1..(n + 1) /\ \A k \in 1..n : k \in 1..(n + 1)
    OBVIOUS
  <2> QED
    BY <2>1, <2>2 DEF ByFirst
<1>2. \A f \in AllFiles : f \in Rng(q) <=> ByFirst(g, gv, n + 1, f)
  BY <1>1 DEF PartList
<1> QED
  BY <1>2 DEF Listing, PartList


-----------------------------------------------------------------------------
(* h[i] is the list with those of the first i files that are in S.           *)
IsAdding(list, S, m, h) ==
    h = [i \in 0..m |-> IF i = 0 THEN list
                        ELSE IF Files[i] \in S THEN Walk!AddPath(h[i - 1], Files[i]) ELSE h[i - 1]]

(* There are such lists.                                                     *)
LEMMA AddingExists ==
    ASSUME NEW list, NEW S, NEW n \in Nat
    PROVE  \E h : IsAdding(list, S, n, h)
<1> DEFINE T == {m \in Nat : ~\E h : IsAdding(list, S, m, h)}
<1> SUFFICES ASSUME T # {} PROVE FALSE
  OBVIOUS
<1>1. PICK m \in T : \A y \in T : m <= y
  <2>1. T \subseteq Nat
    OBVIOUS
  <2> HIDE DEF T
  <2> QED
    BY <2>1, LeastOf
<1>2. CASE m = 0
  <2> DEFINE h == [i \in 0..0 |-> list]
  <2>1. IsAdding(list, S, 0, h)
    BY DEF IsAdding
  <2> QED
    BY <1>1, <1>2, <2>1
<1>3. CASE m # 0
  <2>1. m - 1 \in Nat /\ m - 1 \notin T
    BY <1>1, <1>3
  <2>2. PICK k : IsAdding(list, S, m - 1, k)
    BY <2>1
  <2> DEFINE next(x, i) == IF Files[i] \in S THEN Walk!AddPath(x, Files[i]) ELSE x
             h == [i \in 0..m |-> IF i = m THEN next(k[m - 1], m) ELSE k[i]]
  <2>3. \A i \in 0..(m - 1) : k[i] = IF i = 0 THEN list ELSE next(k[i - 1], i)
    BY <2>2 DEF IsAdding
  <2> HIDE DEF next
  <2>4. ASSUME NEW i \in 0..m
        PROVE  h[i] = IF i = 0 THEN list ELSE next(h[i - 1], i)
    BY <1>3, <2>3
  <2>5. IsAdding(list, S, m, h)
    BY <2>4 DEF IsAdding, next
  <2> QED
    BY <1>1, <2>5
<1> QED
  BY <1>2, <1>3

(* What a walk found is added, in the order of the files.                    *)
LEMMA AddPathsIs ==
    ASSUME NEW g, NEW gv, NEW n \in Nat, NEW q, Listing(g, gv, n, q), NEW S,
           \A f \in AllFiles : f \in S <=> Finds(g, gv[n + 1], f)
    PROVE  Listing(g, gv, n + 1, Walk!AddPaths(q, S))
<1>1. Len(Files) \in Nat /\ DOMAIN Files = 1..Len(Files)
  BY FilesAssumption, LenProperties
<1>2. PICK m : m = Len(Files)
  OBVIOUS
<1>3. m \in Nat /\ DOMAIN Files = 1..m
  BY <1>1, <1>2
<1>4. PICK h : h = CHOOSE x : IsAdding(q, S, m, x)
  OBVIOUS
<1>5. IsAdding(q, S, m, h)
  BY <1>3, <1>4, AddingExists
<1>6. Walk!AddPaths(q, S) = h[m]
  BY <1>2, <1>4 DEF Walk!AddPaths, IsAdding
<1>7. /\ h[0] = q
      /\ \A i \in 1..m : h[i] = IF Files[i] \in S THEN Walk!AddPath(h[i - 1], Files[i]) ELSE h[i - 1]
  <2>1. \A i \in 0..m : h[i] = IF i = 0 THEN q
                               ELSE IF Files[i] \in S THEN Walk!AddPath(h[i - 1], Files[i]) ELSE h[i - 1]
    BY <1>5 DEF IsAdding
  <2>2. 0 \in 0..m /\ \A i \in 1..m : i \in 0..m /\ i # 0
    BY <1>3
  <2> QED
    BY <2>1, <2>2
<1> DEFINE D(i) == {f \in S : \E j \in 1..i : Files[j] = f}
           T == {i \in 0..m : ~PartList(g, gv, n, D(i), h[i])}
<1>8. PartList(g, gv, n, D(0), h[0])
  <2>1. D(0) = {}
    OBVIOUS
  <2> QED
    BY <1>7, <2>1, ListStarts
<1>9. ASSUME T # {} PROVE FALSE
  <2>1. PICK i \in T : \A y \in T : i <= y
    <3>1. T \subseteq Nat
      BY <1>3
    <3> HIDE DEF T
    <3> QED
      BY <1>9, <3>1, LeastOf
  <2>2. i \in 0..m /\ ~PartList(g, gv, n, D(i), h[i])
    BY <2>1
  <2>3. i # 0
    BY <1>8, <2>2
  <2>4. i \in 1..m /\ i - 1 \in 0..m /\ i - 1 \notin T /\ i \in DOMAIN Files
    <3>1. i \in 0..m
      BY <2>2
    <3> HIDE DEF T
    <3>2. i \in 1..m /\ i - 1 \in 0..m /\ i \in DOMAIN Files /\ ~(i <= i - 1)
      BY <1>3, <2>3, <3>1
    <3> QED
      BY <2>1, <3>2
  <2>5. PartList(g, gv, n, D(i - 1), h[i - 1])
    BY <2>4
  <2>6. PICK f : f = Files[i]
    OBVIOUS
  <2>7. f \in AllFiles
    BY <2>4, <2>6 DEF AllFiles
  <2>8. \A j \in 1..i : j \in 1..(i - 1) \/ j = i
    BY <2>4
  <2>9. i \in 1..i /\ \A j \in 1..(i - 1) : j \in 1..i
    BY <2>4
  <2>10. CASE f \in S
    <3>1. h[i] = Walk!AddPath(h[i - 1], f)
      BY <1>7, <2>4, <2>6, <2>10
    <3>2. D(i) = D(i - 1) \cup {f}
      BY <2>6, <2>8, <2>9, <2>10
    <3>3. Finds(g, gv[n + 1], f)
      BY <2>7, <2>10
    <3>4. ASSUME NEW x \in D(i - 1)
          PROVE  x \in AllFiles /\ Finds(g, gv[n + 1], x) /\ Walk!Rank(x) < Walk!Rank(f)
      <4>1. PICK j \in 1..(i - 1) : Files[j] = x /\ x \in S
        OBVIOUS
      <4>2. j \in DOMAIN Files /\ j < i
        BY <1>3, <2>4
      <4>3. x \in AllFiles
        BY <4>1, <4>2 DEF AllFiles
      <4>4. Walk!Rank(x) = j /\ Walk!Rank(f) = i
        BY <2>4, <2>6, <4>1, <4>2, RankIs
      <4> QED
        BY <4>1, <4>2, <4>3, <4>4
    <3> HIDE DEF D
    <3>5. PartList(g, gv, n, D(i - 1) \cup {f}, Walk!AddPath(h[i - 1], f))
      BY <2>5, <2>7, <3>3, <3>4, AddOne
    <3> QED
      BY <2>2, <3>1, <3>2, <3>5
  <2>11. CASE f \notin S
    <3>1. h[i] = h[i - 1]
      BY <1>7, <2>4, <2>6, <2>11
    <3>2. D(i) = D(i - 1)
      BY <2>6, <2>8, <2>9, <2>11
    <3> HIDE DEF D
    <3> QED
      BY <2>2, <2>5, <3>1, <3>2
  <2> QED
    BY <2>10, <2>11
<1>10. PartList(g, gv, n, D(m), h[m])
  <2>1. m \in 0..m
    BY <1>3
  <2>2. \A i \in 0..m : PartList(g, gv, n, D(i), h[i])
    <3> HIDE DEF D
    <3> QED
      BY <1>9
  <2> QED
    BY <2>1, <2>2
<1>11. \A f \in AllFiles : f \in D(m) <=> Finds(g, gv[n + 1], f)
  BY <1>3 DEF AllFiles
<1> HIDE DEF D
<1>12. Listing(g, gv, n + 1, h[m])
  BY <1>10, <1>11, ListEnds
<1> QED
  BY <1>6, <1>12

(* A file that is an argument is added.                                      *)
LEMMA AddFileIs ==
    ASSUME NEW g, NEW gv, NEW n \in Nat, NEW q, Listing(g, gv, n, q), gv[n + 1] \in AllFiles
    PROVE  Listing(g, gv, n + 1, Walk!AddPath(q, gv[n + 1]))
<1>1. PICK f : f = gv[n + 1]
  OBVIOUS
<1>2. f \in AllFiles /\ f \in Paths
  BY <1>1, DirsAre
<1>3. Finds(g, gv[n + 1], f)
  BY <1>1 DEF Finds
<1>4. ASSUME NEW x \in AllFiles, Finds(g, gv[n + 1], x) PROVE x = f
  <2>1. ASSUME Wanted(g, x, f) PROVE FALSE
    <3>1. Reached(g, x, f)
      BY <2>1 DEF Wanted
    <3>2. x \in Paths /\ Len(x) \in Nat /\ Len(f) \in Nat /\ Len(f) < Len(x) /\ Cut(x, Len(f)) = f
      BY <1>2, <3>1, ReachedIs
    <3>3. Len(f) \in 0..(Len(x) - 1)
      BY <3>2
    <3> QED
      BY <1>2, <3>2, <3>3, DirsAre
  <2> QED
    BY <1>1, <1>4, <2>1 DEF Finds
<1>5. PartList(g, gv, n, {}, q)
  BY ListStarts
<1>6. PartList(g, gv, n, {} \cup {f}, Walk!AddPath(q, f))
  <2>1. \A x \in {} : x \in AllFiles /\ Finds(g, gv[n + 1], x) /\ Walk!Rank(x) < Walk!Rank(f)
    OBVIOUS
  <2> QED
    BY <1>2, <1>3, <1>5, <2>1, AddOne
<1>7. \A x \in AllFiles : x \in {} \cup {f} <=> Finds(g, gv[n + 1], x)
  BY <1>1, <1>3, <1>4
<1> QED
  BY <1>1, <1>6, <1>7, ListEnds


-----------------------------------------------------------------------------
(* What the rules leave out, with the root of the walk.                      *)
Ig == {x \in Paths \X Paths : Walk!IgnoredByGitignore(x[1], x[2])}

(* The rules are those of the files, which stay.                             *)
LEMMA IgStays ==
    ASSUME dIgnore' = dIgnore
    PROVE  Ig' = Ig
<1>1. ASSUME NEW p, NEW r, NEW b
      PROVE  Walk!IgnoredPathState(p, r, b)' <=> Walk!IgnoredPathState(p, r, b)
  BY DEF Walk!IgnoredPathState
<1>2. ASSUME NEW p, NEW r
      PROVE  Walk!IgnoredByGitignore(p, r)' <=> Walk!IgnoredByGitignore(p, r)
  BY <1>1 DEF Walk!IgnoredByGitignore
<1> QED
  BY <1>2 DEF Ig

(* What an argument finds, it yields; and what it does not find of what it   *)
(* yields, is below a directory that was taken back.                         *)
LEMMA FindsYields ==
    ASSUME NEW r \in Paths, NEW f \in AllFiles
    PROVE  /\ Finds(Ig, r, f) => Walk!Yields(r, f)
           /\ Walk!Yields(r, f) => Finds(Ig, r, f) \/ Walk!TakenBack(f, r)
<1>0. f \in Paths /\ f \in Seq(STRING)
  BY DirsAre DEF Paths
<1>1. Len(f) \in Nat /\ Len(r) \in Nat
  BY <1>0, LenProperties DEF Paths
<1>2. ASSUME NEW p \in Paths
      PROVE  /\ <<p, r>> \in Ig <=> Walk!IgnoredByGitignore(p, r)
             /\ Walk!Ancestors(p, r) = {Cut(p, n) : n \in (Len(r) + 1)..(Len(p) - 1)}
  BY DEF Ig, Walk!Ancestors, Cut
<1>3. Walk!Below(r, f) => Len(r) < Len(f)
  BY <1>0, BelowIs
<1>4. ASSUME Wanted(Ig, f, r) PROVE Walk!Yields(r, f)
  <2>1. /\ Walk!Below(r, f) /\ Walk!Last(f) \in Markdown /\ <<f, r>> \notin Ig
        /\ \A n \in (Len(r) + 1)..(Len(f) - 1) : Kept(Ig, Cut(f, n), r)
    BY <1>4 DEF Wanted, Reached
  <2>2. ~Walk!IgnoredByGitignore(f, r)
    BY <1>0, <1>2, <2>1
  <2>3. ASSUME NEW d \in Walk!Ancestors(f, r) PROVE Walk!Last(d) \notin Pruned
    <3>1. Walk!Ancestors(f, r) = {Cut(f, n) : n \in (Len(r) + 1)..(Len(f) - 1)}
      BY <1>0, <1>2
    <3>2. PICK n \in (Len(r) + 1)..(Len(f) - 1) : d = Cut(f, n)
      BY <3>1
    <3> QED
      BY <2>1, <3>2 DEF Kept
  <2>4. ~Walk!Ignored(f, r)
    BY <2>2, <2>3 DEF Walk!Ignored, Walk!IgnoredByGitignore
  <2> QED
    BY <2>1, <2>4 DEF Walk!Yields
<1>5. ASSUME Walk!Yields(r, f), r # f, ~Wanted(Ig, f, r) PROVE Walk!TakenBack(f, r)
  <2>1. Walk!Below(r, f) /\ Walk!Last(f) \in Markdown /\ ~Walk!Ignored(f, r)
    BY <1>5 DEF Walk!Yields
  <2>2. ~Walk!IgnoredByGitignore(f, r)
    BY <2>1 DEF Walk!Ignored, Walk!IgnoredByGitignore
  <2>3. <<f, r>> \notin Ig
    BY <1>0, <1>2, <2>2
  <2>4. ~Reached(Ig, f, r)
    BY <1>5, <2>1, <2>3 DEF Wanted
  <2>5. PICK n \in (Len(r) + 1)..(Len(f) - 1) : ~Kept(Ig, Cut(f, n), r)
    BY <2>1, <2>4 DEF Reached, Listed
  <2>6. PICK d : d = Cut(f, n)
    OBVIOUS
  <2>7. n \in 0..Len(f) /\ n \in Nat
    BY <1>1, <2>5
  <2>8. d \in Paths /\ Len(d) = n
    BY <1>0, <2>6, <2>7, CutIs DEF Paths
  <2>9. d \in Walk!Ancestors(f, r)
    BY <1>0, <1>2, <2>5, <2>6
  <2>10. Walk!Last(d) \notin Pruned /\ ~Walk!IgnoredPathState(d, r, TRUE)
    BY <2>1, <2>9 DEF Walk!Ignored
  <2>11. <<d, r>> \in Ig
    BY <2>5, <2>6, <2>10 DEF Kept
  <2>12. Walk!IgnoredByGitignore(d, r)
    BY <1>2, <2>8, <2>11
  <2>13. ASSUME NEW e \in Walk!Ancestors(d, r) PROVE ~Walk!IgnoredPathState(e, r, TRUE)
    <3>1. PICK k \in (Len(r) + 1)..(Len(d) - 1) : e = Cut(d, k)
      BY <1>2, <2>8
    <3>2. k \in 0..n /\ k \in (Len(r) + 1)..(Len(f) - 1)
      BY <1>1, <2>5, <2>7, <2>8, <3>1
    <3>3. Cut(Cut(f, n), k) = Cut(f, k)
      BY <1>0, <2>7, <3>2, CutOfCut
    <3>4. e \in Walk!Ancestors(f, r)
      BY <1>0, <1>2, <2>6, <3>1, <3>2, <3>3
    <3> QED
      BY <2>1, <3>4 DEF Walk!Ignored
  <2>14. Walk!IgnoredPathState(d, r, FALSE)
    BY <2>12, <2>13 DEF Walk!IgnoredByGitignore
  <2> QED
    BY <2>9, <2>10, <2>14 DEF Walk!TakenBack
<1>6. r = f => Walk!Yields(r, f)
  BY DEF Walk!Yields
<1> QED
  BY <1>4, <1>5, <1>6 DEF Finds

-----------------------------------------------------------------------------
(* The arguments to come are the last ones of those given.                   *)
Args(gv, ins) ==
    /\ gv \in Seq(Paths) /\ ins \in Seq(Paths) /\ Len(ins) <= Len(gv)
    /\ \A i \in 1..Len(ins) : ins[i] = gv[(Len(gv) - Len(ins)) + i]

(* The inductive invariant of discover_paths: the list is that of the        *)
(* arguments so far, and a walk is on its way.                               *)
Search(g, gv, ins, S, F0, q, c) ==
    /\ Args(gv, ins) /\ Listing(g, gv, Len(gv) - Len(ins), q)
    /\ c \in {"input", "walk", "failed", "done"}
    /\ c = "input" => F0 = {}
    /\ c = "walk" => Len(ins) > 0 /\ ins[1] \in Walk!Dirs /\ Walking(g, ins[1], S, F0)
    /\ c = "done" => Len(ins) = 0
DiscoveryInv == Search(Ig, dGiven, dInputs, dTodo, dFound, dPaths, dPc)

(* The next argument.                                                        *)
LEMMA NextArgument ==
    ASSUME NEW gv, NEW ins, Args(gv, ins), Len(ins) > 0
    PROVE  /\ Args(gv, Tail(ins)) /\ Len(gv) - Len(ins) \in Nat
           /\ Len(gv) - Len(Tail(ins)) = (Len(gv) - Len(ins)) + 1
           /\ Head(ins) = ins[1] /\ ins[1] \in Paths
           /\ gv[(Len(gv) - Len(ins)) + 1] = ins[1]
<1>1. ins \in Seq(Paths) /\ gv \in Seq(Paths)
  BY DEF Args
<1>2. Len(ins) \in Nat /\ Len(gv) \in Nat /\ Len(ins) <= Len(gv) /\ 1 \in 1..Len(ins)
  BY <1>1, LenProperties DEF Args
<1>3. ins # <<>>
  BY <1>2, EmptySeq
<1>4. PICK t : t = Tail(ins)
  OBVIOUS
<1>5. Head(ins) = ins[1] /\ ins[1] \in Paths
  <2>1. ins[1] \in Paths
    BY <1>1, <1>2, ElementOfSeq
  <2>2. Head(ins) = ins[1]
    OBVIOUS
  <2> QED
    BY <2>1, <2>2
<1>6. t \in Seq(Paths) /\ Len(t) = Len(ins) - 1 /\ \A i \in 1..Len(t) : t[i] = ins[i + 1]
  BY <1>1, <1>3, <1>4, HeadTailProperties
<1>7. gv[(Len(gv) - Len(ins)) + 1] = ins[1]
  BY <1>2 DEF Args
<1>8. ASSUME NEW i \in 1..Len(t) PROVE t[i] = gv[(Len(gv) - Len(t)) + i]
  <2>1. i + 1 \in 1..Len(ins) /\ (Len(gv) - Len(ins)) + (i + 1) = (Len(gv) - Len(t)) + i
    <3>1. PICK x, y, z : x = Len(gv) /\ y = Len(ins) /\ z = Len(t)
      OBVIOUS
    <3>2. x \in Nat /\ y \in Nat /\ z = y - 1 /\ i \in 1..z
      BY <1>2, <1>6, <3>1
    <3>3. i + 1 \in 1..y /\ (x - y) + (i + 1) = (x - z) + i
      BY <3>2
    <3> QED
      BY <3>1, <3>3
  <2>2. ins[i + 1] = gv[(Len(gv) - Len(ins)) + (i + 1)]
    BY <2>1 DEF Args
  <2> QED
    BY <1>6, <2>1, <2>2
<1>9. Args(gv, t)
  BY <1>1, <1>2, <1>6, <1>8 DEF Args
<1>10. Len(gv) - Len(t) = (Len(gv) - Len(ins)) + 1
  <2>1. PICK x, y, z : x = Len(gv) /\ y = Len(ins) /\ z = Len(t)
    OBVIOUS
  <2>2. x \in Nat /\ y \in Nat /\ z = y - 1
    BY <1>2, <1>6, <2>1
  <2>3. x - z = (x - y) + 1
    BY <2>2
  <2> QED
    BY <2>1, <2>3
<1>11. Len(gv) - Len(ins) \in Nat
  BY <1>2
<1>12. Args(gv, Tail(ins)) /\ Len(gv) - Len(Tail(ins)) = (Len(gv) - Len(ins)) + 1
  BY <1>4, <1>9, <1>10
<1> QED
  BY <1>5, <1>7, <1>11, <1>12, Zenon


(* Nothing was looked at yet.                                                *)
LEMMA DiscoveryInitInv == Walk!Init => DiscoveryInv
<1> SUFFICES ASSUME Walk!Init PROVE DiscoveryInv
  OBVIOUS
<1>1. PICK gv : gv = dGiven
  OBVIOUS
<1>2. gv \in Seq(Paths)
  BY <1>1, FilesAssumption DEF Walk!Init, Paths
<1>3. Len(gv) \in Nat
  BY <1>2, LenProperties
<1>4. Args(gv, gv) /\ Len(gv) - Len(gv) = 0
  <2>1. Len(gv) - Len(gv) = 0 /\ Len(gv) <= Len(gv)
    BY <1>3
  <2>2. \A i \in 1..Len(gv) : (Len(gv) - Len(gv)) + i = i
    BY <2>1
  <2> QED
    BY <1>2, <2>1, <2>2 DEF Args
<1>5. dInputs = gv /\ dPaths = <<>> /\ dFound = {} /\ dPc = "input"
  BY <1>1 DEF Walk!Init
<1>6. PICK q : q = dPaths
  OBVIOUS
<1>7. q \in Seq(AllFiles) /\ Len(q) = 0
  BY <1>5, <1>6, EmptySeq
<1>8. Rng(q) = {} /\ 1..Len(q) = {}
  BY <1>7 DEF Rng
<1>9. \A f : ~ByFirst(Ig, gv, 0, f)
  BY DEF ByFirst
<1>10. Listing(Ig, gv, 0, q)
  BY <1>7, <1>8, <1>9 DEF Listing, InPlace
<1> QED
  BY <1>1, <1>4, <1>5, <1>6, <1>10 DEF DiscoveryInv, Search

(* The next argument is a file, a directory to walk, or nothing.             *)
LEMMA TakeInputStep == DiscoveryInv /\ Walk!TakeInput => DiscoveryInv'
<1> SUFFICES ASSUME DiscoveryInv, Walk!TakeInput PROVE DiscoveryInv'
  OBVIOUS
<1>1. PICK g : g = Ig
  OBVIOUS
<1>2. PICK gv : gv = dGiven
  OBVIOUS
<1>3. PICK ins : ins = dInputs
  OBVIOUS
<1>4. PICK q : q = dPaths
  OBVIOUS
<1>5. /\ dPc = "input" /\ ins # <<>> /\ dGiven' = gv /\ dIgnore' = dIgnore /\ dFound' = dFound
  BY <1>2, <1>3 DEF Walk!TakeInput
<1>6. Ig' = g
  BY <1>1, <1>5, IgStays
<1>7. Args(gv, ins) /\ Listing(g, gv, Len(gv) - Len(ins), q) /\ dFound = {}
  BY <1>1, <1>2, <1>3, <1>4, <1>5 DEF DiscoveryInv, Search
<1>8. Len(ins) > 0 /\ ins \in Seq(Paths)
  <2>1. ins \in Seq(Paths)
    BY <1>7 DEF Args
  <2> QED
    BY <1>5, <2>1
<1>9. /\ Args(gv, Tail(ins)) /\ Len(gv) - Len(ins) \in Nat
      /\ Len(gv) - Len(Tail(ins)) = (Len(gv) - Len(ins)) + 1
      /\ Head(ins) = ins[1] /\ ins[1] \in Paths
      /\ gv[(Len(gv) - Len(ins)) + 1] = ins[1]
  BY <1>7, <1>8, NextArgument
<1>10. PICK n : n = Len(gv) - Len(ins)
  OBVIOUS
<1>11. CASE /\ ins[1] \in AllFiles
            /\ dPaths' = Walk!AddPath(q, ins[1]) /\ dInputs' = Tail(ins)
            /\ dTodo' = dTodo /\ dPc' = dPc
  <2>1. Listing(g, gv, n + 1, Walk!AddPath(q, gv[n + 1]))
    BY <1>7, <1>9, <1>10, <1>11, AddFileIs
  <2>2. PICK t : t = Tail(ins)
    OBVIOUS
  <2>3. Args(gv, t) /\ Listing(g, gv, Len(gv) - Len(t), dPaths')
    BY <1>9, <1>10, <1>11, <2>1, <2>2
  <2> QED
    BY <1>5, <1>6, <1>7, <1>11, <2>2, <2>3 DEF DiscoveryInv, Search
<1>12. CASE /\ ins[1] \in Walk!Dirs /\ dTodo' = Children(ins[1]) /\ dPc' = "walk"
            /\ dPaths' = q /\ dInputs' = ins
  <2>1. Walking(g, ins[1], dTodo', dFound')
    BY <1>5, <1>7, <1>12, WalkStarts
  <2> QED
    BY <1>5, <1>6, <1>7, <1>8, <1>12, <2>1 DEF DiscoveryInv, Search
<1>13. CASE dPc' = "failed" /\ dPaths' = q /\ dInputs' = ins
  BY <1>5, <1>6, <1>7, <1>13 DEF DiscoveryInv, Search
<1>14. Walk!Range(Files) = AllFiles
  BY DEF Walk!Range, AllFiles
<1>15. Children(ins[1]) = {e \in Walk!Dirs \cup Walk!Range(Files) : e # <<>> /\ Walk!Parent(e) = ins[1]}
  BY <1>14 DEF Children, Listed
<1> QED
  BY <1>3, <1>4, <1>9, <1>11, <1>12, <1>13, <1>14, <1>15 DEF Walk!TakeInput

(* An entry is visited.                                                      *)
LEMMA VisitStep == DiscoveryInv /\ Walk!Visit => DiscoveryInv'
<1> SUFFICES ASSUME DiscoveryInv, Walk!Visit PROVE DiscoveryInv'
  OBVIOUS
<1>1. PICK g : g = Ig
  OBVIOUS
<1>2. PICK gv : gv = dGiven
  OBVIOUS
<1>3. PICK ins : ins = dInputs
  OBVIOUS
<1>4. PICK S : S = dTodo
  OBVIOUS
<1>0. PICK F0 : F0 = dFound
  OBVIOUS
<1>5. /\ dPc = "walk" /\ dInputs' = ins /\ dGiven' = gv /\ dIgnore' = dIgnore
      /\ dPaths' = dPaths /\ dPc' = "walk"
  BY <1>2, <1>3 DEF Walk!Visit
<1>6. Ig' = g
  BY <1>1, <1>5, IgStays
<1>7. /\ Args(gv, ins) /\ Listing(g, gv, Len(gv) - Len(ins), dPaths)
      /\ Len(ins) > 0 /\ ins[1] \in Walk!Dirs /\ Walking(g, ins[1], S, F0)
  BY <1>0, <1>1, <1>2, <1>3, <1>4, <1>5 DEF DiscoveryInv, Search
<1>8. PICK r : r = ins[1]
  OBVIOUS
<1>9. r \in Paths /\ Head(ins) = r /\ Walking(g, r, S, F0)
  BY <1>7, <1>8, DirsAre
<1>10. PICK e \in S :
         IF e \in Walk!Dirs
           THEN /\ dTodo' = (S \ {e}) \cup
                     (IF ~Walk!IgnoredByGitignore(e, r) /\ Walk!Last(e) \notin Pruned
                        THEN {c \in Walk!Dirs \cup Walk!Range(Files) : c # <<>> /\ Walk!Parent(c) = e}
                        ELSE {})
                /\ dFound' = F0
           ELSE /\ dTodo' = S \ {e}
                /\ dFound' = IF ~Walk!IgnoredByGitignore(e, r) /\ Walk!Last(e) \in Markdown
                             THEN F0 \cup {e} ELSE F0
  BY <1>0, <1>3, <1>4, <1>9 DEF Walk!Visit
<1>11. e \in Paths
  <2>1. Reached(g, e, r)
    BY <1>9 DEF Walking
  <2> QED
    BY <2>1, DirsAre DEF Reached, Listed
<1>12. <<e, r>> \in g <=> Walk!IgnoredByGitignore(e, r)
  BY <1>1, <1>9, <1>11 DEF Ig
<1>13. Children(e) = {c \in Walk!Dirs \cup Walk!Range(Files) : c # <<>> /\ Walk!Parent(c) = e}
  BY DEF Children, Listed, AllFiles, Walk!Range
<1>14. CASE e \in Walk!Dirs
  <2>1. dTodo' = (S \ {e}) \cup (IF Kept(g, e, r) THEN Children(e) ELSE {}) /\ dFound' = F0
    BY <1>10, <1>12, <1>13, <1>14 DEF Kept
  <2>2. Walking(g, r, dTodo', dFound')
    BY <1>9, <1>14, <2>1, VisitDirectory
  <2> QED
    BY <1>5, <1>6, <1>7, <1>8, <2>2 DEF DiscoveryInv, Search
<1>15. CASE e \notin Walk!Dirs
  <2>1. /\ dTodo' = S \ {e}
        /\ dFound' = IF <<e, r>> \notin g /\ Walk!Last(e) \in Markdown THEN F0 \cup {e} ELSE F0
    BY <1>10, <1>12, <1>15
  <2>2. Walking(g, r, dTodo', dFound')
    BY <1>9, <1>15, <2>1, VisitFile
  <2> QED
    BY <1>5, <1>6, <1>7, <1>8, <2>2 DEF DiscoveryInv, Search
<1> QED
  BY <1>14, <1>15

(* A walk is over: what it found is what its root finds.                     *)
LEMMA EndWalkStep == DiscoveryInv /\ Walk!EndWalk => DiscoveryInv'
<1> SUFFICES ASSUME DiscoveryInv, Walk!EndWalk PROVE DiscoveryInv'
  OBVIOUS
<1>1. PICK g : g = Ig
  OBVIOUS
<1>2. PICK gv : gv = dGiven
  OBVIOUS
<1>3. PICK ins : ins = dInputs
  OBVIOUS
<1>4. PICK q : q = dPaths
  OBVIOUS
<1>0. PICK F0 : F0 = dFound
  OBVIOUS
<1>5. /\ dPc = "walk" /\ dTodo = {} /\ dInputs' = Tail(ins) /\ dGiven' = gv /\ dIgnore' = dIgnore
      /\ dPaths' = Walk!AddPaths(q, F0) /\ dPc' = "input" /\ dFound' = {}
  BY <1>0, <1>2, <1>3, <1>4 DEF Walk!EndWalk
<1>6. Ig' = g
  BY <1>1, <1>5, IgStays
<1>7. /\ Args(gv, ins) /\ Listing(g, gv, Len(gv) - Len(ins), q)
      /\ Len(ins) > 0 /\ ins[1] \in Walk!Dirs /\ Walking(g, ins[1], {}, F0)
  BY <1>0, <1>1, <1>2, <1>3, <1>4, <1>5 DEF DiscoveryInv, Search
<1>8. /\ Args(gv, Tail(ins)) /\ Len(gv) - Len(ins) \in Nat
      /\ Len(gv) - Len(Tail(ins)) = (Len(gv) - Len(ins)) + 1
      /\ gv[(Len(gv) - Len(ins)) + 1] = ins[1]
  BY <1>7, NextArgument
<1>9. ins[1] \in Paths
  BY <1>7, DirsAre
<1>10. F0 = {f \in AllFiles : Wanted(g, f, ins[1])}
  BY <1>7, <1>9, WalkEnds
<1>11. PICK n : n = Len(gv) - Len(ins)
  OBVIOUS
<1>12. \A f \in AllFiles : f \in F0 <=> Finds(g, gv[n + 1], f)
  BY <1>7, <1>8, <1>10, <1>11, DirsAre DEF Finds
<1>13. Listing(g, gv, n + 1, Walk!AddPaths(q, F0))
  BY <1>7, <1>8, <1>11, <1>12, AddPathsIs
<1>14. PICK t : t = Tail(ins)
  OBVIOUS
<1>15. Args(gv, t) /\ Listing(g, gv, Len(gv) - Len(t), dPaths')
  BY <1>5, <1>8, <1>11, <1>13, <1>14
<1> QED
  BY <1>5, <1>6, <1>14, <1>15 DEF DiscoveryInv, Search

(* No argument is left.                                                      *)
LEMMA EndInputsStep == DiscoveryInv /\ Walk!EndInputs => DiscoveryInv'
<1> SUFFICES ASSUME DiscoveryInv, Walk!EndInputs PROVE DiscoveryInv'
  OBVIOUS
<1>1. /\ dPc = "input" /\ dInputs = <<>> /\ dPc' \in {"failed", "done"}
      /\ UNCHANGED <<dInputs, dIgnore, dGiven, dTodo, dFound, dPaths>>
  BY DEF Walk!EndInputs
<1>2. Ig' = Ig
  BY <1>1, IgStays
<1>3. Len(dInputs) = 0
  BY <1>1, EmptySeq
<1> QED
  BY <1>1, <1>2, <1>3 DEF DiscoveryInv, Search

(* Every step keeps DiscoveryInv.                                            *)
LEMMA DiscoveryNextInv == DiscoveryInv /\ [Walk!Next]_Walk!vars => DiscoveryInv'
<1> SUFFICES ASSUME DiscoveryInv, [Walk!Next]_Walk!vars PROVE DiscoveryInv'
  OBVIOUS
<1>1. CASE UNCHANGED Walk!vars
  <2>1. UNCHANGED <<dInputs, dIgnore, dGiven, dTodo, dFound, dPaths, dPc>>
    BY <1>1 DEF Walk!vars
  <2>2. Ig' = Ig
    BY <2>1, IgStays
  <2> QED
    BY <2>1, <2>2 DEF DiscoveryInv
<1>2. CASE Walk!Done
  BY <1>1, <1>2 DEF Walk!Done
<1> QED
  BY <1>1, <1>2, TakeInputStep, VisitStep, EndWalkStep, EndInputsStep DEF Walk!Next

-----------------------------------------------------------------------------
(* The first argument that yields a file.                                    *)
LEMMA FirstYields ==
    ASSUME NEW n \in Nat, dGiven \in Seq(Paths), Len(dGiven) = n, NEW f,
           NEW i \in 1..n, Walk!Yields(dGiven[i], f)
    PROVE  /\ Walk!First(f) \in 1..n /\ Walk!Yields(dGiven[Walk!First(f)], f)
           /\ \A j \in 1..(Walk!First(f) - 1) : ~Walk!Yields(dGiven[j], f)
<1>1. DOMAIN dGiven = 1..n
  BY LenProperties
<1> DEFINE T == {k \in 1..n : Walk!Yields(dGiven[k], f)}
<1>2. T \subseteq Nat /\ T # {}
  OBVIOUS
<1>3. PICK k \in T : \A l \in T : k <= l
  <2> HIDE DEF T
  <2> QED
    BY <1>2, LeastOf
<1>4. k \in 1..n /\ Walk!Yields(dGiven[k], f)
  BY <1>3
<1>5. ASSUME NEW j \in 1..(k - 1) PROVE ~Walk!Yields(dGiven[j], f)
  <2>1. j \in 1..n /\ ~(k <= j)
    BY <1>4
  <2> QED
    BY <1>3, <2>1
<1>6. \E l \in DOMAIN dGiven :
        Walk!Yields(dGiven[l], f) /\ \A j \in 1..(l - 1) : ~Walk!Yields(dGiven[j], f)
  BY <1>1, <1>4, <1>5
<1> QED
  BY <1>1, <1>6 DEF Walk!First

(* The first argument that finds a file is the first that yields it, or that *)
(* one has the file below a directory that was taken back.                   *)
LEMMA FirstAt ==
    ASSUME NEW n \in Nat, dGiven \in Seq(Paths), Len(dGiven) = n, NEW f \in AllFiles,
           NEW k \in 1..n, At(Ig, dGiven, k, f)
    PROVE  \/ Walk!First(f) = k
           \/ Walk!TakenBack(f, dGiven[Walk!First(f)])
<1>1. \A i \in 1..n : dGiven[i] \in Paths
  BY ElementOfSeq
<1>2. Finds(Ig, dGiven[k], f) /\ \A j \in 1..(k - 1) : ~Finds(Ig, dGiven[j], f)
  BY DEF At
<1>3. Walk!Yields(dGiven[k], f)
  BY <1>1, <1>2, FindsYields
<1>4. PICK m : m = Walk!First(f)
  OBVIOUS
<1>5. /\ m \in 1..n /\ Walk!Yields(dGiven[m], f)
      /\ \A j \in 1..(m - 1) : ~Walk!Yields(dGiven[j], f)
  BY <1>3, <1>4, FirstYields
<1>6. ~(k \in 1..(m - 1))
  BY <1>3, <1>5
<1>7. CASE m # k
  <2>1. m \in 1..(k - 1)
    BY <1>5, <1>6, <1>7
  <2>2. ~Finds(Ig, dGiven[m], f)
    BY <1>2, <2>1
  <2>3. Walk!TakenBack(f, dGiven[m])
    BY <1>1, <1>5, <2>2, FindsYields
  <2> QED
    BY <1>4, <2>3
<1> QED
  BY <1>4, <1>7

(* The list of the invariant is the one that DiscoveryExact asks for.        *)
LEMMA DiscoveryInvExact == DiscoveryInv => DiscoveryExact
<1> SUFFICES ASSUME DiscoveryInv, dPc = "done" PROVE
        /\ \A f \in AllFiles :
             /\ f \in Rng(dPaths) => \E i \in DOMAIN dGiven : Walk!Yields(dGiven[i], f)
             /\ \A i \in DOMAIN dGiven :
                   Walk!Yields(dGiven[i], f) => f \in Rng(dPaths) \/ Walk!TakenBack(f, dGiven[i])
        /\ Walk!IsInjective(dPaths)
        /\ \A i, j \in DOMAIN dPaths : i < j =>
             LET p == dPaths[i]
                 q == dPaths[j]
             IN \/ Walk!First(p) < Walk!First(q)
                \/ Walk!First(p) = Walk!First(q) /\ Walk!Rank(p) < Walk!Rank(q)
                \/ Walk!TakenBack(q, dGiven[Walk!First(q)])
                \/ Walk!TakenBack(p, dGiven[Walk!First(p)])
  <2>1. Walk!Range(Files) = AllFiles
    BY DEF Walk!Range, AllFiles
  <2>2. DiscoveryInv => DOMAIN dPaths = 1..Len(dPaths)
    BY LenProperties DEF DiscoveryInv, Search, Listing, InPlace
  <2>3. DiscoveryInv => Walk!Range(dPaths) = Rng(dPaths)
    BY <2>2 DEF Walk!Range, Rng
  <2> QED
    BY <2>1, <2>3 DEF DiscoveryExact, Walk!DiscoveryExact
<1>1. PICK q : q = dPaths
  OBVIOUS
<1>2. PICK n : n = Len(dGiven)
  OBVIOUS
<1>3. Args(dGiven, dInputs) /\ Len(dInputs) = 0 /\ Listing(Ig, dGiven, Len(dGiven) - Len(dInputs), q)
  BY <1>1 DEF DiscoveryInv, Search
<1>4. dGiven \in Seq(Paths) /\ n \in Nat /\ DOMAIN dGiven = 1..n /\ Len(dGiven) - Len(dInputs) = n
  <2>1. dGiven \in Seq(Paths)
    BY <1>3 DEF Args
  <2>2. n \in Nat /\ DOMAIN dGiven = 1..n
    BY <1>2, <2>1, LenProperties
  <2> QED
    BY <1>2, <1>3, <2>1, <2>2
<1>5. Listing(Ig, dGiven, n, q)
  BY <1>3, <1>4
<1>6. \A i \in 1..n : dGiven[i] \in Paths
  BY <1>2, <1>4, ElementOfSeq
<1>7. \A f \in AllFiles : f \in Rng(q) <=> \E k \in 1..n : Finds(Ig, dGiven[k], f)
  BY <1>5 DEF Listing, ByFirst
<1>8. ASSUME NEW f \in AllFiles
      PROVE  /\ f \in Rng(q) => \E i \in 1..n : Walk!Yields(dGiven[i], f)
             /\ \A i \in 1..n :
                   Walk!Yields(dGiven[i], f) => f \in Rng(q) \/ Walk!TakenBack(f, dGiven[i])
  BY <1>6, <1>7, FindsYields
<1>9. /\ q \in Seq(AllFiles)
      /\ \A a \in 1..Len(q) : \A b \in 1..Len(q) : q[a] = q[b] => a = b
      /\ \A a \in 1..Len(q) : \A b \in 1..Len(q) : a < b => Earlier(Ig, dGiven, n, q[a], q[b])
  BY <1>5 DEF Listing, InPlace
<1>10. DOMAIN q = 1..Len(q) /\ \A a \in 1..Len(q) : q[a] \in AllFiles
  BY <1>9, LenProperties, ElementOfSeq
<1>11. Walk!IsInjective(q)
  BY <1>9, <1>10 DEF Walk!IsInjective
<1>12. ASSUME NEW i \in 1..Len(q), NEW j \in 1..Len(q), i < j
       PROVE  \/ Walk!First(q[i]) < Walk!First(q[j])
              \/ Walk!First(q[i]) = Walk!First(q[j]) /\ Walk!Rank(q[i]) < Walk!Rank(q[j])
              \/ Walk!TakenBack(q[j], dGiven[Walk!First(q[j])])
              \/ Walk!TakenBack(q[i], dGiven[Walk!First(q[i])])
  <2>1. PICK p, r : p = q[i] /\ r = q[j] /\ p \in AllFiles /\ r \in AllFiles
    BY <1>10
  <2>2. Earlier(Ig, dGiven, n, p, r)
    BY <1>9, <1>12, <2>1
  <2>3. PICK k \in 1..n, l \in 1..n :
          /\ At(Ig, dGiven, k, p) /\ At(Ig, dGiven, l, r)
          /\ k < l \/ (k = l /\ Walk!Rank(p) < Walk!Rank(r))
    BY <2>2 DEF Earlier
  <2>4. Walk!First(p) = k \/ Walk!TakenBack(p, dGiven[Walk!First(p)])
    BY <1>2, <1>4, <2>1, <2>3, FirstAt
  <2>5. Walk!First(r) = l \/ Walk!TakenBack(r, dGiven[Walk!First(r)])
    BY <1>2, <1>4, <2>1, <2>3, FirstAt
  <2> QED
    BY <2>1, <2>3, <2>4, <2>5
<1> QED
  BY <1>1, <1>4, <1>8, <1>10, <1>11, <1>12

(* In whatever order directories are listed, the documents are those the     *)
(* arguments name and those below them that no .gitignore rule leaves out,   *)
(* each once and in order. (discover_paths, ignored_by_gitignore)            *)
THEOREM DiscoveryCorrect == Walk!Spec => []DiscoveryExact
  BY DiscoveryInitInv, DiscoveryNextInv, DiscoveryInvExact, PTL DEF Walk!Spec

=============================================================================
