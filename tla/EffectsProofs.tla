---------------------------- MODULE EffectsProofs ----------------------------
(***************************************************************************)
(* Proofs about components MCEffects puts side by side: Egress, for every    *)
(* set of hosts, addresses, policies and plans, whatever name service        *)
(* answers, and any number of redirects and retries; Records, for any number *)
(* of `mdok record` and `mdok replay` processes on one path that interleave  *)
(* and crash at any point; Reports, for metadata vectors of any length and   *)
(* any number of documents, steps and checks;                                *)
(* Bodies, for bodies of any length and any way to read them; and Disk, for  *)
(* any file system, links and roots, and any number of foreign steps.        *)
(***************************************************************************)
EXTENDS MCEffects, SequenceTheorems, WellFoundedInduction, TLAPS

(* Where the client is before, and past, the checks of check_url.             *)
Early == {"parse", "check"}
Late == {"native", "build", "attempt", "sent"}

(* Past the checks, the URL the client is at and the one a retry goes back   *)
(* to are allowed; before them they are the same.                            *)
UrlInv ==
    /\ pc \in Early => url = target
    /\ pc \in Late => CheckUrl(policy, url) /\ CheckUrl(policy, target)

(* Past parsing, the plan names a proxy or an address only where the policy  *)
(* lets it.                                                                  *)
PlanAdmitted ==
    /\ plan.proxy # None => policy.proxy
    /\ plan.resolve # None => CheckSocketAddress(policy, plan.resolve.addr)
PlanInv == pc # "parse" /\ pc # "returned" => PlanAdmitted

(* The client is pinned to addresses the policy allows.                      *)
PinInv == \A p \in pins : CheckSocketAddress(policy, p.addr)

(* libcurl is only given what it will not look up, unless any address may be *)
(* connected to.                                                             *)
NativeInv == pc = "native" => policy.private \/ url.host.kind = "v4"

(* Connections are made for allowed URLs, to addresses the policy lets        *)
(* through or to a proxy given as an address.                                *)
Admitted ==
    \A c \in connections :
        /\ CheckUrl(policy, c.url)
        /\ \/ CheckSocketAddress(policy, c.addr)
           \/ policy.proxy /\ c.peer = plan.proxy /\ c.peer.kind # "name"

IInv == UrlInv /\ PlanInv /\ PinInv /\ NativeInv /\ Admitted

-----------------------------------------------------------------------------
(* An address in an allowed URL is an allowed address.                       *)
LEMMA LiteralAllowed ==
    ASSUME NEW p, NEW u, CheckUrl(p, u), u.host.kind # "name"
    PROVE  CheckSocketAddress(p, u.host.addr)
  BY DEF CheckUrl, CheckSocketAddress

(* The resolver of the client answers with allowed addresses only.           *)
LEMMA ResolverAllowed ==
    ASSUME NEW answer, NEW a \in PolicyDnsResolver(answer)
    PROVE  CheckSocketAddress(policy, a)
  BY DEF PolicyDnsResolver, ResolveHost

(* Every address the client can connect to is allowed, or is the literal     *)
(* address of an admitted proxy.                                             *)
LEMMA ClientAllowed ==
    ASSUME IInv, pc = "attempt", NEW answer,
           NEW peer, peer = (IF plan.proxy = None THEN url.host ELSE plan.proxy),
           NEW a \in ClientAddresses(peer, answer)
    PROVE  \/ CheckSocketAddress(policy, a)
           \/ policy.proxy /\ peer = plan.proxy /\ peer.kind # "name"
<1> DEFINE idle == {c.addr : c \in {d \in connections : d.peer = peer}}
           pinned == {p \in pins : p.host = peer}
<1>1. CASE a \in idle
  <2>1. PICK c \in connections : c.peer = peer /\ c.addr = a
    BY <1>1
  <2> QED  BY <2>1 DEF IInv, Admitted
<1>2. CASE peer.kind # "name" /\ a = peer.addr
  <2>1. CASE plan.proxy = None
    <3>1. CheckUrl(policy, url)
      BY DEF IInv, UrlInv, Late
    <3> QED  BY <1>2, <2>1, <3>1, LiteralAllowed
  <2>2. CASE plan.proxy # None
    <3>1. policy.proxy
      BY <2>2 DEF IInv, PlanInv, PlanAdmitted
    <3> QED  BY <1>2, <2>2, <3>1
  <2> QED  BY <2>1, <2>2
<1>3. CASE a \in {p.addr : p \in pinned}
  BY <1>3 DEF IInv, PinInv
<1>4. CASE a \in PolicyDnsResolver(answer)
  BY <1>4, ResolverAllowed
<1> QED  BY <1>1, <1>2, <1>3, <1>4 DEF ClientAddresses

-----------------------------------------------------------------------------
(* A behaviour starts with no connection and with a URL still to be checked; *)
(* a child request of a script has no plan that could name an address.       *)
LEMMA InitIInv == Init => IInv
<1> SUFFICES ASSUME Init PROVE IInv
  OBVIOUS
<1>1. UrlInv
  BY DEF Init, UrlInv, Early, Late
<1>2. PlanInv
  BY DEF Init, PlanInv, PlanAdmitted, NoPlan
<1> QED  BY <1>1, <1>2 DEF Init, IInv, PinInv, NativeInv, Admitted

(* The end of an attempt goes back to the plan's URL, or returns.            *)
LEMMA AttemptEndsIInv ==
    ASSUME IInv, pc \in Late, NEW answer, AttemptEnds(answer),
           UNCHANGED <<mode, policy, plan, target, pins, connections>>
    PROVE  IInv'
<1>1. CASE Return(answer) /\ UNCHANGED <<url, hops, attempt>>
  BY <1>1 DEF Return, IInv, UrlInv, PlanInv, PinInv, NativeInv, Admitted, Early, Late
<1>2. CASE url' = target /\ GoTo("attempt")
  BY <1>2 DEF GoTo, IInv, UrlInv, PlanInv, PlanAdmitted, PinInv, NativeInv, Admitted,
              Early, Late
<1> QED  BY <1>1, <1>2 DEF AttemptEnds

(* A connection that is allowed keeps what is known of the others.           *)
LEMMA ConnectionAllowed ==
    ASSUME Admitted, CheckUrl(policy, url), NEW peer, NEW a, NEW via,
           \/ CheckSocketAddress(policy, a)
           \/ policy.proxy /\ peer = plan.proxy /\ peer.kind # "name",
           connections' = connections \cup {Connection(peer, a, via)},
           UNCHANGED <<policy, plan>>
    PROVE  Admitted'
<1> SUFFICES ASSUME NEW c \in connections'
             PROVE  /\ CheckUrl(policy, c.url)
                    /\ \/ CheckSocketAddress(policy, c.addr)
                       \/ policy.proxy /\ c.peer = plan.proxy /\ c.peer.kind # "name"
  BY DEF Admitted
<1>1. CASE c \in connections
  BY <1>1 DEF Admitted
<1>2. CASE c = Connection(peer, a, via)
  <2>1. c.url = url /\ c.peer = peer /\ c.addr = a
    BY <1>2 DEF Connection
  <2> QED  BY <2>1
<1> QED  BY <1>1, <1>2

(* Every step keeps the invariant.                                           *)
LEMMA NextIInv == IInv /\ [Next]_vars => IInv'
<1> SUFFICES ASSUME IInv, [Next]_vars PROVE IInv'
  OBVIOUS
<1>1. CASE Parse
  BY <1>1 DEF Parse, ParseAccepts, GoTo, Return, IInv, UrlInv, PlanInv, PlanAdmitted, PinInv,
              NativeInv, Admitted, Early, Late
<1>2. CASE Check
  <2>1. PICK answer \in Answers(url.host) :
            IF EnforceUrl(policy, url, answer)
              THEN GoTo(IF NativeEligible THEN "native" ELSE "build")
              ELSE Return("refused")
    BY <1>2 DEF Check
  <2> UNCHANGED <<mode, policy, plan, target, pins, url, hops, attempt, connections>>
    BY <1>2 DEF Check
  <2> pc = "check"
    BY <1>2 DEF Check
  <2>2. CASE EnforceUrl(policy, url, answer)
    <3>1. pc' = IF NativeEligible THEN "native" ELSE "build"
      BY <2>1, <2>2 DEF GoTo
    <3>2. CheckUrl(policy, url) /\ url = target
      BY <2>2 DEF EnforceUrl, IInv, UrlInv, Early
    <3>3. NativeEligible => policy.private \/ url.host.kind = "v4"
      BY DEF NativeEligible
    <3> QED  BY <3>1, <3>2, <3>3
             DEF IInv, UrlInv, PlanInv, PlanAdmitted, PinInv, NativeInv, Admitted, Early,
                 Late
  <2>3. CASE ~EnforceUrl(policy, url, answer)
    BY <2>1, <2>3 DEF Return, IInv, UrlInv, PlanInv, PinInv, NativeInv, Admitted, Early,
                      Late
  <2> QED  BY <2>2, <2>3
<1>3. CASE Native
  <2>1. PICK a \in (IF url.host.kind = "name" THEN Addresses ELSE {url.host.addr}) :
            connections' = connections \cup {Connection(url.host, a, "libcurl")}
    BY <1>3 DEF Native
  <2>2. pc = "native" /\ CheckUrl(policy, url)
    BY <1>3 DEF Native, IInv, UrlInv, Late
  <2>3. CheckSocketAddress(policy, a)
    <3>1. CASE policy.private
      BY <3>1 DEF CheckSocketAddress
    <3>2. CASE url.host.kind = "v4"
      BY <3>2, <2>1, <2>2, LiteralAllowed
    <3> QED  BY <3>1, <3>2, <2>2 DEF IInv, NativeInv
  <2>4. Admitted'
    BY <1>3, <2>1, <2>2, <2>3, ConnectionAllowed DEF Native, IInv
  <2> QED  BY <1>3, <2>4 DEF Native, Return, IInv, UrlInv, PlanInv, PinInv, NativeInv, Early, Late
<1>4. CASE Build
  <2> DEFINE given == IF plan.resolve = None THEN {} ELSE {plan.resolve}
  <2>1. /\ pc = "build"
        /\ UNCHANGED <<mode, policy, plan, target, url, hops, attempt, connections>>
    BY <1>4 DEF Build
  <2>2. \A p \in given : CheckSocketAddress(policy, p.addr)
    BY <2>1 DEF IInv, PlanInv, PlanAdmitted
  <2>3. PinInv' /\ (GoTo("attempt") \/ Return("refused"))
    <3>1. CASE pins' = given /\ GoTo("attempt")
      BY <3>1, <2>1, <2>2 DEF PinInv
    <3>2. ASSUME NEW answer \in Answers(plan.connectTo.to), ResolveHost(policy, answer),
                 NEW a \in answer,
                 pins' = {p \in given : p.host # plan.connectTo.host}
                         \cup {Pin(plan.connectTo.host, a)},
                 GoTo("attempt")
          PROVE  PinInv' /\ GoTo("attempt")
      <4>1. CheckSocketAddress(policy, a)
        BY <3>2 DEF ResolveHost
      <4>2. Pin(plan.connectTo.host, a).addr = a
        BY DEF Pin
      <4> HIDE DEF given
      <4> QED  BY <3>2, <4>1, <4>2, <2>1, <2>2 DEF PinInv
    <3>3. CASE Return("refused") /\ UNCHANGED pins
      BY <3>3, <2>1 DEF IInv, PinInv
    <3> QED  BY <1>4, <3>1, <3>2, <3>3 DEF Build
  <2>4. (Admitted /\ NativeInv /\ UrlInv /\ PlanInv)'
    BY <2>1, <2>3 DEF GoTo, Return, IInv, UrlInv, PlanInv, PlanAdmitted, NativeInv,
                      Admitted, Early, Late
  <2> QED  BY <2>3, <2>4 DEF IInv
<1>5. CASE Connect
  <2> DEFINE peer == IF plan.proxy = None THEN url.host ELSE plan.proxy
  <2>1. pc = "attempt" /\ UNCHANGED <<mode, policy, plan, target, pins>>
    BY <1>5 DEF Connect
  <2>2. PICK answer \in Answers(peer) :
            \/ AttemptEnds("failed") /\ UNCHANGED connections
            \/ \E a \in ClientAddresses(peer, answer) :
                  /\ connections' = connections \cup {Connection(peer, a, "client")}
                  /\ GoTo("sent") /\ UNCHANGED <<url, hops, attempt>>
    BY <1>5 DEF Connect
  <2>3. CASE AttemptEnds("failed") /\ UNCHANGED connections
    BY <2>1, <2>3, AttemptEndsIInv DEF Late
  <2>4. ASSUME NEW a \in ClientAddresses(peer, answer),
               connections' = connections \cup {Connection(peer, a, "client")},
               GoTo("sent"), UNCHANGED <<url, hops, attempt>>
        PROVE  IInv'
    <3>1. \/ CheckSocketAddress(policy, a)
          \/ policy.proxy /\ peer = plan.proxy /\ peer.kind # "name"
      BY <2>1, ClientAllowed
    <3>2. CheckUrl(policy, url)
      BY <2>1 DEF IInv, UrlInv, Late
    <3>3. Admitted'
      <4> HIDE DEF peer
      <4> QED  BY <2>1, <2>4, <3>1, <3>2, ConnectionAllowed DEF IInv
    <3> QED  BY <2>1, <2>4, <3>3 DEF GoTo, IInv, UrlInv, PlanInv, PlanAdmitted, PinInv, NativeInv,
                                     Early, Late
  <2> QED  BY <2>2, <2>3, <2>4
<1>6. CASE Redirect
  <2>1. pc = "sent" /\ UNCHANGED <<mode, policy, plan, target, pins, connections>>
    BY <1>6 DEF Redirect
  <2>2. PICK u \in Urls : \E answer \in Answers(u.host) :
            IF EnforceUrl(policy, u, answer) /\ hops + 1 <= MaxRedirs
              THEN url' = u /\ hops' = hops + 1 /\ GoTo("attempt") /\ UNCHANGED attempt
              ELSE AttemptEnds("failed")
    BY <1>6 DEF Redirect
  <2>3. CASE AttemptEnds("failed")
    BY <2>1, <2>3, AttemptEndsIInv DEF Late
  <2>4. CASE CheckUrl(policy, u) /\ url' = u /\ GoTo("attempt")
    BY <2>1, <2>4 DEF GoTo, IInv, UrlInv, PlanInv, PlanAdmitted, PinInv, NativeInv,
                      Admitted, Early, Late
  <2> QED  BY <2>2, <2>3, <2>4 DEF EnforceUrl
<1>7. CASE Respond
  BY <1>7, AttemptEndsIInv DEF Respond, Late
<1>8. CASE UNCHANGED vars
  BY <1>8 DEF vars, IInv, UrlInv, PlanInv, PlanAdmitted, PinInv, NativeInv, Admitted
<1> QED  BY <1>1, <1>2, <1>3, <1>4, <1>5, <1>6, <1>7, <1>8 DEF Next, Done

(* Egress keeps the invariant.                                               *)
THEOREM Inductive == Spec => []IInv
  BY InitIInv, NextIInv, PTL DEF Spec

(* What the policy lets through is outside a private network, or ::1.        *)
LEMMA LetThrough ==
    ASSUME NEW p, NEW a, CheckSocketAddress(p, a)
    PROVE  p.private \/ ~Internal(a) \/ IPv6Loopback(a)
<1> SUFFICES ASSUME ~DeniedAddress(a), Internal(a) PROVE IPv6Loopback(a)
  BY DEF CheckSocketAddress
<1>1. CASE a.family = "v4"
  BY <1>1 DEF DeniedAddress, Internal, DeniedV4
<1>2. CASE a.family # "v4" /\ a.class \in {"mapped", "compatible"}
  <2>1. ToIpv4(a) = {a.of}
    BY <1>2 DEF ToIpv4
  <2>2. a.of \notin DeniedV4
    BY <1>2, <2>1 DEF DeniedAddress
  <2> QED  BY <1>2, <2>2 DEF Internal, DeniedV4
<1>3. CASE a.family # "v4" /\ a.class = "unspecified"
  <2>1. ToIpv4(a) = {"unspecified"}
    BY <1>3 DEF ToIpv4
  <2> QED  BY <1>3, <2>1 DEF DeniedAddress, DeniedV4
<1>4. CASE a.family # "v4" /\ a.class \in {"link_local", "unique_local"}
  <2>1. ToIpv4(a) = {}
    BY <1>4 DEF ToIpv4
  <2> QED  BY <1>4, <2>1 DEF DeniedAddress
<1>5. CASE a.family # "v4" /\ a.class = "loopback"
  BY <1>5 DEF IPv6Loopback
<1> QED  BY <1>1, <1>2, <1>3, <1>4, <1>5 DEF Internal

(* EgressConfined: whatever name service answers to each lookup, wherever    *)
(* servers redirect, for every policy and plan, connections are only made    *)
(* for allowed URLs and, with the private network closed, to addresses       *)
(* outside of one, but for a proxy given as an address and for ::1           *)
(* (CurlPolicy, PolicyDnsResolver, the redirect closures, native_eligible).  *)
THEOREM EgressCorrect == Spec => []EgressConfined
<1>1. IInv => EgressConfined
  BY LetThrough DEF IInv, Admitted, EgressConfined
<1> QED  BY Inductive, <1>1, PTL

-----------------------------------------------------------------------------
(* Recorders that have put their source in place and not failed since.       *)
Owning == {"checkManifest", "persistManifest", "undo", "recorded"}

(* A recorder past its load has a configuration.                             *)
LoadedInv == \A w \in Recorders : cRec[w].pc \notin {"load", "crashed"} => cRec[w].cfg \in Configs

(* A manifest is the last thing a recorder writes: it names one that is done. *)
ManifestInv ==
    cManifest # Nothing =>
        \/ cManifest.src = Old
        \/ cManifest.src \in Recorders /\ cRec[cManifest.src].pc = "recorded"

(* Without --force a source can be removed by its own recorder only.         *)
OwnerInv ==
    Records!NobodyForces => \A w \in Recorders : cRec[w].pc \in Owning => cSource = w

(* A strict replay that goes on has read the source of one that is done.     *)
ReplayInv ==
    \A r \in Replayers : cStrict[r] /\ cRep[r].pc \in {"run", "ran"} =>
        \/ cRep[r].src = Old
        \/ cRep[r].src \in Recorders /\ cRec[cRep[r].src].pc = "recorded"

(* The inductive invariant of recorders and replays.                         *)
RecordsInv ==
    /\ Records!TypeOK /\ LoadedInv /\ ManifestInv /\ OwnerInv /\ RecordingsSurvive
    /\ ReplayInv

-----------------------------------------------------------------------------
(* One recorder moves: its record is the new one, the others keep theirs.    *)
LEMMA MoveIs ==
    ASSUME Records!TypeOK, NEW w \in Recorders, NEW l \in Records!RecPcs,
           NEW c \in Configs \cup {Nothing}, cRec' = [cRec EXCEPT ![w] = Records!RecAt(l, c)]
    PROVE  /\ cRec' \in [Recorders -> [pc : Records!RecPcs, cfg : Configs \cup {Nothing}]]
           /\ cRec'[w].pc = l /\ cRec'[w].cfg = c
           /\ \A v \in Recorders : v # w => cRec'[v] = cRec[v]
<1>1. cRec \in [Recorders -> [pc : Records!RecPcs, cfg : Configs \cup {Nothing}]]
  BY DEF Records!TypeOK
<1>2. /\ Records!RecAt(l, c) \in [pc : Records!RecPcs, cfg : Configs \cup {Nothing}]
      /\ Records!RecAt(l, c).pc = l /\ Records!RecAt(l, c).cfg = c
  BY DEF Records!RecAt
<1> QED
  BY <1>1, <1>2

(* A recorder that is not done moves on, and touches neither file: that      *)
(* includes every refusal, every failure before a rename and every crash.    *)
LEMMA QuietStep ==
    ASSUME RecordsInv, NEW w \in Recorders, NEW l \in Records!RecPcs,
           NEW c \in Configs \cup {Nothing}, cRec' = [cRec EXCEPT ![w] = Records!RecAt(l, c)],
           cRec[w].pc # "recorded", l # "recorded",
           l \in Owning => cRec[w].pc \in Owning,
           l \notin {"load", "crashed"} => c \in Configs,
           UNCHANGED <<cConfig, cSource, cManifest, cForce, cStrict, cRep>>
    PROVE  RecordsInv'
<1>1. /\ cRec' \in [Recorders -> [pc : Records!RecPcs, cfg : Configs \cup {Nothing}]]
      /\ cRec'[w].pc = l /\ cRec'[w].cfg = c
      /\ \A v \in Recorders : v # w => cRec'[v] = cRec[v]
  BY MoveIs DEF RecordsInv
<1>2. Records!TypeOK'
  BY <1>1 DEF RecordsInv, Records!TypeOK
<1>3. LoadedInv' /\ OwnerInv'
  BY <1>1 DEF RecordsInv, LoadedInv, OwnerInv, Records!NobodyForces
<1>4. \A v \in Recorders : cRec[v].pc = "recorded" => cRec'[v] = cRec[v]
  BY <1>1
<1>5. \A v \in Recorders : cRec'[v].pc = "recorded" => cRec'[v] = cRec[v]
  BY <1>1
<1>6. ManifestInv'
  BY <1>4 DEF RecordsInv, ManifestInv
<1>7. RecordingsSurvive'
  BY <1>5 DEF RecordsInv, RecordingsSurvive, Records!RecordingsSurvive, Records!NobodyForces
<1>8. ReplayInv'
  BY <1>4 DEF RecordsInv, ReplayInv
<1> QED
  BY <1>2, <1>3, <1>6, <1>7, <1>8 DEF RecordsInv

(* The first half of a recording: checks and failures of the recorder.       *)
LEMMA LoadStep ==
    ASSUME RecordsInv, NEW w \in Recorders, Records!Load(w)
    PROVE  RecordsInv'
<1>1. /\ cRec[w].pc = "load" /\ cRec' = [cRec EXCEPT ![w] = Records!RecAt("checkSource", cConfig)]
      /\ UNCHANGED <<cConfig, cSource, cManifest, cForce, cStrict, cRep>>
  BY DEF Records!Load
<1>2. cConfig \in Configs /\ "checkSource" \in Records!RecPcs /\ "checkSource" \notin Owning
  BY DEF RecordsInv, Records!TypeOK, Records!RecPcs, Owning
<1> QED
  BY <1>1, <1>2, QuietStep

(* So do the checks before each rename, and a crash anywhere.                *)
LEMMA CheckStep ==
    ASSUME RecordsInv, NEW w \in Recorders,
           Records!CheckSource(w) \/ Records!CheckManifest(w) \/ Records!Crash(w)
    PROVE  RecordsInv'
<1>1. cRec[w].cfg \in Configs \cup {Nothing} /\ cRec[w].pc \in Records!RecPcs
  BY DEF RecordsInv, Records!TypeOK
<1>2. PICK l \in {"failed", "persistSource", "undo", "persistManifest", "crashed"} :
        /\ cRec' = [cRec EXCEPT ![w] = Records!RecAt(l, cRec[w].cfg)]
        /\ l \in {"failed", "persistSource"} => cRec[w].pc = "checkSource"
        /\ l \in {"undo", "persistManifest"} => cRec[w].pc = "checkManifest"
        /\ cRec[w].pc # "recorded"
  BY DEF Records!CheckSource, Records!CheckManifest, Records!Crash, Records!Goto
<1>3. UNCHANGED <<cConfig, cSource, cManifest, cForce, cStrict, cRep>>
  BY DEF Records!CheckSource, Records!CheckManifest, Records!Crash
<1>4. l \in Records!RecPcs /\ l # "recorded" /\ (l \in Owning => cRec[w].pc \in Owning)
  BY <1>2 DEF Records!RecPcs, Owning
<1>5. l \notin {"load", "crashed"} => cRec[w].cfg \in Configs
  BY <1>2 DEF RecordsInv, LoadedInv
<1> QED
  BY <1>1, <1>2, <1>3, <1>4, <1>5, QuietStep

(* The source is renamed into place: without --force nobody owned it.        *)
LEMMA PersistSourceStep ==
    ASSUME RecordsInv, NEW w \in Recorders, Records!PersistSource(w)
    PROVE  RecordsInv'
<1>1. cRec[w].pc = "persistSource" /\ cRec[w].cfg \in Configs
  BY DEF Records!PersistSource, RecordsInv, LoadedInv
<1>2. CASE ~(cForce[w] \/ cSource = Nothing)
  <2>1. /\ cRec' = [cRec EXCEPT ![w] = Records!RecAt("failed", cRec[w].cfg)]
        /\ UNCHANGED <<cConfig, cSource, cManifest, cForce, cStrict, cRep>>
    BY <1>2 DEF Records!PersistSource, Records!Goto
  <2>2. "failed" \in Records!RecPcs /\ "failed" \notin Owning
    BY DEF Records!RecPcs, Owning
  <2> QED
    BY <1>1, <2>1, <2>2, QuietStep
<1>3. CASE cForce[w] \/ cSource = Nothing
  <2>1. /\ cRec' = [cRec EXCEPT ![w] = Records!RecAt("checkManifest", cRec[w].cfg)]
        /\ cSource' = w /\ UNCHANGED <<cConfig, cManifest, cForce, cStrict, cRep>>
    BY <1>3 DEF Records!PersistSource, Records!Goto
  <2>2. "checkManifest" \in Records!RecPcs
    BY DEF Records!RecPcs
  <2>3. /\ cRec' \in [Recorders -> [pc : Records!RecPcs, cfg : Configs \cup {Nothing}]]
        /\ cRec'[w].pc = "checkManifest" /\ cRec'[w].cfg = cRec[w].cfg
        /\ \A v \in Recorders : v # w => cRec'[v] = cRec[v]
    BY <1>1, <2>1, <2>2, MoveIs DEF RecordsInv
  <2>4. Records!NobodyForces => \A v \in Recorders : cRec[v].pc \notin Owning
    BY <1>3, NothingAssumption DEF RecordsInv, OwnerInv, Records!NobodyForces
  <2>5. Records!TypeOK'
    BY <2>1, <2>3 DEF RecordsInv, Records!TypeOK, Records!Sources
  <2>6. LoadedInv' /\ ManifestInv' /\ ReplayInv'
    <3>1. \A v \in Recorders : cRec[v].pc = "recorded" => cRec'[v] = cRec[v]
      BY <1>1, <2>3
    <3> QED
      BY <1>1, <2>1, <2>3, <3>1 DEF RecordsInv, LoadedInv, ManifestInv, ReplayInv
  <2>7. OwnerInv'
    BY <2>1, <2>3, <2>4 DEF OwnerInv, Records!NobodyForces
  <2>8. RecordingsSurvive'
    BY <2>1, <2>3, <2>4 DEF RecordingsSurvive, Records!RecordingsSurvive, Records!NobodyForces,
                            Owning
  <2> QED
    BY <2>5, <2>6, <2>7, <2>8 DEF RecordsInv
<1> QED
  BY <1>2, <1>3

(* The manifest is renamed into place: the recording is done.                *)
LEMMA PersistManifestStep ==
    ASSUME RecordsInv, NEW w \in Recorders, Records!PersistManifest(w)
    PROVE  RecordsInv'
<1>1. cRec[w].pc = "persistManifest" /\ cRec[w].cfg \in Configs
  BY DEF Records!PersistManifest, RecordsInv, LoadedInv
<1>2. CASE ~(cForce[w] \/ cManifest = Nothing)
  <2>1. /\ cRec' = [cRec EXCEPT ![w] = Records!RecAt("undo", cRec[w].cfg)]
        /\ UNCHANGED <<cConfig, cSource, cManifest, cForce, cStrict, cRep>>
    BY <1>2 DEF Records!PersistManifest, Records!Goto
  <2>2. "undo" \in Records!RecPcs /\ cRec[w].pc \in Owning
    BY <1>1 DEF Records!RecPcs, Owning
  <2> QED
    BY <1>1, <2>1, <2>2, QuietStep
<1>3. CASE cForce[w] \/ cManifest = Nothing
  <2>1. /\ cRec' = [cRec EXCEPT ![w] = Records!RecAt("recorded", cRec[w].cfg)]
        /\ cManifest' = Records!Manifest(w, cRec[w].cfg)
        /\ UNCHANGED <<cConfig, cSource, cForce, cStrict, cRep>>
    BY <1>3 DEF Records!PersistManifest, Records!Goto
  <2>2. "recorded" \in Records!RecPcs
    BY DEF Records!RecPcs
  <2>3. /\ cRec' \in [Recorders -> [pc : Records!RecPcs, cfg : Configs \cup {Nothing}]]
        /\ cRec'[w].pc = "recorded" /\ cRec'[w].cfg = cRec[w].cfg
        /\ \A v \in Recorders : v # w => cRec'[v] = cRec[v]
    BY <1>1, <2>1, <2>2, MoveIs DEF RecordsInv
  <2>4. cManifest' \in Records!Manifests /\ cManifest'.src = w
    BY <1>1, <2>1 DEF Records!Manifest, Records!Manifests, Records!Sources
  <2>5. Records!TypeOK'
    BY <2>1, <2>3, <2>4 DEF RecordsInv, Records!TypeOK
  <2>6. \A v \in Recorders : cRec[v].pc = "recorded" => cRec'[v] = cRec[v]
    BY <1>1, <2>3
  <2>7. LoadedInv' /\ ManifestInv' /\ ReplayInv'
    BY <1>1, <2>1, <2>3, <2>4, <2>6 DEF RecordsInv, LoadedInv, ManifestInv, ReplayInv
  <2>8. Records!NobodyForces => /\ cSource = w
                                /\ \A v \in Recorders : cRec[v].pc \in Owning => v = w
    BY <1>1 DEF RecordsInv, OwnerInv, Owning
  <2>9. OwnerInv'
    BY <2>1, <2>3, <2>8 DEF OwnerInv, Records!NobodyForces
  <2>10. RecordingsSurvive'
    BY <2>1, <2>3, <2>8 DEF RecordingsSurvive, Records!RecordingsSurvive, Records!NobodyForces,
                            Owning
  <2> QED
    BY <2>5, <2>7, <2>9, <2>10 DEF RecordsInv
<1> QED
  BY <1>2, <1>3

(* The source is removed again: without --force it is the recorder's own.    *)
LEMMA UndoStep ==
    ASSUME RecordsInv, NEW w \in Recorders, Records!Undo(w)
    PROVE  RecordsInv'
<1>1. /\ cRec[w].pc = "undo" /\ cSource' = Nothing
      /\ cRec' = [cRec EXCEPT ![w] = Records!RecAt("failed", cRec[w].cfg)]
      /\ UNCHANGED <<cConfig, cManifest, cForce, cStrict, cRep>>
  BY DEF Records!Undo, Records!Goto
<1>2. cRec[w].cfg \in Configs /\ "failed" \in Records!RecPcs
  BY <1>1 DEF RecordsInv, LoadedInv, Records!RecPcs
<1>3. /\ cRec' \in [Recorders -> [pc : Records!RecPcs, cfg : Configs \cup {Nothing}]]
      /\ cRec'[w].pc = "failed" /\ cRec'[w].cfg = cRec[w].cfg
      /\ \A v \in Recorders : v # w => cRec'[v] = cRec[v]
  BY <1>1, <1>2, MoveIs DEF RecordsInv
<1>4. Records!TypeOK'
  BY <1>1, <1>3 DEF RecordsInv, Records!TypeOK
<1>5. \A v \in Recorders : cRec[v].pc = "recorded" => cRec'[v] = cRec[v]
  BY <1>1, <1>3
<1>6. LoadedInv' /\ ManifestInv' /\ ReplayInv'
  BY <1>1, <1>2, <1>3, <1>5 DEF RecordsInv, LoadedInv, ManifestInv, ReplayInv
<1>7. Records!NobodyForces => \A v \in Recorders : cRec'[v].pc \notin Owning
  <2>1. Records!NobodyForces => \A v \in Recorders : cRec[v].pc \in Owning => v = w
    BY <1>1 DEF RecordsInv, OwnerInv, Owning
  <2> QED
    BY <1>3, <2>1 DEF Owning
<1>8. OwnerInv' /\ RecordingsSurvive'
  BY <1>1, <1>7 DEF OwnerInv, RecordingsSurvive, Records!RecordingsSurvive, Records!NobodyForces,
                    Owning
<1> QED
  BY <1>4, <1>6, <1>8 DEF RecordsInv

-----------------------------------------------------------------------------
(* A replay moves: --strict goes on only with a source that was recorded.    *)
ReplayMove(r, l, s, k, d, c) ==
    /\ l \in {"config", "drift", "run", "ran", "refused"}
    /\ s \in Records!Sources \cup {Nothing} /\ k \in Configs \cup {Nothing}
    /\ d \in {"unknown", "exact", "changed", Nothing} /\ c \in Configs \cup {Nothing}
    /\ cRep' = [cRep EXCEPT ![r] = Records!RepAt(l, s, k, d, c)]
    /\ cStrict[r] /\ l \in {"run", "ran"} =>
           s = Old \/ (s \in Recorders /\ cRec[s].pc = "recorded")
    /\ UNCHANGED <<cConfig, cSource, cManifest, cForce, cRec, cStrict>>

(* Such a move keeps the invariant.                                          *)
LEMMA ReplayMoves ==
    ASSUME RecordsInv, NEW r \in Replayers, NEW l, NEW s, NEW k, NEW d, NEW c,
           ReplayMove(r, l, s, k, d, c)
    PROVE  RecordsInv'
<1> DEFINE Reps == [pc : {"read", "config", "drift", "run", "ran", "refused"},
                    src : Records!Sources \cup {Nothing}, checked : Configs \cup {Nothing},
                    drift : {"unknown", "exact", "changed", Nothing},
                    ran : Configs \cup {Nothing}]
<1>1. /\ Records!RepAt(l, s, k, d, c) \in Reps
      /\ Records!RepAt(l, s, k, d, c).pc = l /\ Records!RepAt(l, s, k, d, c).src = s
  BY DEF ReplayMove, Records!RepAt
<1>2. cRep \in [Replayers -> Reps]
  BY DEF RecordsInv, Records!TypeOK
<1> HIDE DEF Reps
<1>0. UNCHANGED <<cConfig, cSource, cManifest, cForce, cRec, cStrict>>
  BY DEF ReplayMove
<1>7. cStrict[r] /\ l \in {"run", "ran"} =>
        s = Old \/ (s \in Recorders /\ cRec[s].pc = "recorded")
  BY DEF ReplayMove
<1>3. cRep' \in [Replayers -> Reps] /\ cRep'[r].pc = l /\ cRep'[r].src = s
      /\ \A q \in Replayers : q # r => cRep'[q] = cRep[q]
  BY <1>1, <1>2 DEF ReplayMove
<1>4. Records!TypeOK'
  BY <1>3, <1>0 DEF RecordsInv, Records!TypeOK, Reps
<1>5. LoadedInv' /\ ManifestInv' /\ OwnerInv' /\ RecordingsSurvive'
  BY <1>0 DEF RecordsInv, LoadedInv, ManifestInv, OwnerInv, RecordingsSurvive,
         Records!RecordingsSurvive, Records!NobodyForces
<1>6. ReplayInv'
  BY <1>0, <1>3, <1>7 DEF RecordsInv, ReplayInv
<1> QED
  BY <1>4, <1>5, <1>6 DEF RecordsInv

(* run_replay keeps the invariant: without drift the manifest names the      *)
(* source that was read.                                                     *)
LEMMA ReplayerStep ==
    ASSUME RecordsInv, NEW r \in Replayers, Records!Replayer(r)
    PROVE  RecordsInv'
<1>1. /\ cSource \in Records!Sources \cup {Nothing} /\ cConfig \in Configs
      /\ cRep[r].src \in Records!Sources \cup {Nothing}
      /\ cRep[r].checked \in Configs \cup {Nothing}
      /\ cRep[r].drift \in {"unknown", "exact", "changed", Nothing}
  BY DEF RecordsInv, Records!TypeOK
<1>2. CASE Records!ReadSource(r)
  <2> DEFINE l == IF cSource = Nothing THEN "refused" ELSE "config"
  <2>1. /\ cRep' = [cRep EXCEPT ![r] = Records!RepAt(l, cSource, Nothing, Nothing, Nothing)]
        /\ UNCHANGED <<cConfig, cSource, cManifest, cForce, cRec, cStrict>>
    BY <1>2 DEF Records!ReadSource
  <2>2. l \in {"config", "drift", "run", "ran", "refused"} /\ l \notin {"run", "ran"}
    OBVIOUS
  <2> HIDE DEF l
  <2>3. ReplayMove(r, l, cSource, Nothing, Nothing, Nothing)
    BY <1>1, <2>1, <2>2 DEF ReplayMove
  <2> QED
    BY <2>3, ReplayMoves
<1>3. CASE Records!LoadConfig(r)
  <2>1. /\ cRep' = [cRep EXCEPT ![r] =
                      Records!RepAt("drift", cRep[r].src, cConfig, Nothing, Nothing)]
        /\ UNCHANGED <<cConfig, cSource, cManifest, cForce, cRec, cStrict>>
    BY <1>3 DEF Records!LoadConfig
  <2>2. ReplayMove(r, "drift", cRep[r].src, cConfig, Nothing, Nothing)
    BY <1>1, <2>1 DEF ReplayMove
  <2> QED
    BY <2>2, ReplayMoves
<1>4. CASE Records!ReplayDrift(r)
  <2> DEFINE d == Records!DriftOf(r)
             l == IF cStrict[r] /\ d # "exact" THEN "refused" ELSE "run"
             s == cRep[r].src
             k == cRep[r].checked
  <2>1. /\ cRep' = [cRep EXCEPT ![r] = Records!RepAt(l, s, k, d, Nothing)]
        /\ UNCHANGED <<cConfig, cSource, cManifest, cForce, cRec, cStrict>>
    BY <1>4 DEF Records!ReplayDrift
  <2>2. d \in {"unknown", "exact", "changed", Nothing}
    BY DEF Records!DriftOf
  <2>3. d = "exact" => cManifest # Nothing /\ cManifest.src = cRep[r].src
    BY DEF Records!DriftOf, Records!Manifest
  <2>4. cStrict[r] /\ l \in {"run", "ran"} =>
           s = Old \/ (s \in Recorders /\ cRec[s].pc = "recorded")
    BY <2>3 DEF RecordsInv, ManifestInv
  <2>5. l \in {"config", "drift", "run", "ran", "refused"}
    OBVIOUS
  <2>6. s \in Records!Sources \cup {Nothing} /\ k \in Configs \cup {Nothing}
    BY <1>1
  <2>7. Nothing \in Configs \cup {Nothing}
    OBVIOUS
  <2> HIDE DEF l, d, s, k
  <2>8. ReplayMove(r, l, s, k, d, Nothing)
    BY <2>1, <2>2, <2>4, <2>5, <2>6, <2>7 DEF ReplayMove
  <2> QED
    BY <2>8, ReplayMoves
<1>5. CASE Records!Replay(r)
  <2> DEFINE s == cRep[r].src
             k == cRep[r].checked
             d == cRep[r].drift
  <2>1. /\ cRep[r].pc = "run"
        /\ cRep' = [cRep EXCEPT ![r] = Records!RepAt("ran", s, k, d, cConfig)]
        /\ UNCHANGED <<cConfig, cSource, cManifest, cForce, cRec, cStrict>>
    BY <1>5 DEF Records!Replay
  <2>2. cStrict[r] => s = Old \/ (s \in Recorders /\ cRec[s].pc = "recorded")
    BY <2>1 DEF RecordsInv, ReplayInv
  <2>3. /\ s \in Records!Sources \cup {Nothing} /\ k \in Configs \cup {Nothing}
        /\ d \in {"unknown", "exact", "changed", Nothing}
    BY <1>1
  <2> HIDE DEF s, k, d
  <2>4. ReplayMove(r, "ran", s, k, d, cConfig)
    BY <1>1, <2>1, <2>2, <2>3 DEF ReplayMove
  <2> QED
    BY <2>4, ReplayMoves
<1> QED
  BY <1>2, <1>3, <1>4, <1>5 DEF Records!Replayer

(* The invariant holds before any process has started, with or without an    *)
(* earlier recording.                                                        *)
LEMMA RecordsInitInv == Records!Init => RecordsInv
<1> SUFFICES ASSUME Records!Init PROVE RecordsInv
  OBVIOUS
<1>1. /\ cConfig \in Configs /\ cSource \in {Nothing, Old}
      /\ cManifest \in {Nothing, Records!Manifest(Old, cConfig)}
      /\ cForce \in [Recorders -> BOOLEAN] /\ cStrict \in [Replayers -> BOOLEAN]
      /\ cRec = [w \in Recorders |-> Records!RecAt("load", Nothing)]
      /\ cRep = [r \in Replayers |-> Records!RepAt("read", Nothing, Nothing, Nothing, Nothing)]
  BY DEF Records!Init
<1>2. \A w \in Recorders : cRec[w] = [pc |-> "load", cfg |-> Nothing]
  BY <1>1 DEF Records!RecAt
<1>3. \A r \in Replayers : cRep[r] = [pc |-> "read", src |-> Nothing, checked |-> Nothing,
                                     drift |-> Nothing, ran |-> Nothing]
  BY <1>1 DEF Records!RepAt
<1>4. cManifest \in Records!Manifests \cup {Nothing} /\ (cManifest # Nothing => cManifest.src = Old)
  BY <1>1 DEF Records!Manifest, Records!Manifests, Records!Sources
<1>5. cRec \in [Recorders -> [pc : Records!RecPcs, cfg : Configs \cup {Nothing}]]
  BY <1>1, <1>2 DEF Records!RecPcs
<1>6. cRep \in [Replayers -> [pc : {"read", "config", "drift", "run", "ran", "refused"},
                             src : Records!Sources \cup {Nothing},
                             checked : Configs \cup {Nothing},
                             drift : {"unknown", "exact", "changed", Nothing},
                             ran : Configs \cup {Nothing}]]
  BY <1>1, <1>3
<1>7. Records!TypeOK
  BY <1>1, <1>4, <1>5, <1>6 DEF Records!TypeOK, Records!Sources
<1>8. LoadedInv /\ ManifestInv /\ OwnerInv /\ RecordingsSurvive
  BY <1>2, <1>4 DEF LoadedInv, ManifestInv, OwnerInv, Owning, RecordingsSurvive,
                    Records!RecordingsSurvive
<1>9. ReplayInv
  BY <1>3 DEF ReplayInv
<1> QED
  BY <1>7, <1>8, <1>9 DEF RecordsInv

(* Every step of every process, and of the operator, keeps the invariant.    *)
LEMMA RecordsNextInv == RecordsInv /\ [Records!Next]_Records!vars => RecordsInv'
<1> SUFFICES ASSUME RecordsInv, [Records!Next]_Records!vars PROVE RecordsInv'
  OBVIOUS
<1>1. CASE \E w \in Recorders : Records!Recorder(w) \/ Records!Crash(w)
  <2>1. PICK w \in Recorders : Records!Recorder(w) \/ Records!Crash(w)
    BY <1>1
  <2> QED
    BY <2>1, LoadStep, CheckStep, PersistSourceStep, PersistManifestStep, UndoStep
    DEF Records!Recorder
<1>2. CASE \E r \in Replayers : Records!Replayer(r)
  BY <1>2, ReplayerStep
<1>3. CASE Records!EditConfig \/ UNCHANGED Records!vars
  <2>1. cConfig' \in Configs /\ UNCHANGED <<cSource, cManifest, cForce, cRec, cStrict, cRep>>
    BY <1>3 DEF Records!EditConfig, Records!vars, RecordsInv, Records!TypeOK
  <2>2. Records!TypeOK'
    BY <2>1 DEF RecordsInv, Records!TypeOK
  <2>3. LoadedInv' /\ ManifestInv' /\ OwnerInv' /\ RecordingsSurvive' /\ ReplayInv'
    BY <2>1 DEF RecordsInv, LoadedInv, ManifestInv, OwnerInv, RecordingsSurvive, ReplayInv,
                Records!RecordingsSurvive, Records!NobodyForces
  <2> QED
    BY <2>2, <2>3 DEF RecordsInv
<1> QED
  BY <1>1, <1>2, <1>3 DEF Records!Next

(* RecordsInv holds however recorders, replays, crashes and edits of the     *)
(* configuration interleave.                                                 *)
THEOREM RecordsInductive == Records!Spec => []RecordsInv
BY RecordsInitInv, RecordsNextInv, PTL DEF Records!Spec

(* The variables of recorders and replays keep their types.                  *)
THEOREM RecordsTypeCorrect == Records!Spec => []Records!TypeOK
<1>1. RecordsInv => Records!TypeOK
  BY DEF RecordsInv
<1> QED
  BY RecordsInductive, <1>1, PTL

(* RecordingsSurvive: without --force a recording that write_recording       *)
(* reported as written stays, whatever other recorders try, fail at or leave *)
(* behind when they crash, and however many they are.                        *)
THEOREM RecordingsCorrect == Records!Spec => []RecordingsSurvive
<1>1. RecordsInv => RecordingsSurvive
  BY DEF RecordsInv
<1> QED
  BY RecordsInductive, <1>1, PTL

(* StrictReplayRunsRecorded: `mdok replay --strict` runs only a source for   *)
(* which a recording was completed, with --force as without.                 *)
THEOREM StrictReplayCorrect == Records!Spec => []StrictReplayRunsRecorded
<1>1. RecordsInv => StrictReplayRunsRecorded
  BY DEF RecordsInv, ReplayInv, StrictReplayRunsRecorded, Records!StrictReplayRunsRecorded
<1> QED
  BY RecordsInductive, <1>1, PTL

-----------------------------------------------------------------------------
(* A non-empty set of naturals has a least element.                          *)
LEMMA LeastOf ==
    ASSUME NEW T, T \subseteq Nat, T # {}
    PROVE  \E x \in T : \A y \in T : x <= y
<1>1. \E x \in T : \A y \in T : ~(<<y, x>> \in OpToRel(<, Nat))
  BY NatLessThanWellFounded, WFMin
<1>2. PICK x \in T : \A y \in T : ~(<<y, x>> \in OpToRel(<, Nat))
  BY <1>1
<1>3. \A y \in T : ~(y < x)
  BY <1>2 DEF OpToRel
<1> QED
  BY <1>3

-----------------------------------------------------------------------------
(* Records of the metadata vector.                                           *)
Rec == [sequence : SequenceNumbers, metadata : Notes]

(* The first of the first n records of t that is about q, and its metadata.  *)
FirstAt(t, n, q, k) ==
    k \in 1..n /\ t[k].sequence = q /\ \A j \in 1..(k - 1) : t[j].sequence # q
First(t, n, q) ==
    IF \E k \in 1..n : t[k].sequence = q
      THEN t[CHOOSE k \in 1..n : FirstAt(t, n, q, k)].metadata ELSE Reports!None

(* Every two records are in order, not only neighbours.                      *)
Ordered(t) == \A i, j \in 1..Len(t) : i <= j => t[i].sequence <= t[j].sequence

(* Each record of the vector has a sequence number and metadata.             *)
LEMMA RecIs ==
    ASSUME NEW t \in Seq(Rec), NEW k \in 1..Len(t)
    PROVE  /\ t[k] \in Rec /\ t[k].sequence \in SequenceNumbers /\ t[k].sequence \in Nat
           /\ t[k].metadata \in Notes /\ t[k].metadata # Reports!None
<1>1. t[k] \in Rec
  BY ElementOfSeq
<1> QED
  BY <1>1, ReportAssumption DEF Rec

(* The metadata that First means is that of the first record.                *)
LEMMA FirstIs ==
    ASSUME NEW t, NEW n \in Nat, NEW q, NEW k, FirstAt(t, n, q, k)
    PROVE  First(t, n, q) = t[k].metadata
<1> DEFINE c == CHOOSE i \in 1..n : FirstAt(t, n, q, i)
<1>1. k \in 1..n /\ t[k].sequence = q
  BY DEF FirstAt
<1>2. c \in 1..n /\ FirstAt(t, n, q, c)
  BY <1>1
<1>3. c = k
  <2> HIDE DEF c
  <2>1. ~(c < k) /\ ~(k < c)
    BY <1>1, <1>2 DEF FirstAt
  <2> QED
    BY <1>1, <1>2, <2>1
<1> QED
  BY <1>1, <1>3 DEF First

(* Where a record is about q, one is the first.                              *)
LEMMA FirstFound ==
    ASSUME NEW t, NEW n \in Nat, NEW q, \E k \in 1..n : t[k].sequence = q
    PROVE  \E k \in 1..n : FirstAt(t, n, q, k)
<1> DEFINE T == {k \in 1..n : t[k].sequence = q}
<1>1. T \subseteq Nat /\ T # {}
  OBVIOUS
<1>2. PICK k \in T : \A y \in T : k <= y
  <2> HIDE DEF T
  <2> QED
    BY <1>1, LeastOf
<1>3. FirstAt(t, n, q, k)
  BY <1>2 DEF FirstAt
<1> QED
  BY <1>2, <1>3

(* Where no record is about q, it has no metadata.                           *)
LEMMA FirstNone ==
    ASSUME NEW t, NEW n, NEW q, \A k \in 1..n : t[k].sequence # q
    PROVE  First(t, n, q) = Reports!None
  BY DEF First

(* One more record counts only where there was none.                         *)
LEMMA FirstStep ==
    ASSUME NEW t \in Seq(Rec), NEW n \in Nat, n + 1 <= Len(t), NEW q
    PROVE  First(t, n + 1, q) =
             IF First(t, n, q) = Reports!None /\ t[n + 1].sequence = q THEN t[n + 1].metadata
             ELSE First(t, n, q)
<1>0. Len(t) \in Nat
  BY LenProperties
<1>1. CASE \E k \in 1..n : t[k].sequence = q
  <2>1. PICK k \in 1..n : FirstAt(t, n, q, k)
    BY <1>1, FirstFound
  <2>2. FirstAt(t, n + 1, q, k)
    BY <2>1 DEF FirstAt
  <2>3. First(t, n, q) = t[k].metadata /\ First(t, n + 1, q) = t[k].metadata
    BY <2>1, <2>2, FirstIs
  <2>4. t[k].metadata # Reports!None
    BY <1>0, RecIs
  <2> QED
    BY <2>3, <2>4
<1>2. CASE ~\E k \in 1..n : t[k].sequence = q
  <2>1. First(t, n, q) = Reports!None
    BY <1>2, FirstNone
  <2>2. CASE t[n + 1].sequence = q
    <3>1. FirstAt(t, n + 1, q, n + 1)
      BY <1>2, <2>2 DEF FirstAt
    <3>2. First(t, n + 1, q) = t[n + 1].metadata
      BY <3>1, FirstIs
    <3> QED
      BY <2>1, <2>2, <3>2
  <2>3. CASE t[n + 1].sequence # q
    <3>1. \A k \in 1..(n + 1) : t[k].sequence # q
      BY <1>2, <2>3
    <3> QED
      BY <2>1, <2>3, <3>1, FirstNone
  <2> QED
    BY <2>2, <2>3
<1> QED
  BY <1>1, <1>2

-----------------------------------------------------------------------------
(* The elements of a sequence made of two.                                   *)
LEMMA ConcatIs ==
    ASSUME NEW S, NEW a \in Seq(S), NEW b \in Seq(S), NEW u, u = a \o b
    PROVE  /\ u \in Seq(S) /\ Len(a) \in Nat /\ Len(b) \in Nat /\ Len(u) = Len(a) + Len(b)
           /\ \A k \in 1..Len(a) : u[k] = a[k]
           /\ \A k \in 1..Len(b) : u[Len(a) + k] = b[k]
<1>1. Len(a) \in Nat /\ Len(b) \in Nat
  BY LenProperties
<1>2. /\ u \in Seq(S) /\ Len(u) = Len(a) + Len(b)
      /\ \A i \in 1..(Len(a) + Len(b)) : u[i] = IF i <= Len(a) THEN a[i] ELSE b[i - Len(a)]
  BY ConcatProperties
<1>3. ASSUME NEW k \in 1..Len(a) PROVE u[k] = a[k]
  <2>1. k \in 1..(Len(a) + Len(b)) /\ k <= Len(a)
    BY <1>1
  <2> QED
    BY <1>2, <2>1
<1>4. ASSUME NEW k \in 1..Len(b) PROVE u[Len(a) + k] = b[k]
  <2>1. Len(a) + k \in 1..(Len(a) + Len(b)) /\ ~(Len(a) + k <= Len(a)) /\ Len(a) + k - Len(a) = k
    BY <1>1
  <2> QED
    BY <1>2, <2>1
<1> QED
  BY <1>1, <1>2, <1>3, <1>4

(* A sequence of one element.                                                *)
LEMMA OneIs ==
    ASSUME NEW S, NEW x \in S
    PROVE  <<x>> \in Seq(S) /\ Len(<<x>>) = 1 /\ <<x>>[1] = x
  OBVIOUS

(* u is t with r at p, and what was from p on behind it.                     *)
IsInsertion(S, t, p, r, u) ==
    /\ u \in Seq(S) /\ Len(u) = Len(t) + 1 /\ u[p] = r
    /\ \A k \in 1..(p - 1) : u[k] = t[k]
    /\ \A k \in (p + 1)..(Len(t) + 1) : u[k] = t[k - 1]

(* What insertion at a position does.                                        *)
LEMMA InsertAtIs ==
    ASSUME NEW S, NEW t \in Seq(S), NEW p \in 1..(Len(t) + 1), NEW r \in S,
           NEW u, u = Reports!InsertAt(t, p, r)
    PROVE  IsInsertion(S, t, p, r, u)
<1>0. Len(t) \in Nat
  BY LenProperties
<1>1. PICK a : a = SubSeq(t, 1, p - 1)
  OBVIOUS
<1>2. PICK b : b = SubSeq(t, p, Len(t))
  OBVIOUS
<1>3. a \in Seq(S) /\ Len(a) = p - 1 /\ \A k \in 1..(p - 1) : a[k] = t[k]
  BY <1>0, <1>1, SubSeqProperties
<1>4. b \in Seq(S) /\ Len(b) = Len(t) - p + 1 /\ \A k \in 1..(Len(t) - p + 1) : b[k] = t[p + k - 1]
  BY <1>0, <1>2, SubSeqProperties
<1>5. PICK o : o = <<r>> /\ o \in Seq(S) /\ Len(o) = 1 /\ o[1] = r
  BY OneIs
<1>6. PICK c : c = a \o o
  OBVIOUS
<1>7. c \in Seq(S) /\ Len(c) = p /\ c[p] = r /\ \A k \in 1..(p - 1) : c[k] = t[k]
  <2>1. /\ c \in Seq(S) /\ Len(c) = Len(a) + Len(o) /\ \A k \in 1..Len(a) : c[k] = a[k]
        /\ \A k \in 1..Len(o) : c[Len(a) + k] = o[k]
    BY <1>3, <1>5, <1>6, ConcatIs
  <2>2. c[Len(a) + 1] = o[1] /\ Len(a) + 1 = p
    BY <1>0, <1>3, <1>5, <2>1
  <2> QED
    BY <1>0, <1>3, <1>5, <2>1, <2>2
<1>8. u = c \o b
  BY <1>1, <1>2, <1>5, <1>6 DEF Reports!InsertAt
<1>9. /\ u \in Seq(S) /\ Len(u) = Len(c) + Len(b)
      /\ \A k \in 1..Len(c) : u[k] = c[k]
      /\ \A k \in 1..Len(b) : u[Len(c) + k] = b[k]
  <2>1. c \in Seq(S) /\ b \in Seq(S)
    BY <1>4, <1>7
  <2> QED
    BY <1>8, <2>1, ConcatIs
<1>10. ASSUME NEW k \in (p + 1)..(Len(t) + 1) PROVE u[k] = t[k - 1]
  <2>1. k - p \in 1..(Len(t) - p + 1) /\ p + (k - p) = k /\ p + (k - p) - 1 = k - 1
    BY <1>0
  <2>2. u[p + (k - p)] = b[k - p] /\ b[k - p] = t[p + (k - p) - 1]
    BY <1>4, <1>7, <1>9, <2>1
  <2> QED
    BY <2>1, <2>2
<1>11. Len(u) = Len(t) + 1
  BY <1>0, <1>4, <1>7, <1>9
<1>12. u[p] = r /\ \A k \in 1..(p - 1) : u[k] = t[k]
  BY <1>0, <1>7, <1>9
<1> QED
  BY <1>9, <1>10, <1>11, <1>12 DEF IsInsertion

-----------------------------------------------------------------------------
(* Neighbours in order put every two records in order.                       *)
LEMMA SortedOrdered ==
    ASSUME NEW t \in Seq(Rec), Reports!EventMetadataIsSorted(t)
    PROVE  Ordered(t)
<1>0. Len(t) \in Nat /\ \A k \in 1..Len(t) : t[k].sequence \in Nat
  BY LenProperties, RecIs
<1>1. SUFFICES ASSUME NEW i \in 1..Len(t), NEW j \in 1..Len(t), i <= j,
                      ~(t[i].sequence <= t[j].sequence)
               PROVE  FALSE
  BY DEF Ordered
<1> DEFINE T == {k \in 1..Len(t) : i <= k /\ ~(t[i].sequence <= t[k].sequence)}
<1>2. T \subseteq Nat /\ T # {}
  BY <1>1
<1>3. PICK k \in T : \A y \in T : k <= y
  <2> HIDE DEF T
  <2> QED
    BY <1>2, LeastOf
<1>4. k \in 1..Len(t) /\ i <= k /\ ~(t[i].sequence <= t[k].sequence)
  BY <1>3
<1>5. k # i
  BY <1>0, <1>4
<1>6. k - 1 \in 1..Len(t) /\ i <= k - 1 /\ k - 1 \in 1..(Len(t) - 1) /\ k - 1 + 1 = k
  BY <1>0, <1>4, <1>5
<1>7. t[i].sequence <= t[k - 1].sequence
  BY <1>3, <1>6
<1>8. t[k - 1].sequence <= t[k].sequence
  <2>1. t[k - 1].sequence <= t[k - 1 + 1].sequence
    BY <1>6 DEF Reports!EventMetadataIsSorted
  <2> QED
    BY <1>6, <2>1
<1>9. t[k].sequence \in Nat /\ t[i].sequence \in Nat /\ t[k - 1].sequence \in Nat
  BY <1>0, <1>4, <1>6
<1> QED
  BY <1>4, <1>7, <1>8, <1>9

(* The first record about an event is as if r had been put behind t.         *)
AsIfAppended(t, r, u) ==
    \A q : First(u, Len(u), q) =
        IF First(t, Len(t), q) = Reports!None /\ r.sequence = q THEN r.metadata
        ELSE First(t, Len(t), q)

(* What one insertion of the sort does.                                      *)
LEMMA InsertedIs ==
    ASSUME NEW t \in Seq(Rec), Ordered(t), NEW r \in Rec, NEW u, u = Reports!Inserted(t, r)
    PROVE  /\ u \in Seq(Rec) /\ Ordered(u) /\ Len(u) = Len(t) + 1
           /\ AsIfAppended(t, r, u)
<1>0. Len(t) \in Nat /\ \A k \in 1..Len(t) : t[k].sequence \in Nat
  BY LenProperties, RecIs
<1>00. r.sequence \in Nat
  BY ReportAssumption DEF Rec
<1> DEFINE Q(p) == /\ \A k \in 1..(p - 1) : t[k].sequence <= r.sequence
                   /\ \A k \in p..Len(t) : t[k].sequence > r.sequence
           b == CHOOSE p \in 1..(Len(t) + 1) : Q(p)
<1>1. \E p \in 1..(Len(t) + 1) : Q(p)
  <2> DEFINE T == {p \in 1..(Len(t) + 1) : p = Len(t) + 1 \/ t[p].sequence > r.sequence}
  <2>1. T \subseteq Nat /\ T # {}
    <3>1. Len(t) + 1 \in T
      BY <1>0
    <3> QED
      BY <1>0, <3>1
  <2>2. PICK p \in T : \A y \in T : p <= y
    <3> HIDE DEF T
    <3> QED
      BY <2>1, LeastOf
  <2>3. p \in 1..(Len(t) + 1)
    BY <2>2
  <2>4. ASSUME NEW k \in 1..(p - 1) PROVE t[k].sequence <= r.sequence
    <3>1. k \in 1..Len(t) /\ k < p /\ k \in 1..(Len(t) + 1)
      BY <1>0, <2>3
    <3>2. ~(t[k].sequence > r.sequence)
      BY <2>2, <3>1
    <3> QED
      BY <1>0, <1>00, <3>1, <3>2
  <2>5. ASSUME NEW k \in p..Len(t) PROVE t[k].sequence > r.sequence
    <3>1. k \in 1..Len(t) /\ p \in 1..Len(t) /\ p <= k
      BY <1>0, <2>3
    <3>2. t[p].sequence > r.sequence
      BY <1>0, <2>2, <3>1
    <3>3. t[p].sequence <= t[k].sequence
      BY <3>1 DEF Ordered
    <3> QED
      BY <1>0, <1>00, <3>1, <3>2, <3>3
  <2> QED
    BY <2>3, <2>4, <2>5
<1>2. b \in 1..(Len(t) + 1) /\ Q(b)
  BY <1>1
<1>3. u = Reports!InsertAt(t, b, r)
  BY DEF Reports!Inserted
<1>4. PICK p \in 1..(Len(t) + 1) : Q(p) /\ u = Reports!InsertAt(t, p, r)
  BY <1>2, <1>3
<1>5. /\ u \in Seq(Rec) /\ Len(u) = Len(t) + 1 /\ u[p] = r
      /\ \A k \in 1..(p - 1) : u[k] = t[k]
      /\ \A k \in (p + 1)..(Len(t) + 1) : u[k] = t[k - 1]
  <2>1. u = Reports!InsertAt(t, p, r)
    BY <1>4
  <2>2. IsInsertion(Rec, t, p, r, u)
    BY <2>1, InsertAtIs
  <2> QED
    BY <2>2 DEF IsInsertion
<1>6. ASSUME NEW k \in 1..(p - 1) PROVE k \in 1..Len(t) /\ u[k] = t[k] /\ u[k].sequence <= r.sequence
  <2>1. k \in 1..Len(t) /\ u[k] = t[k]
    BY <1>0, <1>5
  <2> QED
    BY <1>4, <2>1
<1>7. ASSUME NEW k \in (p + 1)..(Len(t) + 1)
      PROVE  k - 1 \in p..Len(t) /\ k - 1 \in 1..Len(t) /\ u[k] = t[k - 1] /\ u[k].sequence > r.sequence
  <2>1. k - 1 \in p..Len(t) /\ k - 1 \in 1..Len(t) /\ u[k] = t[k - 1]
    BY <1>0, <1>5
  <2> QED
    BY <1>4, <2>1
<1>8. Ordered(u)
  <2>0. \A k \in 1..Len(u) : u[k].sequence \in Nat
    BY <1>5, RecIs
  <2>1. SUFFICES ASSUME NEW i \in 1..Len(u), NEW j \in 1..Len(u), i <= j
                 PROVE  u[i].sequence <= u[j].sequence
    BY DEF Ordered
  <2>2. u[i].sequence \in Nat /\ u[j].sequence \in Nat
    BY <2>0
  <2>3. i \in 1..(p - 1) \/ i = p \/ i \in (p + 1)..(Len(t) + 1)
    BY <1>0, <1>5
  <2>4. j \in 1..(p - 1) \/ j = p \/ j \in (p + 1)..(Len(t) + 1)
    BY <1>0, <1>5
  <2>5. CASE i \in 1..(p - 1) /\ j \in 1..(p - 1)
    BY <1>6, <2>1, <2>5 DEF Ordered
  <2>6. CASE i \in (p + 1)..(Len(t) + 1) /\ j \in (p + 1)..(Len(t) + 1)
    <3>1. i - 1 <= j - 1
      BY <2>1
    <3> QED
      BY <1>7, <2>6, <3>1 DEF Ordered
  <2>7. CASE i \in 1..(p - 1) /\ j = p
    BY <1>5, <1>6, <2>7
  <2>8. CASE i \in 1..(p - 1) /\ j \in (p + 1)..(Len(t) + 1)
    <3>1. u[i].sequence <= r.sequence /\ u[j].sequence > r.sequence
      BY <1>6, <1>7, <2>8
    <3> QED
      BY <1>00, <2>2, <3>1
  <2>9. CASE i = p /\ j = p
    BY <2>2, <2>9
  <2>10. CASE i = p /\ j \in (p + 1)..(Len(t) + 1)
    <3>1. u[i].sequence = r.sequence /\ u[j].sequence > r.sequence
      BY <1>5, <1>7, <2>10
    <3> QED
      BY <1>00, <2>2, <3>1
  <2> QED
    BY <1>0, <2>1, <2>3, <2>4, <2>5, <2>6, <2>7, <2>8, <2>9, <2>10
<1>9. ASSUME NEW q
      PROVE  First(u, Len(u), q) =
                IF First(t, Len(t), q) = Reports!None /\ r.sequence = q THEN r.metadata
                ELSE First(t, Len(t), q)
  <2>1. CASE \E k \in 1..Len(t) : t[k].sequence = q
    <3>1. PICK k \in 1..Len(t) : FirstAt(t, Len(t), q, k)
      BY <1>0, <2>1, FirstFound
    <3>2. First(t, Len(t), q) = t[k].metadata /\ t[k].metadata # Reports!None
      BY <1>0, <3>1, FirstIs, RecIs
    <3>3. t[k].sequence = q /\ \A j \in 1..(k - 1) : t[j].sequence # q
      BY <3>1 DEF FirstAt
    <3>4. CASE k \in 1..(p - 1)
      <4>1. \A j \in 1..(k - 1) : j \in 1..(p - 1)
        BY <1>0, <3>4
      <4>2. FirstAt(u, Len(u), q, k) /\ u[k] = t[k]
        <5>1. u[k] = t[k] /\ \A j \in 1..(k - 1) : u[j] = t[j]
          BY <1>5, <3>4, <4>1
        <5>2. k \in 1..Len(u)
          BY <1>0, <1>5
        <5> QED
          BY <3>3, <5>1, <5>2 DEF FirstAt
      <4>3. First(u, Len(u), q) = u[k].metadata
        BY <1>0, <1>5, <4>2, FirstIs
      <4> QED
        BY <3>2, <4>2, <4>3
    <3>5. CASE k \in p..Len(t)
      <4>1. k + 1 \in (p + 1)..(Len(t) + 1) /\ k + 1 - 1 = k
        BY <1>0, <3>5
      <4>2. u[k + 1] = t[k] /\ u[k + 1].sequence > r.sequence
        BY <1>7, <4>1
      <4>3. r.sequence # q
        BY <1>00, <1>0, <3>3, <4>2
      <4>4. ASSUME NEW j \in 1..k PROVE u[j].sequence # q
        <5>1. CASE j \in 1..(p - 1)
          <6>1. j \in 1..(k - 1)
            BY <3>5, <5>1
          <6> QED
            BY <1>6, <3>3, <5>1, <6>1
        <5>2. CASE j = p
          BY <1>5, <4>3, <5>2
        <5>3. CASE j \in (p + 1)..k
          <6>1. j \in (p + 1)..(Len(t) + 1) /\ j - 1 \in 1..(k - 1)
            BY <1>0, <5>3
          <6> QED
            BY <1>7, <3>3, <6>1
        <5> QED
          BY <3>5, <5>1, <5>2, <5>3
      <4>5. FirstAt(u, Len(u), q, k + 1)
        <5>1. k + 1 \in 1..Len(u) /\ k + 1 - 1 = k
          BY <1>0, <1>5
        <5> QED
          BY <3>3, <4>2, <4>4, <5>1 DEF FirstAt
      <4>6. First(u, Len(u), q) = u[k + 1].metadata
        BY <1>0, <1>5, <4>5, FirstIs
      <4> QED
        BY <3>2, <4>2, <4>6
    <3> QED
      BY <1>0, <3>4, <3>5
  <2>2. CASE ~\E k \in 1..Len(t) : t[k].sequence = q
    <3>1. First(t, Len(t), q) = Reports!None
      BY <2>2, FirstNone
    <3>2. CASE r.sequence = q
      <4>1. FirstAt(u, Len(u), q, p)
        BY <1>0, <1>5, <1>6, <2>2, <3>2 DEF FirstAt
      <4>2. First(u, Len(u), q) = r.metadata
        BY <1>0, <1>5, <4>1, FirstIs
      <4> QED
        BY <3>1, <3>2, <4>2
    <3>3. CASE r.sequence # q
      <4>1. ASSUME NEW j \in 1..Len(u) PROVE u[j].sequence # q
        <5>1. j \in 1..(p - 1) \/ j = p \/ j \in (p + 1)..(Len(t) + 1)
          BY <1>0, <1>5
        <5> QED
          BY <1>5, <1>6, <1>7, <2>2, <3>3, <5>1
      <4>2. First(u, Len(u), q) = Reports!None
        BY <4>1, FirstNone
      <4> QED
        BY <3>1, <3>3, <4>2
    <3> QED
      BY <3>2, <3>3
  <2> QED
    BY <2>1, <2>2
<1> QED
  BY <1>5, <1>8, <1>9 DEF AsIfAppended

-----------------------------------------------------------------------------
(* f[i] is the first i records of t, sorted.                                 *)
IsSorting(t, n, f) ==
    f = [i \in 0..n |-> IF i = 0 THEN <<>> ELSE Reports!Inserted(f[i - 1], t[i])]

(* There are such sequences.                                                 *)
LEMMA SortingExists ==
    ASSUME NEW t, NEW n \in Nat
    PROVE  \E f : IsSorting(t, n, f)
<1> DEFINE T == {m \in Nat : ~\E f : IsSorting(t, m, f)}
<1> SUFFICES ASSUME T # {} PROVE FALSE
  OBVIOUS
<1>1. PICK m \in T : \A y \in T : m <= y
  <2>1. T \subseteq Nat
    OBVIOUS
  <2> HIDE DEF T
  <2> QED
    BY <2>1, LeastOf
<1>2. CASE m = 0
  <2> DEFINE f == [i \in 0..0 |-> <<>>]
  <2>1. IsSorting(t, 0, f)
    BY DEF IsSorting
  <2> QED
    BY <1>1, <1>2, <2>1
<1>3. CASE m # 0
  <2>1. m - 1 \in Nat /\ m - 1 \notin T
    BY <1>1, <1>3
  <2>2. PICK g : IsSorting(t, m - 1, g)
    BY <2>1
  <2> DEFINE f == [i \in 0..m |-> IF i = m THEN Reports!Inserted(g[m - 1], t[m]) ELSE g[i]]
  <2>3. \A i \in 0..(m - 1) : g[i] = IF i = 0 THEN <<>> ELSE Reports!Inserted(g[i - 1], t[i])
    BY <2>2 DEF IsSorting
  <2>4. ASSUME NEW i \in 0..m PROVE f[i] = IF i = 0 THEN <<>> ELSE Reports!Inserted(f[i - 1], t[i])
    BY <1>3, <2>3
  <2>5. IsSorting(t, m, f)
    BY <2>4 DEF IsSorting
  <2> QED
    BY <1>1, <2>5
<1> QED
  BY <1>2, <1>3

(* The sort puts the records in order, and keeps which record is the first   *)
(* about an event.                                                           *)
LEMMA SortedIs ==
    ASSUME NEW t \in Seq(Rec), NEW u, u = Reports!Sorted(t)
    PROVE  /\ u \in Seq(Rec) /\ Ordered(u) /\ Len(u) = Len(t)
           /\ \A q : First(u, Len(u), q) = First(t, Len(t), q)
<1> DEFINE h == CHOOSE f : IsSorting(t, Len(t), f)
<1>1. Len(t) \in Nat
  BY LenProperties
<1>2. u = h[Len(t)]
  BY DEF Reports!Sorted, IsSorting
<1>3. IsSorting(t, Len(t), h)
  BY <1>1, SortingExists
<1>4. PICK f : IsSorting(t, Len(t), f) /\ u = f[Len(t)]
  BY <1>2, <1>3
<1>5. \A i \in 0..Len(t) : f[i] = IF i = 0 THEN <<>> ELSE Reports!Inserted(f[i - 1], t[i])
  BY <1>4 DEF IsSorting
<1> DEFINE Good(k) == /\ f[k] \in Seq(Rec) /\ Ordered(f[k]) /\ Len(f[k]) = k
                      /\ \A q : First(f[k], Len(f[k]), q) = First(t, k, q)
           T == {k \in 0..Len(t) : ~Good(k)}
<1>6. ASSUME T # {} PROVE FALSE
  <2>1. PICK k \in T : \A y \in T : k <= y
    <3>1. T \subseteq Nat
      BY <1>1
    <3> HIDE DEF T
    <3> QED
      BY <1>6, <3>1, LeastOf
  <2>2. k \in 0..Len(t) /\ k \in Nat /\ ~Good(k)
    BY <1>1, <2>1
  <2>3. CASE k = 0
    <3>1. f[0] = <<>>
      BY <1>1, <1>5
    <3>2. f[0] \in Seq(Rec) /\ Len(f[0]) = 0
      BY <3>1
    <3>3. Ordered(f[0])
      BY <3>2 DEF Ordered
    <3>4. ASSUME NEW q PROVE First(f[0], Len(f[0]), q) = First(t, 0, q)
      <4>1. First(f[0], 0, q) = Reports!None /\ First(t, 0, q) = Reports!None
        BY FirstNone
      <4> QED
        BY <3>2, <4>1
    <3> QED
      BY <2>2, <2>3, <3>2, <3>3, <3>4
  <2>4. CASE k # 0
    <3>1. k - 1 \in 0..Len(t) /\ k - 1 \in Nat /\ k \in 1..Len(t) /\ k - 1 + 1 = k
      BY <1>1, <2>2, <2>4
    <3>2. k - 1 \notin T
      BY <2>1, <2>2
    <3>3. Good(k - 1)
      BY <3>1, <3>2
    <3>4. PICK g : g = f[k - 1]
      OBVIOUS
    <3>5. g \in Seq(Rec) /\ Ordered(g) /\ Len(g) = k - 1 /\ \A q : First(g, Len(g), q) = First(t, k - 1, q)
      BY <3>3, <3>4
    <3>6. PICK r : r = t[k]
      OBVIOUS
    <3>7. r \in Rec
      BY <3>1, <3>6, RecIs
    <3>8. PICK v : v = f[k]
      OBVIOUS
    <3>9. v = Reports!Inserted(g, r)
      BY <1>5, <2>2, <2>4, <3>4, <3>6, <3>8
    <3>10. /\ v \in Seq(Rec) /\ Ordered(v) /\ Len(v) = Len(g) + 1
           /\ AsIfAppended(g, r, v)
      <4>1. g \in Seq(Rec) /\ Ordered(g)
        BY <3>5
      <4> HIDE DEF Good, T
      <4> QED
        BY <3>7, <3>9, <4>1, InsertedIs
    <3>11. ASSUME NEW q PROVE First(v, Len(v), q) = First(t, k, q)
      <4>1. k - 1 + 1 <= Len(t)
        BY <1>1, <3>1
      <4>2. First(t, k - 1 + 1, q) =
             IF First(t, k - 1, q) = Reports!None /\ t[k - 1 + 1].sequence = q
               THEN t[k - 1 + 1].metadata ELSE First(t, k - 1, q)
        <5> HIDE DEF Good, T
        <5> QED
          BY <3>1, <4>1, FirstStep
      <4> QED
        BY <3>1, <3>5, <3>6, <3>10, <4>2 DEF AsIfAppended
    <3>12. Len(v) = k
      BY <3>1, <3>5, <3>10
    <3> QED
      BY <2>2, <3>8, <3>10, <3>11, <3>12
  <2> QED
    BY <2>3, <2>4
<1>7. Good(Len(t))
  <2>1. Len(t) \in 0..Len(t) /\ Len(t) \notin T
    BY <1>1, <1>6
  <2> QED
    BY <2>1
<1> QED
  BY <1>4, <1>7

(* The vector that is searched is in order, and says the same of each event. *)
LEMMA InOrderIs ==
    ASSUME NEW t \in Seq(Rec), NEW u, u = Reports!InOrder(t)
    PROVE  /\ u \in Seq(Rec) /\ Ordered(u) /\ Len(u) \in Nat /\ Len(u) = Len(t)
           /\ \A q : First(u, Len(u), q) = First(t, Len(t), q)
<1>1. Len(t) \in Nat
  BY LenProperties
<1>2. CASE Reports!EventMetadataIsSorted(t)
  <2>1. u = t
    BY <1>2 DEF Reports!InOrder
  <2> QED
    BY <1>1, <1>2, <2>1, SortedOrdered
<1>3. CASE ~Reports!EventMetadataIsSorted(t)
  <2>1. u = Reports!Sorted(t)
    BY <1>3 DEF Reports!InOrder
  <2> QED
    BY <1>1, <2>1, SortedIs
<1> QED
  BY <1>2, <1>3

-----------------------------------------------------------------------------
(* What the binary search knows between two halvings.                        *)
Bounds == [left : Nat, right : Nat]
Narrowed(t, q, b) ==
    /\ b \in Bounds /\ b.left <= b.right /\ b.right <= Len(t)
    /\ \A k \in 1..b.left : t[k].sequence < q
    /\ \A k \in (b.right + 1)..Len(t) : t[k].sequence >= q

(* A halving keeps that, and leaves less to search.                          *)
LEMMA HalveIs ==
    ASSUME NEW t \in Seq(Rec), Ordered(t), NEW q \in Nat, NEW b, Narrowed(t, q, b),
           NEW c, c = Reports!Halve(t, q, b)
    PROVE  /\ Narrowed(t, q, c)
           /\ \A d \in Nat : b.right - b.left <= d + 1 => c.right - c.left <= d
<1>0. Len(t) \in Nat /\ \A k \in 1..Len(t) : t[k].sequence \in Nat
  BY LenProperties, RecIs
<1>1. b \in Bounds /\ b.left \in Nat /\ b.right \in Nat /\ b.left <= b.right /\ b.right <= Len(t)
  BY DEF Narrowed, Bounds
<1>2. CASE b.left >= b.right
  <2>1. c = b
    BY <1>2 DEF Reports!Halve
  <2> QED
    BY <1>1, <1>2, <2>1
<1>3. CASE ~(b.left >= b.right)
  <2>1. PICK m : m = b.left + (b.right - b.left) \div 2
    OBVIOUS
  <2>2. m \in Nat /\ b.left <= m /\ m < b.right
    BY <1>1, <1>3, <2>1
  <2>3. m + 1 \in 1..Len(t)
    BY <1>0, <1>1, <2>2
  <2>4. CASE Reports!Halves(t, q, m)
    <3>1. c = [b EXCEPT !.left = m + 1]
      BY <1>3, <2>1, <2>4 DEF Reports!Halve
    <3>2. c \in Bounds /\ c.left = m + 1 /\ c.right = b.right
      BY <1>1, <2>2, <3>1 DEF Bounds
    <3>3. t[m + 1].sequence < q
      BY <2>4 DEF Reports!Halves
    <3>4. ASSUME NEW k \in 1..(m + 1) PROVE t[k].sequence < q
      <4>1. k \in 1..Len(t) /\ k <= m + 1
        BY <1>0, <2>3
      <4>2. t[k].sequence <= t[m + 1].sequence
        BY <2>3, <4>1 DEF Ordered
      <4>3. t[k].sequence \in Nat /\ t[m + 1].sequence \in Nat
        BY <1>0, <2>3, <4>1
      <4> QED
        BY <3>3, <4>2, <4>3
    <3>5. \A k \in (b.right + 1)..Len(t) : t[k].sequence >= q
      BY DEF Narrowed
    <3>6. c.left <= c.right /\ c.right <= Len(t)
      BY <1>1, <2>2, <3>2
    <3>7. Narrowed(t, q, c)
      BY <3>2, <3>4, <3>5, <3>6 DEF Narrowed
    <3> QED
      BY <1>1, <2>2, <3>2, <3>7
  <2>5. CASE ~Reports!Halves(t, q, m)
    <3>1. c = [b EXCEPT !.right = m]
      BY <1>3, <2>1, <2>5 DEF Reports!Halve
    <3>2. c \in Bounds /\ c.left = b.left /\ c.right = m
      BY <1>1, <2>2, <3>1 DEF Bounds
    <3>3. t[m + 1].sequence >= q
      BY <1>0, <2>3, <2>5 DEF Reports!Halves
    <3>4. ASSUME NEW k \in (m + 1)..Len(t) PROVE t[k].sequence >= q
      <4>1. k \in 1..Len(t) /\ m + 1 <= k
        BY <1>0, <2>2
      <4>2. t[m + 1].sequence <= t[k].sequence
        BY <2>3, <4>1 DEF Ordered
      <4>3. t[k].sequence \in Nat /\ t[m + 1].sequence \in Nat
        BY <1>0, <2>3, <4>1
      <4> QED
        BY <3>3, <4>2, <4>3
    <3>5. \A k \in 1..b.left : t[k].sequence < q
      BY DEF Narrowed
    <3>6. c.left <= c.right /\ c.right <= Len(t)
      BY <1>0, <1>1, <2>2, <3>2
    <3>7. Narrowed(t, q, c)
      BY <3>2, <3>4, <3>5, <3>6 DEF Narrowed
    <3> QED
      BY <1>1, <2>2, <3>2, <3>7
  <2> QED
    BY <2>4, <2>5
<1> QED
  BY <1>2, <1>3

(* f[i] are the bounds after i halvings.                                     *)
IsSearch(t, q, n, f) ==
    f = [i \in 0..n |-> IF i = 0 THEN [left |-> 0, right |-> Len(t)]
                        ELSE Reports!Halve(t, q, f[i - 1])]

(* There are such bounds.                                                    *)
LEMMA SearchExists ==
    ASSUME NEW t, NEW q, NEW n \in Nat
    PROVE  \E f : IsSearch(t, q, n, f)
<1> DEFINE T == {m \in Nat : ~\E f : IsSearch(t, q, m, f)}
           all == [left |-> 0, right |-> Len(t)]
<1> SUFFICES ASSUME T # {} PROVE FALSE
  OBVIOUS
<1>1. PICK m \in T : \A y \in T : m <= y
  <2>1. T \subseteq Nat
    OBVIOUS
  <2> HIDE DEF T
  <2> QED
    BY <2>1, LeastOf
<1>2. CASE m = 0
  <2> DEFINE f == [i \in 0..0 |-> all]
  <2>1. IsSearch(t, q, 0, f)
    BY DEF IsSearch
  <2> QED
    BY <1>1, <1>2, <2>1
<1>3. CASE m # 0
  <2>1. m - 1 \in Nat /\ m - 1 \notin T
    BY <1>1, <1>3
  <2>2. PICK g : IsSearch(t, q, m - 1, g)
    BY <2>1
  <2> DEFINE f == [i \in 0..m |-> IF i = m THEN Reports!Halve(t, q, g[m - 1]) ELSE g[i]]
  <2>3. \A i \in 0..(m - 1) : g[i] = IF i = 0 THEN all ELSE Reports!Halve(t, q, g[i - 1])
    BY <2>2 DEF IsSearch
  <2>4. ASSUME NEW i \in 0..m PROVE f[i] = IF i = 0 THEN all ELSE Reports!Halve(t, q, f[i - 1])
    <3> HIDE DEF all
    <3> QED
      BY <1>3, <2>3
  <2>5. IsSearch(t, q, m, f)
    BY <2>4 DEF IsSearch
  <2> QED
    BY <1>1, <2>5
<1> QED
  BY <1>2, <1>3

(* In an ordered vector the search ends before the first record that is not  *)
(* below the sequence.                                                       *)
LEMMA PositionIs ==
    ASSUME NEW t \in Seq(Rec), Ordered(t), NEW q \in Nat,
           NEW p, p = Reports!EventMetadataPosition(t, q)
    PROVE  /\ p \in 1..(Len(t) + 1)
           /\ \A k \in 1..(p - 1) : t[k].sequence < q
           /\ \A k \in p..Len(t) : t[k].sequence >= q
<1> DEFINE h == CHOOSE f : IsSearch(t, q, Len(t), f)
<1>1. Len(t) \in Nat
  BY LenProperties
<1>2. p = h[Len(t)].left + 1
  BY DEF Reports!EventMetadataPosition, IsSearch
<1>3. IsSearch(t, q, Len(t), h)
  BY <1>1, SearchExists
<1>4. PICK f : IsSearch(t, q, Len(t), f) /\ p = f[Len(t)].left + 1
  BY <1>2, <1>3
<1>5. \A i \in 0..Len(t) : f[i] = IF i = 0 THEN [left |-> 0, right |-> Len(t)]
                                  ELSE Reports!Halve(t, q, f[i - 1])
  BY <1>4 DEF IsSearch
<1> DEFINE Good(k) == Narrowed(t, q, f[k]) /\ f[k].right - f[k].left <= Len(t) - k
           T == {k \in 0..Len(t) : ~Good(k)}
<1>6. ASSUME T # {} PROVE FALSE
  <2>1. PICK k \in T : \A y \in T : k <= y
    <3>1. T \subseteq Nat
      BY <1>1
    <3> HIDE DEF T
    <3> QED
      BY <1>6, <3>1, LeastOf
  <2>2. k \in 0..Len(t) /\ k \in Nat /\ ~Good(k)
    BY <1>1, <2>1
  <2>3. CASE k = 0
    <3>1. PICK b : b = f[0]
      OBVIOUS
    <3>2. b = [left |-> 0, right |-> Len(t)]
      BY <1>1, <1>5, <3>1
    <3>3. b \in Bounds /\ b.left = 0 /\ b.right = Len(t)
      BY <1>1, <3>2 DEF Bounds
    <3>4. Narrowed(t, q, b)
      BY <1>1, <3>3 DEF Narrowed
    <3> QED
      BY <1>1, <2>2, <2>3, <3>1, <3>3, <3>4
  <2>4. CASE k # 0
    <3>1. k - 1 \in 0..Len(t) /\ k - 1 \in Nat /\ k \in 1..Len(t)
      BY <1>1, <2>2, <2>4
    <3>2. k - 1 \notin T
      BY <2>1, <2>2
    <3>3. PICK b : b = f[k - 1]
      OBVIOUS
    <3>4. Narrowed(t, q, b) /\ b.right - b.left <= Len(t) - (k - 1)
      BY <3>1, <3>2, <3>3
    <3>5. PICK c : c = f[k]
      OBVIOUS
    <3>6. c = Reports!Halve(t, q, b)
      BY <1>5, <2>2, <2>4, <3>3, <3>5
    <3>7. Narrowed(t, q, c) /\ \A d \in Nat : b.right - b.left <= d + 1 => c.right - c.left <= d
      <4> HIDE DEF Good, T, h
      <4>1. Narrowed(t, q, b)
        BY <3>4
      <4> QED
        BY <3>6, <4>1, HalveIs
    <3>8. Len(t) - k \in Nat /\ Len(t) - (k - 1) = Len(t) - k + 1
      BY <1>1, <2>2
    <3>9. c.right - c.left <= Len(t) - k
      BY <3>4, <3>7, <3>8
    <3> QED
      BY <2>2, <3>5, <3>7, <3>9
  <2> QED
    BY <2>3, <2>4
<1>7. Good(Len(t))
  <2>1. Len(t) \in 0..Len(t) /\ Len(t) \notin T
    BY <1>1, <1>6
  <2> QED
    BY <2>1
<1>8. PICK b : b = f[Len(t)]
  OBVIOUS
<1>9. /\ b.left \in Nat /\ b.right \in Nat /\ b.left <= b.right /\ b.right <= Len(t)
      /\ b.right - b.left <= Len(t) - Len(t)
      /\ \A k \in 1..b.left : t[k].sequence < q
      /\ \A k \in (b.right + 1)..Len(t) : t[k].sequence >= q
  BY <1>7, <1>8 DEF Narrowed, Bounds
<1>10. p = b.left + 1 /\ b.right = b.left
  BY <1>1, <1>4, <1>8, <1>9
<1> QED
  BY <1>1, <1>9, <1>10

(* Where that record is about the sequence, it is the first that is.         *)
LEMMA AtFirst ==
    ASSUME NEW t \in Seq(Rec), Ordered(t), NEW q \in Nat,
           NEW p, p = Reports!EventMetadataPosition(t, q)
    PROVE  First(t, Len(t), q) = IF Reports!IsAt(t, p, q) THEN t[p].metadata ELSE Reports!None
<1>1. Len(t) \in Nat /\ DOMAIN t = 1..Len(t) /\ \A k \in 1..Len(t) : t[k].sequence \in Nat
  BY LenProperties, RecIs
<1>2. /\ p \in 1..(Len(t) + 1) /\ \A k \in 1..(p - 1) : t[k].sequence < q
      /\ \A k \in p..Len(t) : t[k].sequence >= q
  BY PositionIs
<1>3. ASSUME NEW k \in 1..(p - 1) PROVE t[k].sequence # q
  <2>1. k \in 1..Len(t)
    BY <1>1, <1>2
  <2> QED
    BY <1>1, <1>2, <2>1
<1>4. CASE Reports!IsAt(t, p, q)
  <2>1. FirstAt(t, Len(t), q, p)
    BY <1>1, <1>3, <1>4 DEF FirstAt, Reports!IsAt
  <2> QED
    BY <1>1, <1>4, <2>1, FirstIs
<1>5. CASE ~Reports!IsAt(t, p, q)
  <2>1. ASSUME NEW k \in 1..Len(t), t[k].sequence = q PROVE FALSE
    <3>1. p <= k /\ p \in 1..Len(t)
      BY <1>1, <1>2, <1>3, <2>1
    <3>2. t[p].sequence >= q /\ t[p].sequence <= t[k].sequence
      BY <1>1, <1>2, <3>1 DEF Ordered
    <3>3. t[p].sequence = q
      BY <1>1, <2>1, <3>1, <3>2
    <3> QED
      BY <1>1, <1>5, <3>1, <3>3 DEF Reports!IsAt
  <2> QED
    BY <1>5, <2>1, FirstNone
<1> QED
  BY <1>4, <1>5

(* A lookup finds the first record about an event.                           *)
LEMMA LookupIs ==
    ASSUME NEW t \in Seq(Rec), NEW q \in Nat
    PROVE  Reports!Lookup(t, q) = First(t, Len(t), q)
<1>1. PICK u : u = Reports!InOrder(t)
  OBVIOUS
<1>2. u \in Seq(Rec) /\ Ordered(u) /\ First(u, Len(u), q) = First(t, Len(t), q)
  BY <1>1, InOrderIs
<1>3. PICK p : p = Reports!EventMetadataPosition(u, q)
  OBVIOUS
<1>4. First(u, Len(u), q) = IF Reports!IsAt(u, p, q) THEN u[p].metadata ELSE Reports!None
  BY <1>2, <1>3, AtFirst
<1> QED
  BY <1>1, <1>2, <1>3, <1>4 DEF Reports!Lookup

-----------------------------------------------------------------------------
(* u says m of the event s, and of every other event what t says.            *)
NowSays(t, s, m, u) ==
    \A q : First(u, Len(u), q) = IF q = s THEN m ELSE First(t, Len(t), q)

(* The places of a vector of length x, without those from p to before e: its *)
(* length is y.                                                              *)
Gap(x, p, e, y) ==
    /\ \A k \in 1..(p - 1) : k \in 1..y /\ k \in 1..x
    /\ \A k \in e..x : k - e + p \in 1..y /\ k \in 1..x
    /\ \A j \in 1..y : \/ j \in 1..(p - 1)
                       \/ j + e - p \in e..x /\ j = (j + e - p) - e + p

(* Each place that is left has one place it came from.                       *)
LEMMA GapIs ==
    ASSUME NEW x \in Nat, NEW p \in Nat, NEW e \in Nat, NEW y, 1 <= p, p <= x, p + 1 <= e,
           e <= x + 1, y = p - 1 + (x - e + 1)
    PROVE  Gap(x, p, e, y)
  BY DEF Gap

(* Draining takes the records about one event away, and no other.            *)
LEMMA DrainedIs ==
    ASSUME NEW t \in Seq(Rec), Ordered(t), NEW s \in Nat,
           NEW p, p = Reports!EventMetadataPosition(t, s), Reports!IsAt(t, p, s),
           NEW u, u = Reports!Drained(t, p, s)
    PROVE  u \in Seq(Rec) /\ NowSays(t, s, Reports!None, u)
<1>1. Len(t) \in Nat /\ DOMAIN t = 1..Len(t) /\ \A k \in 1..Len(t) : t[k].sequence \in Nat
  BY LenProperties, RecIs
<1>2. /\ p \in 1..(Len(t) + 1) /\ \A k \in 1..(p - 1) : t[k].sequence < s
      /\ \A k \in p..Len(t) : t[k].sequence >= s
  BY PositionIs
<1>3. p \in 1..Len(t) /\ t[p].sequence = s
  BY <1>1 DEF Reports!IsAt
<1> DEFINE Q(e) == /\ ~Reports!IsAt(t, e, s)
                   /\ \A k \in p..(e - 1) : Reports!IsAt(t, k, s)
           end == CHOOSE e \in (p + 1)..(Len(t) + 1) : Q(e)
<1>4. \E e \in (p + 1)..(Len(t) + 1) : Q(e)
  <2> DEFINE T == {e \in (p + 1)..(Len(t) + 1) : ~Reports!IsAt(t, e, s)}
  <2>1. T \subseteq Nat /\ T # {}
    <3>1. Len(t) + 1 \in T
      BY <1>1, <1>3 DEF Reports!IsAt
    <3> QED
      BY <1>1, <1>3, <3>1
  <2>2. PICK e \in T : \A y \in T : e <= y
    <3> HIDE DEF T
    <3> QED
      BY <2>1, LeastOf
  <2>3. e \in (p + 1)..(Len(t) + 1) /\ ~Reports!IsAt(t, e, s)
    BY <2>2
  <2>4. ASSUME NEW k \in p..(e - 1) PROVE Reports!IsAt(t, k, s)
    <3>1. CASE k = p
      BY <3>1
    <3>2. CASE k # p
      <4>1. k \in (p + 1)..(Len(t) + 1) /\ k < e
        BY <1>1, <1>3, <2>3, <3>2
      <4> QED
        BY <2>2, <4>1, <2>3, <1>3
    <3> QED
      BY <3>1, <3>2
  <2> QED
    BY <2>3, <2>4
<1>5. end \in (p + 1)..(Len(t) + 1) /\ Q(end)
  BY <1>4
<1>6. u = SubSeq(t, 1, p - 1) \o SubSeq(t, end, Len(t))
  BY DEF Reports!Drained
<1>7. PICK e \in (p + 1)..(Len(t) + 1) : Q(e) /\ u = SubSeq(t, 1, p - 1) \o SubSeq(t, e, Len(t))
  BY <1>5, <1>6
<1>0. /\ Len(t) \in Nat /\ p \in Nat /\ 1 <= p /\ p <= Len(t)
      /\ e \in Nat /\ p + 1 <= e /\ e <= Len(t) + 1
  BY <1>1, <1>3, <1>7
<1>8. PICK a : a = SubSeq(t, 1, p - 1)
  OBVIOUS
<1>9. PICK b : b = SubSeq(t, e, Len(t))
  OBVIOUS
<1>10. a \in Seq(Rec) /\ Len(a) = p - 1 /\ \A k \in 1..(p - 1) : a[k] = t[k]
  BY <1>1, <1>3, <1>8, SubSeqProperties
<1>11. b \in Seq(Rec) /\ Len(b) = Len(t) - e + 1 /\ \A k \in 1..(Len(t) - e + 1) : b[k] = t[e + k - 1]
  <2>1. \A i \in e..Len(t) : t[i] \in Rec
    BY <1>0, RecIs
  <2>2. e \in Int /\ Len(t) \in Int /\ ((IF e <= Len(t) THEN Len(t) - e + 1 ELSE 0) = Len(t) - e + 1)
    BY <1>0
  <2> QED
    BY <1>9, <2>1, <2>2, SubSeqProperties
<1>12. /\ u \in Seq(Rec) /\ Len(u) = Len(a) + Len(b)
       /\ \A k \in 1..Len(a) : u[k] = a[k]
       /\ \A k \in 1..Len(b) : u[Len(a) + k] = b[k]
  <2>1. a \in Seq(Rec) /\ b \in Seq(Rec) /\ u = a \o b
    BY <1>7, <1>8, <1>9, <1>10, <1>11
  <2> QED
    BY <2>1, ConcatIs
<1>13. Len(u) = p - 1 + (Len(t) - e + 1) /\ Len(u) \in Nat
  BY <1>1, <1>3, <1>10, <1>11, <1>12
<1>30. /\ \A k \in 1..(p - 1) : k \in 1..Len(u) /\ k \in 1..Len(t)
       /\ \A k \in e..Len(t) : k - e + p \in 1..Len(u) /\ k \in 1..Len(t)
       /\ \A j \in 1..Len(u) : \/ j \in 1..(p - 1)
                               \/ j + e - p \in e..Len(t) /\ j = (j + e - p) - e + p
  <2>1. PICK x : x = Len(t)
    OBVIOUS
  <2>2. PICK y : y = Len(u)
    OBVIOUS
  <2>3. /\ x \in Nat /\ p \in Nat /\ 1 <= p /\ p <= x
        /\ e \in Nat /\ p + 1 <= e /\ e <= x + 1
    BY <1>0, <2>1
  <2>4. y = p - 1 + (x - e + 1)
    BY <1>13, <2>1, <2>2
  <2>5. Gap(x, p, e, y)
    BY <2>3, <2>4, GapIs
  <2> QED
    BY <2>1, <2>2, <2>5 DEF Gap
<1>14. ASSUME NEW k \in 1..(p - 1) PROVE u[k] = t[k] /\ k \in 1..Len(u) /\ k \in 1..Len(t)
  <2>1. k \in 1..Len(a) /\ k \in 1..Len(u) /\ k \in 1..Len(t)
    BY <1>10, <1>30
  <2> QED
    BY <1>10, <1>12, <2>1
<1>15. ASSUME NEW k \in e..Len(t)
       PROVE  u[k - e + p] = t[k] /\ k - e + p \in 1..Len(u) /\ k \in 1..Len(t)
  <2>1. k - e + 1 \in 1..(Len(t) - e + 1) /\ p - 1 + (k - e + 1) = k - e + p /\ e + (k - e + 1) - 1 = k
    BY <1>0
  <2>2. u[p - 1 + (k - e + 1)] = b[k - e + 1] /\ b[k - e + 1] = t[e + (k - e + 1) - 1]
    BY <1>10, <1>11, <1>12, <2>1
  <2>3. k - e + p \in 1..Len(u) /\ k \in 1..Len(t)
    BY <1>30
  <2> QED
    BY <2>1, <2>2, <2>3
<1>16. ASSUME NEW j \in 1..Len(u)
       PROVE  \/ j \in 1..(p - 1)
              \/ j + e - p \in e..Len(t) /\ j = (j + e - p) - e + p
  BY <1>30
<1>17. ASSUME NEW k \in e..Len(t) PROVE t[k].sequence # s
  <2>1. e \in 1..Len(t) /\ k \in 1..Len(t) /\ p <= e /\ e <= k
    BY <1>0
  <2>2. t[e].sequence # s
    <3>1. ~Reports!IsAt(t, e, s)
      BY <1>7
    <3> QED
      BY <1>1, <2>1, <3>1 DEF Reports!IsAt
  <2>3. t[p].sequence <= t[e].sequence /\ t[e].sequence <= t[k].sequence
    BY <1>3, <2>1 DEF Ordered
  <2>4. t[e].sequence \in Nat /\ t[k].sequence \in Nat
    BY <1>1, <2>1
  <2> QED
    BY <1>3, <2>2, <2>3, <2>4
<1>18. ASSUME NEW k \in 1..(p - 1) PROVE t[k].sequence # s
  BY <1>1, <1>2, <1>14
<1>19. First(u, Len(u), s) = Reports!None
  <2>1. ASSUME NEW j \in 1..Len(u) PROVE u[j].sequence # s
    <3>1. CASE j \in 1..(p - 1)
      BY <1>14, <1>18, <3>1
    <3>2. CASE j + e - p \in e..Len(t) /\ j = (j + e - p) - e + p
      <4>1. PICK k : k = j + e - p
        OBVIOUS
      <4>2. k \in e..Len(t) /\ j = k - e + p
        BY <3>2, <4>1
      <4> QED
        BY <1>15, <1>17, <4>2
    <3> QED
      BY <1>16, <3>1, <3>2
  <2> QED
    BY <2>1, FirstNone
<1>20. ASSUME NEW q, q # s PROVE First(u, Len(u), q) = First(t, Len(t), q)
  <2>1. CASE \E k \in 1..Len(t) : t[k].sequence = q
    <3>1. PICK k \in 1..Len(t) : FirstAt(t, Len(t), q, k)
      BY <1>1, <2>1, FirstFound
    <3>2. First(t, Len(t), q) = t[k].metadata
      BY <1>1, <3>1, FirstIs
    <3>3. t[k].sequence = q /\ \A j \in 1..(k - 1) : t[j].sequence # q
      BY <3>1 DEF FirstAt
    <3>4. CASE k \in 1..(p - 1)
      <4>1. \A j \in 1..(k - 1) : j \in 1..(p - 1)
        BY <1>1, <1>3, <3>4
      <4>2. FirstAt(u, Len(u), q, k)
        BY <1>14, <3>3, <3>4, <4>1 DEF FirstAt
      <4> QED
        BY <1>13, <1>14, <3>2, <3>4, <4>2, FirstIs
    <3>5. CASE k \in p..(e - 1)
      <4>1. Reports!IsAt(t, k, s)
        BY <1>7, <3>5
      <4> QED
        BY <1>20, <3>3, <4>1 DEF Reports!IsAt
    <3>6. CASE k \in e..Len(t)
      <4>1. PICK i : i = k - e + p
        OBVIOUS
      <4>2. u[i] = t[k] /\ i \in 1..Len(u)
        BY <1>15, <3>6, <4>1
      <4>3. ASSUME NEW j \in 1..(i - 1) PROVE u[j].sequence # q
        <5>0. j \in 1..Len(u)
          BY <1>13, <4>2
        <5>1. CASE j \in 1..(p - 1)
          <6>1. j \in 1..(k - 1)
            BY <1>1, <1>3, <1>7, <3>6, <5>1
          <6> QED
            BY <1>14, <3>3, <5>1, <6>1
        <5>2. CASE j + e - p \in e..Len(t) /\ j = (j + e - p) - e + p
          <6>1. PICK l : l = j + e - p
            OBVIOUS
          <6>2. l \in e..Len(t) /\ j = l - e + p
            BY <5>2, <6>1
          <6>3. l \in 1..(k - 1)
            <7>1. k \in Int /\ l \in Int /\ 1 <= l
              BY <1>0, <6>2
            <7>2. l - e + p <= k - e + p - 1
              BY <1>0, <4>1, <6>2
            <7> QED
              BY <1>0, <7>1, <7>2
          <6>4. u[l - e + p] = t[l] /\ t[l].sequence # q
            BY <1>15, <3>3, <6>2, <6>3
          <6> QED
            BY <6>2, <6>4
        <5> QED
          BY <1>16, <5>0, <5>1, <5>2
      <4>4. FirstAt(u, Len(u), q, i)
        BY <3>3, <4>2, <4>3 DEF FirstAt
      <4> QED
        BY <1>13, <3>2, <4>2, <4>4, FirstIs
    <3> QED
      BY <1>1, <1>3, <1>7, <3>4, <3>5, <3>6
  <2>2. CASE ~\E k \in 1..Len(t) : t[k].sequence = q
    <3>1. ASSUME NEW j \in 1..Len(u) PROVE u[j].sequence # q
      <4>1. CASE j \in 1..(p - 1)
        BY <1>14, <2>2, <4>1
      <4>2. CASE j + e - p \in e..Len(t) /\ j = (j + e - p) - e + p
        <5>1. PICK k : k = j + e - p
          OBVIOUS
        <5>2. k \in e..Len(t) /\ j = k - e + p
          BY <4>2, <5>1
        <5>3. u[k - e + p] = t[k] /\ k \in 1..Len(t)
          BY <1>15, <5>2
        <5> QED
          BY <2>2, <5>2, <5>3
      <4> QED
        BY <1>16, <4>1, <4>2
    <3> QED
      BY <2>2, <3>1, FirstNone
  <2> QED
    BY <2>1, <2>2
<1> QED
  BY <1>12, <1>19, <1>20 DEF NowSays

(* Replacing the record the search found changes its event's alone.          *)
LEMMA ReplacedIs ==
    ASSUME NEW t \in Seq(Rec), Ordered(t), NEW s \in Nat,
           NEW p, p = Reports!EventMetadataPosition(t, s), Reports!IsAt(t, p, s),
           NEW r \in Rec, r.sequence = s, NEW u \in Seq(Rec), Len(u) = Len(t), u[p] = r,
           \A k \in 1..Len(t) : k # p => u[k] = t[k]
    PROVE  NowSays(t, s, r.metadata, u)
<1>1. Len(t) \in Nat /\ DOMAIN t = 1..Len(t) /\ \A k \in 1..Len(t) : t[k].sequence \in Nat
  BY LenProperties, RecIs
<1>2. p \in 1..Len(t) /\ t[p].sequence = s
  BY <1>1 DEF Reports!IsAt
<1>3. \A k \in 1..(p - 1) : k \in 1..Len(t) /\ t[k].sequence # s
  <2>1. p \in 1..(Len(t) + 1) /\ \A k \in 1..(p - 1) : t[k].sequence < s
    BY PositionIs
  <2> QED
    BY <1>1, <1>2, <2>1
<1>4. Len(u) = Len(t) /\ u[p] = r /\ \A k \in 1..Len(t) : k # p => u[k] = t[k]
  OBVIOUS
<1>5. First(u, Len(u), s) = r.metadata
  <2>1. FirstAt(u, Len(u), s, p)
    BY <1>1, <1>2, <1>3, <1>4 DEF FirstAt
  <2> QED
    BY <1>1, <1>4, <2>1, FirstIs
<1>6. ASSUME NEW q, q # s PROVE First(u, Len(u), q) = First(t, Len(t), q)
  <2>0. \A k \in 1..Len(t) : (u[k].sequence = q) <=> (t[k].sequence = q)
    BY <1>2, <1>4, <1>6
  <2>1. CASE \E k \in 1..Len(t) : t[k].sequence = q
    <3>1. PICK k \in 1..Len(t) : FirstAt(t, Len(t), q, k)
      BY <1>1, <2>1, FirstFound
    <3>2. k # p /\ \A j \in 1..(k - 1) : j \in 1..Len(t)
      BY <1>1, <1>2, <1>6, <3>1 DEF FirstAt
    <3>3. FirstAt(u, Len(t), q, k)
      BY <2>0, <3>1, <3>2 DEF FirstAt
    <3>4. First(t, Len(t), q) = t[k].metadata /\ First(u, Len(t), q) = u[k].metadata
      BY <1>1, <3>1, <3>3, FirstIs
    <3> QED
      BY <1>4, <3>2, <3>4
  <2>2. CASE ~\E k \in 1..Len(t) : t[k].sequence = q
    <3>1. First(t, Len(t), q) = Reports!None /\ First(u, Len(t), q) = Reports!None
      BY <2>0, <2>2, FirstNone
    <3> QED
      BY <1>4, <3>1
  <2> QED
    BY <2>1, <2>2
<1> QED
  BY <1>5, <1>6 DEF NowSays

(* A record inserted where the search ended changes its event's alone.       *)
LEMMA FirstInsertedIs ==
    ASSUME NEW t \in Seq(Rec), Ordered(t), NEW s \in Nat,
           NEW p \in 1..(Len(t) + 1), \A k \in 1..(p - 1) : t[k].sequence < s,
           NEW r \in Rec, r.sequence = s, NEW u, u = Reports!InsertAt(t, p, r)
    PROVE  u \in Seq(Rec) /\ NowSays(t, s, r.metadata, u)
<1>1. Len(t) \in Nat /\ DOMAIN t = 1..Len(t) /\ \A k \in 1..Len(t) : t[k].sequence \in Nat
  BY LenProperties, RecIs
<1>2. p \in 1..(Len(t) + 1) /\ \A k \in 1..(p - 1) : t[k].sequence < s
  OBVIOUS
<1>3. /\ u \in Seq(Rec) /\ Len(u) = Len(t) + 1 /\ u[p] = r
      /\ \A k \in 1..(p - 1) : u[k] = t[k]
      /\ \A k \in (p + 1)..(Len(t) + 1) : u[k] = t[k - 1]
  <2>1. IsInsertion(Rec, t, p, r, u)
    BY InsertAtIs
  <2> QED
    BY <2>1 DEF IsInsertion
<1>4. ASSUME NEW k \in 1..(p - 1) PROVE k \in 1..Len(t) /\ t[k].sequence # s
  <2>1. k \in 1..Len(t)
    BY <1>1, <1>2
  <2> QED
    BY <1>1, <1>2, <2>1
<1>5. First(u, Len(u), s) = r.metadata
  <2>1. FirstAt(u, Len(u), s, p)
    <3>1. p \in 1..Len(u) /\ u[p].sequence = s
      BY <1>1, <1>2, <1>3
    <3>2. \A k \in 1..(p - 1) : u[k].sequence # s
      BY <1>3, <1>4
    <3> QED
      BY <3>1, <3>2 DEF FirstAt
  <2> QED
    BY <1>1, <1>3, <2>1, FirstIs
<1>6. ASSUME NEW q, q # s PROVE First(u, Len(u), q) = First(t, Len(t), q)
  <2>1. CASE \E k \in 1..Len(t) : t[k].sequence = q
    <3>1. PICK k \in 1..Len(t) : FirstAt(t, Len(t), q, k)
      BY <1>1, <2>1, FirstFound
    <3>2. First(t, Len(t), q) = t[k].metadata
      BY <1>1, <3>1, FirstIs
    <3>3. t[k].sequence = q /\ \A j \in 1..(k - 1) : t[j].sequence # q
      BY <3>1 DEF FirstAt
    <3>4. CASE k \in 1..(p - 1)
      <4>1. \A j \in 1..(k - 1) : j \in 1..(p - 1)
        BY <1>1, <1>2, <3>4
      <4>2. k \in 1..Len(u) /\ u[k] = t[k]
        BY <1>1, <1>3, <3>4
      <4>3. \A j \in 1..(k - 1) : u[j].sequence # q
        BY <1>3, <3>3, <4>1
      <4>4. FirstAt(u, Len(u), q, k)
        BY <3>3, <4>2, <4>3 DEF FirstAt
      <4> QED
        BY <1>1, <1>3, <3>2, <4>2, <4>4, FirstIs
    <3>5. CASE k \in p..Len(t)
      <4>1. k + 1 \in (p + 1)..(Len(t) + 1) /\ k + 1 - 1 = k /\ k + 1 \in 1..Len(u)
        BY <1>1, <1>2, <1>3, <3>5
      <4>2. u[k + 1] = t[k]
        BY <1>3, <4>1
      <4>3. ASSUME NEW j \in 1..k PROVE u[j].sequence # q
        <5>1. CASE j \in 1..(p - 1)
          <6>1. j \in 1..(k - 1)
            BY <1>2, <3>5, <5>1
          <6> QED
            BY <1>3, <3>3, <5>1, <6>1
        <5>2. CASE j = p
          BY <1>3, <1>6, <5>2
        <5>3. CASE j \in (p + 1)..k
          <6>1. j \in (p + 1)..(Len(t) + 1) /\ j - 1 \in 1..(k - 1)
            BY <1>1, <1>2, <5>3
          <6> QED
            BY <1>3, <3>3, <6>1
        <5> QED
          BY <1>2, <3>5, <5>1, <5>2, <5>3
      <4>4. FirstAt(u, Len(u), q, k + 1)
        BY <3>3, <4>1, <4>2, <4>3 DEF FirstAt
      <4> QED
        BY <1>1, <1>3, <3>2, <4>2, <4>4, FirstIs
    <3> QED
      BY <1>1, <1>2, <3>4, <3>5
  <2>2. CASE ~\E k \in 1..Len(t) : t[k].sequence = q
    <3>1. ASSUME NEW j \in 1..Len(u) PROVE u[j].sequence # q
      <4>1. CASE j \in 1..(p - 1)
        BY <1>3, <1>4, <2>2, <4>1
      <4>2. CASE j = p
        BY <1>3, <1>6, <4>2
      <4>3. CASE j \in (p + 1)..(Len(t) + 1)
        <5>1. j - 1 \in 1..Len(t) /\ u[j] = t[j - 1]
          BY <1>1, <1>2, <1>3, <4>3
        <5> QED
          BY <2>2, <5>1
      <4> QED
        BY <1>1, <1>2, <1>3, <4>1, <4>2, <4>3
    <3> QED
      BY <2>2, <3>1, FirstNone
  <2> QED
    BY <2>1, <2>2
<1> QED
  BY <1>3, <1>5, <1>6 DEF NowSays

-----------------------------------------------------------------------------
(* The first record about an event is what was last set for it.              *)
EventsInv ==
    /\ pEvent_metadata \in Seq(Rec)
    /\ pLatest \in [SequenceNumbers -> Notes \cup {Reports!None}]
    /\ \A q \in SequenceNumbers : First(pEvent_metadata, Len(pEvent_metadata), q) = pLatest[q]

(* A new report satisfies EventsInv.                                         *)
LEMMA EventsInitInv == Reports!Init => EventsInv
<1> SUFFICES ASSUME Reports!Init PROVE EventsInv
  OBVIOUS
<1>1. pEvent_metadata = <<>> /\ pLatest = [s \in SequenceNumbers |-> Reports!None]
  BY DEF Reports!Init
<1>2. pEvent_metadata \in Seq(Rec) /\ Len(pEvent_metadata) = 0
  BY <1>1
<1>3. \A q : First(pEvent_metadata, 0, q) = Reports!None
  BY FirstNone
<1> QED
  BY <1>1, <1>2, <1>3 DEF EventsInv

(* set_event_metadata keeps EventsInv.                                       *)
LEMMA SetStep ==
    ASSUME EventsInv, NEW s \in SequenceNumbers, NEW m \in Notes \cup {Reports!None},
           Reports!SetEventMetadata(s, m)
    PROVE  EventsInv'
<1>0. s \in Nat
  BY ReportAssumption
<1>1. PICK v \in Seq(Rec) : v = pEvent_metadata
  BY DEF EventsInv
<1>2. PICK w : w = pEvent_metadata'
  OBVIOUS
<1>3. PICK t : t = Reports!InOrder(v)
  OBVIOUS
<1>4. /\ t \in Seq(Rec) /\ Ordered(t) /\ \A q : First(t, Len(t), q) = First(v, Len(v), q)
  BY <1>3, InOrderIs
<1>5. PICK p : p = Reports!EventMetadataPosition(t, s)
  OBVIOUS
<1>6. w = IF m = Reports!None THEN IF Reports!IsAt(t, p, s) THEN Reports!Drained(t, p, s) ELSE t
          ELSE IF Reports!IsAt(t, p, s) THEN [t EXCEPT ![p] = Reports!Record(s, m)]
          ELSE Reports!InsertAt(t, p, Reports!Record(s, m))
  BY <1>1, <1>2, <1>3, <1>5 DEF Reports!SetEventMetadata
<1>7. pLatest' = [pLatest EXCEPT ![s] = m]
  BY DEF Reports!SetEventMetadata
<1>8. w \in Seq(Rec) /\ NowSays(t, s, m, w)
  <2>1. t \in Seq(Rec) /\ Ordered(t)
    BY <1>4
  <2>2. CASE m = Reports!None /\ Reports!IsAt(t, p, s)
    <3>1. w = Reports!Drained(t, p, s) /\ Reports!IsAt(t, p, s)
      BY <1>6, <2>2
    <3>2. w \in Seq(Rec) /\ NowSays(t, s, Reports!None, w)
      BY <1>0, <1>5, <2>1, <3>1, DrainedIs
    <3> QED
      BY <2>2, <3>2
  <2>3. CASE m = Reports!None /\ ~Reports!IsAt(t, p, s)
    <3>1. w = t
      BY <1>6, <2>3
    <3>2. First(t, Len(t), s) = Reports!None
      BY <1>0, <1>5, <2>1, <2>3, AtFirst
    <3> QED
      BY <2>1, <2>3, <3>1, <3>2 DEF NowSays
  <2>4. PICK r : r = Reports!Record(s, m)
    OBVIOUS
  <2>5. m # Reports!None => r \in Rec /\ r.sequence = s /\ r.metadata = m
    BY <2>4 DEF Rec, Reports!Record
  <2>6. CASE m # Reports!None /\ Reports!IsAt(t, p, s)
    <3>1. w = [t EXCEPT ![p] = r] /\ Reports!IsAt(t, p, s) /\ r \in Rec /\ r.sequence = s
      BY <1>6, <2>4, <2>5, <2>6
    <3>2. p \in 1..Len(t)
      BY <2>1, <3>1, LenProperties DEF Reports!IsAt
    <3>3. w \in Seq(Rec) /\ Len(w) = Len(t) /\ w[p] = r /\ \A k \in 1..Len(t) : k # p => w[k] = t[k]
      BY <2>1, <3>1, <3>2, ExceptSeq
    <3>4. NowSays(t, s, r.metadata, w)
      <4>1. Reports!IsAt(t, p, s) /\ r \in Rec /\ r.sequence = s
        BY <3>1
      <4> QED
        BY <1>0, <1>5, <2>1, <3>3, <4>1, ReplacedIs
    <3> QED
      BY <2>5, <2>6, <3>3, <3>4
  <2>7. CASE m # Reports!None /\ ~Reports!IsAt(t, p, s)
    <3>1. w = Reports!InsertAt(t, p, r) /\ r \in Rec /\ r.sequence = s
      BY <1>6, <2>4, <2>5, <2>7
    <3>3. p \in 1..(Len(t) + 1) /\ \A k \in 1..(p - 1) : t[k].sequence < s
      BY <1>0, <1>5, <2>1, PositionIs
    <3>2. w \in Seq(Rec) /\ NowSays(t, s, r.metadata, w)
      BY <1>0, <2>1, <3>1, <3>3, FirstInsertedIs
    <3> QED
      BY <2>5, <2>7, <3>2
  <2> QED
    BY <2>2, <2>3, <2>6, <2>7
<1>9. pLatest \in [SequenceNumbers -> Notes \cup {Reports!None}]
  BY DEF EventsInv
<1>10. ASSUME NEW q \in SequenceNumbers PROVE First(w, Len(w), q) = pLatest'[q]
  <2>1. First(v, Len(v), q) = pLatest[q]
    BY <1>1 DEF EventsInv
  <2>2. First(w, Len(w), q) = IF q = s THEN m ELSE pLatest[q]
    BY <1>4, <1>8, <2>1 DEF NowSays
  <2> QED
    BY <1>7, <1>9, <2>2
<1>11. pLatest' \in [SequenceNumbers -> Notes \cup {Reports!None}]
  BY <1>7, <1>9
<1> QED
  BY <1>2, <1>8, <1>10, <1>11 DEF EventsInv

(* A record pushed past the sorted vector keeps EventsInv.                   *)
LEMMA PushStep ==
    ASSUME EventsInv, NEW s \in SequenceNumbers, NEW m \in Notes, Reports!PushRecord(s, m)
    PROVE  EventsInv'
<1>1. PICK v \in Seq(Rec) : v = pEvent_metadata
  BY DEF EventsInv
<1>2. PICK w : w = pEvent_metadata'
  OBVIOUS
<1>3. PICK r : r = Reports!Record(s, m)
  OBVIOUS
<1>4. r \in Rec /\ r.sequence = s /\ r.metadata = m
  BY <1>3 DEF Rec, Reports!Record
<1>5. w = Append(v, r) /\ pLatest' = [pLatest EXCEPT ![s] = IF @ = Reports!None THEN m ELSE @]
  BY <1>1, <1>2, <1>3 DEF Reports!PushRecord
<1>6. Len(v) \in Nat
  BY LenProperties
<1>7. /\ w \in Seq(Rec) /\ Len(w) = Len(v) + 1 /\ w[Len(v) + 1] = r
      /\ \A k \in 1..Len(v) : w[k] = v[k]
  BY <1>4, <1>5, AppendProperties
<1>8. ASSUME NEW q PROVE First(w, Len(v), q) = First(v, Len(v), q)
  <2>1. CASE \E k \in 1..Len(v) : v[k].sequence = q
    <3>1. PICK k \in 1..Len(v) : FirstAt(v, Len(v), q, k)
      BY <1>6, <2>1, FirstFound
    <3>2. \A j \in 1..(k - 1) : j \in 1..Len(v)
      BY <1>6
    <3>3. FirstAt(w, Len(v), q, k)
      BY <1>7, <3>1, <3>2 DEF FirstAt
    <3>4. First(v, Len(v), q) = v[k].metadata /\ First(w, Len(v), q) = w[k].metadata
      BY <1>6, <3>1, <3>3, FirstIs
    <3> QED
      BY <1>7, <3>4
  <2>2. CASE ~\E k \in 1..Len(v) : v[k].sequence = q
    <3>1. First(v, Len(v), q) = Reports!None /\ First(w, Len(v), q) = Reports!None
      BY <1>7, <2>2, FirstNone
    <3> QED
      BY <3>1
  <2> QED
    BY <2>1, <2>2
<1>9. pLatest \in [SequenceNumbers -> Notes \cup {Reports!None}]
  BY DEF EventsInv
<1>10. ASSUME NEW q \in SequenceNumbers PROVE First(w, Len(w), q) = pLatest'[q]
  <2>1. First(v, Len(v), q) = pLatest[q]
    BY <1>1 DEF EventsInv
  <2>2. First(w, Len(v) + 1, q) =
          IF First(w, Len(v), q) = Reports!None /\ w[Len(v) + 1].sequence = q
            THEN w[Len(v) + 1].metadata ELSE First(w, Len(v), q)
    BY <1>6, <1>7, FirstStep
  <2>3. First(w, Len(w), q) = IF pLatest[q] = Reports!None /\ q = s THEN m ELSE pLatest[q]
    BY <1>4, <1>7, <1>8, <2>1, <2>2
  <2> QED
    BY <1>5, <1>9, <2>3
<1>11. pLatest' \in [SequenceNumbers -> Notes \cup {Reports!None}]
  BY <1>5, <1>9
<1> QED
  BY <1>2, <1>7, <1>10, <1>11 DEF EventsInv

(* Every step keeps EventsInv.                                               *)
LEMMA EventsNextInv == EventsInv /\ [Reports!Next]_Reports!vars => EventsInv'
<1> SUFFICES ASSUME EventsInv, [Reports!Next]_Reports!vars PROVE EventsInv'
  OBVIOUS
<1>1. CASE UNCHANGED <<pEvent_metadata, pLatest>>
  BY <1>1 DEF EventsInv
<1>2. CASE \E d \in Reports!Documents : Reports!AddDocument(d)
  BY <1>1, <1>2 DEF Reports!AddDocument, Reports!eventVars
<1>3. CASE Reports!Done \/ UNCHANGED Reports!vars
  BY <1>1, <1>3 DEF Reports!Done, Reports!vars, Reports!eventVars
<1> QED
  BY <1>2, <1>3, SetStep, PushStep DEF Reports!Next

(* MetadataFollowsEvent: in whatever order set_event_metadata is called, with *)
(* metadata or without, and records are pushed past the sorted vector, the   *)
(* binary search over the stable sort finds for each event what was last set *)
(* for it, for any sequence numbers and a vector of any length.              *)
THEOREM MetadataCorrect == Reports!Spec => []MetadataFollowsEvent
<1>1. EventsInv => MetadataFollowsEvent
  <2> SUFFICES ASSUME EventsInv, NEW s \in SequenceNumbers
               PROVE  Reports!Lookup(pEvent_metadata, s) = pLatest[s]
    BY DEF MetadataFollowsEvent, Reports!MetadataFollowsEvent
  <2>1. s \in Nat
    BY ReportAssumption
  <2> QED
    BY <2>1, LookupIs DEF EventsInv
<1> QED
  BY <1>1, EventsInitInv, EventsNextInv, PTL DEF Reports!Spec

-----------------------------------------------------------------------------
(* The lead bytes of characters of several bytes.                            *)
Leads == {"c2", "e0", "e1", "ed", "f0", "f1", "f4"}

(* How long the character of a lead byte is.                                 *)
LEMMA ExpectedIs ==
    ASSUME NEW b \in Leads
    PROVE  /\ Bodies!Expected(b) \in {2, 3, 4} /\ (b = "c2") = (Bodies!Expected(b) = 2)
           /\ (b \in {"e0", "e1", "ed"}) = (Bodies!Expected(b) = 3)
           /\ (b \in {"f0", "f1", "f4"}) = (Bodies!Expected(b) = 4)
  BY DEF Leads, Bodies!Expected

(* The bytes from i + 1 to j are one character, told by its bytes.           *)
Spelled(s, i, j) ==
    \/ s[i + 1] = "ascii" /\ j = i + 1
    \/ /\ s[i + 1] \in Leads /\ j = i + Bodies!Expected(s[i + 1])
       /\ \A k \in (i + 2)..j : s[k] \in Bodies!Continuations
       /\ Bodies!FirstContinuation(s[i + 1], s[i + 2])

(* Tuples of up to four elements.                                            *)
LEMMA Tuples ==
    ASSUME NEW w, NEW x, NEW y, NEW z
    PROVE  /\ Len(<<w>>) = 1 /\ <<w>>[1] = w
           /\ Len(<<w, x>>) = 2 /\ <<w, x>>[1] = w /\ <<w, x>>[2] = x
           /\ Len(<<w, x, y>>) = 3 /\ <<w, x, y>>[1] = w /\ <<w, x, y>>[2] = x /\ <<w, x, y>>[3] = y
           /\ Len(<<w, x, y, z>>) = 4 /\ <<w, x, y, z>>[1] = w /\ <<w, x, y, z>>[2] = x
           /\ <<w, x, y, z>>[3] = y /\ <<w, x, y, z>>[4] = z
  OBVIOUS

(* What the bytes of a character are.                                        *)
LEMMA CharacterIs ==
    ASSUME NEW c \in Bodies!Characters
    PROVE  \/ c[1] = "ascii" /\ Len(c) = 1
           \/ /\ c[1] \in Leads /\ Len(c) = Bodies!Expected(c[1])
              /\ \A k \in 2..Len(c) : c[k] \in Bodies!Continuations
              /\ Bodies!FirstContinuation(c[1], c[2])
<1> DEFINE K == Bodies!Continuations
<1>0. K = {"80", "90", "a0"}
  BY DEF Bodies!Continuations
<1>1. CASE c = <<"ascii">>
  BY <1>1
<1>2. CASE \E x \in K : c = <<"c2", x>>
  BY <1>2 DEF Leads, Bodies!Expected, Bodies!FirstContinuation
<1>3. ASSUME NEW l \in {"e0", "e1", "ed"}, NEW x \in K, NEW y \in K, c = <<l, x, y>>,
             Bodies!FirstContinuation(l, x)
      PROVE  /\ c[1] \in Leads /\ Len(c) = Bodies!Expected(c[1])
             /\ \A k \in 2..Len(c) : c[k] \in K
             /\ Bodies!FirstContinuation(c[1], c[2])
  <2>1. Len(c) = 3 /\ c[1] = l /\ c[2] = x /\ c[3] = y
    BY <1>3
  <2>2. l \in Leads /\ Bodies!Expected(l) = 3
    BY DEF Leads, Bodies!Expected
  <2> QED
    BY <1>3, <2>1, <2>2
<1>4. ASSUME NEW l \in {"f0", "f1", "f4"}, NEW x \in K, NEW y \in K, NEW z \in K, c = <<l, x, y, z>>,
             Bodies!FirstContinuation(l, x)
      PROVE  /\ c[1] \in Leads /\ Len(c) = Bodies!Expected(c[1])
             /\ \A k \in 2..Len(c) : c[k] \in K
             /\ Bodies!FirstContinuation(c[1], c[2])
  <2>1. Len(c) = 4 /\ c[1] = l /\ c[2] = x /\ c[3] = y /\ c[4] = z
    BY <1>4
  <2>2. l \in Leads /\ Bodies!Expected(l) = 4
    BY DEF Leads, Bodies!Expected
  <2> QED
    BY <1>4, <2>1, <2>2
<1>5. CASE \E x \in K, y \in K : c = <<"e1", x, y>>
  <2>1. \A x : Bodies!FirstContinuation("e1", x)
    BY DEF Bodies!FirstContinuation
  <2> QED
    BY <1>3, <1>5, <2>1
<1>6. CASE \E y \in K : c = <<"e0", "a0", y>>
  <2>1. Bodies!FirstContinuation("e0", "a0")
    BY DEF Bodies!FirstContinuation
  <2> QED
    BY <1>0, <1>3, <1>6, <2>1
<1>7. CASE \E x \in {"80", "90"}, y \in K : c = <<"ed", x, y>>
  <2>1. \A x \in {"80", "90"} : Bodies!FirstContinuation("ed", x) /\ x \in K
    BY DEF Bodies!FirstContinuation, Bodies!Continuations
  <2> QED
    BY <1>3, <1>7, <2>1
<1>8. CASE \E x \in {"90", "a0"}, y \in K, z \in K : c = <<"f0", x, y, z>>
  <2>1. \A x \in {"90", "a0"} : Bodies!FirstContinuation("f0", x) /\ x \in K
    BY DEF Bodies!FirstContinuation, Bodies!Continuations
  <2> QED
    BY <1>4, <1>8, <2>1
<1>9. CASE \E x \in K, y \in K, z \in K : c = <<"f1", x, y, z>>
  <2>1. \A x : Bodies!FirstContinuation("f1", x)
    BY DEF Bodies!FirstContinuation
  <2> QED
    BY <1>4, <1>9, <2>1
<1>10. CASE \E y \in K, z \in K : c = <<"f4", "80", y, z>>
  <2>1. Bodies!FirstContinuation("f4", "80")
    BY DEF Bodies!FirstContinuation
  <2> QED
    BY <1>0, <1>4, <1>10, <2>1
<1> QED
  BY <1>1, <1>2, <1>5, <1>6, <1>7, <1>8, <1>9, <1>10 DEF Bodies!Characters

(* c is the bytes of s from i + 1 to j.                                      *)
IsPiece(S, s, i, j, c) ==
    c \in Seq(S) /\ Len(c) = j - i /\ \A k \in 1..(j - i) : c[k] = s[i + k]

(* The bytes of s between two cuts.                                          *)
LEMMA PieceIs ==
    ASSUME NEW S, NEW s \in Seq(S), NEW i \in Nat, NEW j \in Nat, i < j, j <= Len(s),
           NEW c, c = SubSeq(s, i + 1, j)
    PROVE  IsPiece(S, s, i, j, c)
<1>0. Len(s) \in Nat
  BY LenProperties
<1>1. \A k \in (i + 1)..j : s[k] \in S
  BY <1>0, ElementOfSeq
<1>2. /\ c \in Seq(S) /\ Len(c) = (IF i + 1 <= j THEN j - (i + 1) + 1 ELSE 0)
      /\ \A k \in 1..(j - (i + 1) + 1) : c[k] = s[i + 1 + k - 1]
  BY <1>1, SubSeqProperties
<1>3. Len(c) = j - i /\ j - (i + 1) + 1 = j - i
  BY <1>2
<1>4. ASSUME NEW k \in 1..(j - i) PROVE c[k] = s[i + k]
  <2>1. i + 1 + k - 1 = i + k
    OBVIOUS
  <2> QED
    BY <1>2, <1>3, <2>1
<1> QED
  BY <1>2, <1>3, <1>4 DEF IsPiece

(* Sequences are told by their elements.                                     *)
LEMMA TupleIs ==
    ASSUME NEW S, NEW c \in Seq(S)
    PROVE  /\ Len(c) = 1 => c = <<c[1]>>
           /\ Len(c) = 2 => c = <<c[1], c[2]>>
           /\ Len(c) = 3 => c = <<c[1], c[2], c[3]>>
           /\ Len(c) = 4 => c = <<c[1], c[2], c[3], c[4]>>
<1>0. \A k \in 1..Len(c) : c[k] \in S
  BY ElementOfSeq
<1>1. ASSUME Len(c) = 1 PROVE c = <<c[1]>>
  <2>1. PICK w \in S : w = c[1]
    BY <1>0, <1>1
  <2>5. PICK d : d = <<w>>
    OBVIOUS
  <2>6. d \in Seq(S) /\ Len(d) = 1 /\ d[1] = w
    BY <2>5
  <2>7. \A k \in 1..1 : c[k] = d[k]
    BY <2>1, <2>6
  <2>8. c = d
    BY <1>1, <2>6, <2>7, SeqEqual
  <2> QED
    BY <2>1, <2>5, <2>8
<1>2. ASSUME Len(c) = 2 PROVE c = <<c[1], c[2]>>
  <2>1. PICK w \in S : w = c[1]
    BY <1>0, <1>2
  <2>2. PICK x \in S : x = c[2]
    BY <1>0, <1>2
  <2>5. PICK d : d = <<w, x>>
    OBVIOUS
  <2>6. d \in Seq(S) /\ Len(d) = 2 /\ d[1] = w /\ d[2] = x
    BY <2>5
  <2>7. \A k \in 1..2 : c[k] = d[k]
    BY <2>1, <2>2, <2>6
  <2>8. c = d
    BY <1>2, <2>6, <2>7, SeqEqual
  <2> QED
    BY <2>1, <2>2, <2>5, <2>8
<1>3. ASSUME Len(c) = 3 PROVE c = <<c[1], c[2], c[3]>>
  <2>1. PICK w \in S : w = c[1]
    BY <1>0, <1>3
  <2>2. PICK x \in S : x = c[2]
    BY <1>0, <1>3
  <2>3. PICK y \in S : y = c[3]
    BY <1>0, <1>3
  <2>5. PICK d : d = <<w, x, y>>
    OBVIOUS
  <2>6. d \in Seq(S) /\ Len(d) = 3 /\ d[1] = w /\ d[2] = x /\ d[3] = y
    BY <2>5
  <2>7. \A k \in 1..3 : c[k] = d[k]
    BY <2>1, <2>2, <2>3, <2>6
  <2>8. c = d
    BY <1>3, <2>6, <2>7, SeqEqual
  <2> QED
    BY <2>1, <2>2, <2>3, <2>5, <2>8
<1>4. ASSUME Len(c) = 4 PROVE c = <<c[1], c[2], c[3], c[4]>>
  <2>1. PICK w \in S : w = c[1]
    BY <1>0, <1>4
  <2>2. PICK x \in S : x = c[2]
    BY <1>0, <1>4
  <2>3. PICK y \in S : y = c[3]
    BY <1>0, <1>4
  <2>4. PICK z \in S : z = c[4]
    BY <1>0, <1>4
  <2>5. PICK d : d = <<w, x, y, z>>
    OBVIOUS
  <2>6. d \in Seq(S) /\ Len(d) = 4 /\ d[1] = w /\ d[2] = x /\ d[3] = y /\ d[4] = z
    BY <2>5
  <2>7. \A k \in 1..4 : c[k] = d[k]
    BY <2>1, <2>2, <2>3, <2>4, <2>6
  <2>8. c = d
    BY <1>4, <2>6, <2>7, SeqEqual
  <2> QED
    BY <2>1, <2>2, <2>3, <2>4, <2>5, <2>8
<1> QED
  BY <1>1, <1>2, <1>3, <1>4

(* The characters, one lead byte at a time.                                  *)
LEMMA CharacterOf ==
    ASSUME NEW x \in Bodies!Continuations, NEW y \in Bodies!Continuations,
           NEW z \in Bodies!Continuations
    PROVE  /\ <<"ascii">> \in Bodies!Characters /\ <<"c2", x>> \in Bodies!Characters
           /\ <<"e1", x, y>> \in Bodies!Characters /\ <<"e0", "a0", y>> \in Bodies!Characters
           /\ x \in {"80", "90"} => <<"ed", x, y>> \in Bodies!Characters
           /\ x \in {"90", "a0"} => <<"f0", x, y, z>> \in Bodies!Characters
           /\ <<"f1", x, y, z>> \in Bodies!Characters /\ <<"f4", "80", y, z>> \in Bodies!Characters
<1>1. <<"ascii">> \in Bodies!Characters
  BY DEF Bodies!Characters
<1>2. <<"c2", x>> \in Bodies!Characters
  BY DEF Bodies!Characters
<1>3. <<"e1", x, y>> \in Bodies!Characters
  BY DEF Bodies!Characters
<1>4. <<"e0", "a0", y>> \in Bodies!Characters
  BY DEF Bodies!Characters
<1>5. ASSUME x \in {"80", "90"} PROVE <<"ed", x, y>> \in Bodies!Characters
  BY <1>5 DEF Bodies!Characters
<1>6. ASSUME x \in {"90", "a0"} PROVE <<"f0", x, y, z>> \in Bodies!Characters
  BY <1>6 DEF Bodies!Characters
<1>7. <<"f1", x, y, z>> \in Bodies!Characters
  BY DEF Bodies!Characters
<1>8. <<"f4", "80", y, z>> \in Bodies!Characters
  BY DEF Bodies!Characters
<1> QED
  BY <1>1, <1>2, <1>3, <1>4, <1>5, <1>6, <1>7, <1>8

(* A character of a body, told by its bytes.                                 *)
LEMMA PieceSpelled ==
    ASSUME NEW S, NEW s \in Seq(S), NEW i \in Nat, NEW j \in Nat, i < j, j <= Len(s),
           NEW c \in Bodies!Characters, IsPiece(S, s, i, j, c)
    PROVE  Spelled(s, i, j)
<1>2. c \in Seq(S) /\ Len(c) = j - i /\ \A k \in 1..(j - i) : c[k] = s[i + k]
  BY DEF IsPiece
<1>3. c[1] = s[i + 1]
  BY <1>2
<1>5. CASE c[1] = "ascii" /\ Len(c) = 1
  <2>1. s[i + 1] = "ascii"
    BY <1>3, <1>5
  <2>2. Len(c) = j - i /\ Len(c) = 1
    BY <1>2, <1>5
  <2>3. j - i = 1
    BY <2>2
  <2>4. j = i + 1
    BY <2>3
  <2> QED
    BY <2>1, <2>4 DEF Spelled
<1>6. CASE /\ c[1] \in Leads /\ Len(c) = Bodies!Expected(c[1])
           /\ \A k \in 2..Len(c) : c[k] \in Bodies!Continuations
           /\ Bodies!FirstContinuation(c[1], c[2])
  <2>1. Bodies!Expected(s[i + 1]) \in {2, 3, 4}
    BY <1>3, <1>6, ExpectedIs
  <2>2. j - i \in {2, 3, 4} /\ j = i + Bodies!Expected(s[i + 1])
    BY <1>2, <1>3, <1>6, <2>1
  <2>3. c[2] = s[i + 2]
    BY <1>2, <2>2
  <2>4. ASSUME NEW k \in (i + 2)..j PROVE s[k] \in Bodies!Continuations
    <3>1. k - i \in 2..(j - i) /\ k - i \in 1..(j - i) /\ i + (k - i) = k
      OBVIOUS
    <3>2. c[k - i] = s[i + (k - i)] /\ c[k - i] \in Bodies!Continuations
      BY <1>2, <1>6, <3>1
    <3> QED
      BY <3>1, <3>2
  <2> QED
    BY <1>3, <1>6, <2>2, <2>3, <2>4 DEF Spelled
<1> QED
  BY <1>5, <1>6, CharacterIs

(* The same of the bytes between two cuts.                                   *)
LEMMA CharacterSpelled ==
    ASSUME NEW S, NEW s \in Seq(S), NEW i \in Nat, NEW j \in Nat, i < j, j <= Len(s),
           SubSeq(s, i + 1, j) \in Bodies!Characters
    PROVE  Spelled(s, i, j)
<1>1. PICK c : c = SubSeq(s, i + 1, j)
  OBVIOUS
<1>2. IsPiece(S, s, i, j, c)
  BY <1>1, PieceIs
<1> QED
  BY <1>1, <1>2, PieceSpelled

(* And the other way round.                                                  *)
LEMMA SpelledCharacter ==
    ASSUME NEW S, NEW s \in Seq(S), NEW i \in Nat, NEW j \in Nat, i < j, j <= Len(s),
           Spelled(s, i, j)
    PROVE  SubSeq(s, i + 1, j) \in Bodies!Characters
<1>1. PICK c : c = SubSeq(s, i + 1, j)
  OBVIOUS
<1>2. c \in Seq(S) /\ Len(c) = j - i /\ \A k \in 1..(j - i) : c[k] = s[i + k]
  <2>1. IsPiece(S, s, i, j, c)
    BY <1>1, PieceIs
  <2> QED
    BY <2>1 DEF IsPiece
<1> DEFINE K == Bodies!Continuations
<1>3. CASE s[i + 1] = "ascii" /\ j = i + 1
  <2>1. c = <<"ascii">>
    <3>1. Len(c) = 1 /\ c[1] = "ascii"
      BY <1>2, <1>3
    <3>2. c = <<c[1]>>
      BY <1>2, <3>1, TupleIs
    <3> QED
      BY <3>1, <3>2
  <2>2. "80" \in K
    BY DEF Bodies!Continuations
  <2> QED
    BY <1>1, <2>1, <2>2, CharacterOf
<1>4. CASE /\ s[i + 1] \in Leads /\ j = i + Bodies!Expected(s[i + 1])
           /\ \A k \in (i + 2)..j : s[k] \in K
           /\ Bodies!FirstContinuation(s[i + 1], s[i + 2])
  <2>1. PICK l \in Leads : l = s[i + 1]
    BY <1>4
  <2>2. Bodies!Expected(l) \in {2, 3, 4}
    BY ExpectedIs
  <2>3. j - i = Bodies!Expected(l) /\ j = i + Bodies!Expected(l)
    BY <1>4, <2>1, <2>2
  <2>4. PICK x \in K : x = s[i + 2]
    <3>1. i + 2 \in (i + 2)..j
      BY <2>2, <2>3
    <3> QED
      BY <1>4, <3>1
  <2>5. Bodies!FirstContinuation(l, x)
    BY <1>4, <2>1, <2>4
  <2>6. c[1] = l /\ c[2] = x
    BY <1>2, <2>1, <2>2, <2>3, <2>4
  <2>7. CASE l = "c2"
    <3>1. Len(c) = 2
      BY <1>2, <2>3, <2>7, ExpectedIs
    <3>2. c = <<c[1], c[2]>>
      BY <1>2, <3>1, TupleIs
    <3>3. c = <<"c2", x>>
      BY <2>6, <2>7, <3>2
    <3> QED
      BY <1>1, <3>3, CharacterOf
  <2>8. CASE l \in {"e0", "e1", "ed"}
    <3>1. Bodies!Expected(l) = 3
      BY <2>8, ExpectedIs
    <3>2. Len(c) = 3
      BY <1>2, <2>3, <3>1
    <3>3. PICK y \in K : y = s[i + 3]
      <4>1. i + 3 \in (i + 2)..j
        BY <2>3, <3>1
      <4> QED
        BY <1>4, <4>1
    <3>4. c[3] = y
      BY <1>2, <2>3, <3>1, <3>3
    <3>5. c = <<c[1], c[2], c[3]>>
      BY <1>2, <3>2, TupleIs
    <3>6. c = <<l, x, y>>
      BY <2>6, <3>4, <3>5
    <3>7. CASE l = "e0"
      <4>1. x = "a0"
        BY <2>5, <3>7 DEF Bodies!FirstContinuation
      <4> QED
        BY <1>1, <3>6, <3>7, <4>1, CharacterOf
    <3>8. CASE l = "e1"
      BY <1>1, <3>6, <3>8, CharacterOf
    <3>9. CASE l = "ed"
      <4>1. x \in {"80", "90"}
        BY <2>5, <3>9 DEF Bodies!Continuations, Bodies!FirstContinuation
      <4> QED
        BY <1>1, <3>6, <3>9, <4>1, CharacterOf
    <3> QED
      BY <2>8, <3>7, <3>8, <3>9
  <2>9. CASE l \in {"f0", "f1", "f4"}
    <3>1. Bodies!Expected(l) = 4
      BY <2>9, ExpectedIs
    <3>2. Len(c) = 4
      BY <1>2, <2>3, <3>1
    <3>3. PICK y \in K : y = s[i + 3]
      <4>1. i + 3 \in (i + 2)..j
        BY <2>3, <3>1
      <4> QED
        BY <1>4, <4>1
    <3>4. PICK z \in K : z = s[i + 4]
      <4>1. i + 4 \in (i + 2)..j
        BY <2>3, <3>1
      <4> QED
        BY <1>4, <4>1
    <3>5. c[3] = y /\ c[4] = z
      BY <1>2, <2>3, <3>1, <3>3, <3>4
    <3>6. c = <<c[1], c[2], c[3], c[4]>>
      BY <1>2, <3>2, TupleIs
    <3>7. c = <<l, x, y, z>>
      BY <2>6, <3>5, <3>6
    <3>8. CASE l = "f0"
      <4>1. x \in {"90", "a0"}
        BY <2>5, <3>8 DEF Bodies!Continuations, Bodies!FirstContinuation
      <4> QED
        BY <1>1, <3>7, <3>8, <4>1, CharacterOf
    <3>9. CASE l = "f1"
      BY <1>1, <3>7, <3>9, CharacterOf
    <3>10. CASE l = "f4"
      <4>1. x = "80"
        BY <2>5, <3>10 DEF Bodies!FirstContinuation
      <4> QED
        BY <1>1, <3>7, <3>10, <4>1, CharacterOf
    <3> QED
      BY <2>9, <3>8, <3>9, <3>10
  <2> QED
    BY <2>7, <2>8, <2>9 DEF Leads
<1> QED
  BY <1>3, <1>4 DEF Spelled

-----------------------------------------------------------------------------
(* C cuts the first n bytes of s into characters.                            *)
NextCut(C, i) == CHOOSE k \in C : k > i /\ \A m \in C : m > i => k <= m
IsCuts(s, C, n) ==
    /\ C \subseteq 0..n /\ 0 \in C /\ n \in C
    /\ \A i \in C \ {n} : SubSeq(s, i + 1, NextCut(C, i)) \in Bodies!Characters

(* UTF-8 is what can be cut.                                                 *)
LEMMA Utf8Cuts ==
    ASSUME NEW s
    PROVE  Bodies!IsUtf8(s) <=> \E C : IsCuts(s, C, Len(s))
  BY DEF Bodies!IsUtf8, IsCuts, NextCut

(* The next cut is a cut, and the nearest.                                   *)
LEMMA NextCutIs ==
    ASSUME NEW n \in Nat, NEW C, C \subseteq 0..n, NEW i \in C, NEW j \in C, i < j
    PROVE  /\ NextCut(C, i) \in C /\ NextCut(C, i) > i
           /\ \A m \in C : m > i => NextCut(C, i) <= m
<1> DEFINE T == {k \in C : k > i}
<1>1. T \subseteq Nat /\ T # {}
  <2>1. j \in T /\ \A k \in T : k \in 0..n
    OBVIOUS
  <2> HIDE DEF T
  <2> QED
    BY <2>1
<1>2. PICK k \in T : \A m \in T : k <= m
  <2> HIDE DEF T
  <2> QED
    BY <1>1, LeastOf
<1>3. \E x \in C : x > i /\ \A m \in C : m > i => x <= m
  BY <1>2
<1> QED
  BY <1>3 DEF NextCut

(* A character more is a cut more.                                           *)
LEMMA CutsExtend ==
    ASSUME NEW S, NEW s \in Seq(S), NEW i \in Nat, NEW j \in Nat, i < j, j <= Len(s),
           NEW C, IsCuts(s, C, i), Spelled(s, i, j)
    PROVE  IsCuts(s, C \cup {j}, j)
<1>1. C \subseteq 0..i /\ 0 \in C /\ i \in C
  BY DEF IsCuts
<1>2. PICK D : D = C \cup {j}
  OBVIOUS
<1>3. D \subseteq 0..j /\ 0 \in D /\ j \in D
  BY <1>1, <1>2
<1>4. ASSUME NEW m \in D \ {j} PROVE SubSeq(s, m + 1, NextCut(D, m)) \in Bodies!Characters
  <2>1. m \in C /\ m \in 0..i /\ m < j /\ m \in D
    BY <1>1, <1>2
  <2>2. /\ NextCut(D, m) \in D /\ NextCut(D, m) > m
        /\ \A x \in D : x > m => NextCut(D, m) <= x
    BY <1>3, <2>1, NextCutIs
  <2>3. CASE m = i
    <3>1. PICK b : b = NextCut(D, m)
      OBVIOUS
    <3>2. b \in D /\ b > i
      BY <2>2, <2>3, <3>1
    <3>3. b \notin C
      <4>1. \A k \in C : k \in 0..i /\ ~(k > i)
        BY <1>1
      <4> QED
        BY <3>2, <4>1
    <3>4. b = j
      BY <1>2, <3>2, <3>3
    <3>5. SubSeq(s, i + 1, j) \in Bodies!Characters
      BY SpelledCharacter
    <3> QED
      BY <2>3, <3>1, <3>4, <3>5
  <2>4. CASE m # i
    <3>1. m < i
      BY <2>1, <2>4
    <3>2. /\ NextCut(C, m) \in C /\ NextCut(C, m) > m
          /\ \A x \in C : x > m => NextCut(C, m) <= x
      BY <1>1, <2>1, <3>1, NextCutIs
    <3>3. PICK a : a = NextCut(C, m)
      OBVIOUS
    <3>4. PICK b : b = NextCut(D, m)
      OBVIOUS
    <3>5. a \in C /\ a \in 0..i /\ a \in D /\ b \in D /\ b \in 0..j
      BY <1>1, <1>2, <1>3, <2>2, <3>2, <3>3, <3>4
    <3>6. b <= a
      BY <2>2, <3>2, <3>3, <3>4, <3>5
    <3>7. b \in C
      BY <1>2, <3>5, <3>6
    <3>8. a <= b
      BY <2>2, <3>2, <3>3, <3>4, <3>7
    <3>9. a = b
      BY <3>5, <3>6, <3>8
    <3> QED
      BY <2>1, <2>4, <3>3, <3>4, <3>9 DEF IsCuts
  <2> QED
    BY <2>3, <2>4
<1> QED
  BY <1>2, <1>3, <1>4 DEF IsCuts

(* Between a cut of the whole and the next one is a character.               *)
LEMMA CutSpelled ==
    ASSUME NEW S, NEW s \in Seq(S), NEW C, IsCuts(s, C, Len(s)), NEW i \in C, i # Len(s)
    PROVE  \E j \in C : i \in Nat /\ j \in Nat /\ i < j /\ j <= Len(s) /\ Spelled(s, i, j)
<1>0. Len(s) \in Nat
  BY LenProperties
<1>1. C \subseteq 0..Len(s) /\ Len(s) \in C /\ i \in 0..Len(s) /\ i < Len(s)
  BY <1>0 DEF IsCuts
<1>2. PICK j : j = NextCut(C, i)
  OBVIOUS
<1>3. j \in C /\ j > i
  BY <1>0, <1>1, <1>2, NextCutIs
<1>4. i \in Nat /\ j \in Nat /\ i < j /\ j <= Len(s)
  BY <1>0, <1>1, <1>3
<1>5. SubSeq(s, i + 1, j) \in Bodies!Characters
  BY <1>1, <1>2 DEF IsCuts
<1>6. Spelled(s, i, j)
  BY <1>4, <1>5, CharacterSpelled
<1> QED
  BY <1>3, <1>4, <1>6

-----------------------------------------------------------------------------
(* What the validator v knows after n bytes of s: where the last character   *)
(* began, that what is before can be cut, and which bytes of a character it  *)
(* is in it has seen; every cut of the whole has a cut there.                *)
Validators ==
    [valid : BOOLEAN, lead : Bodies!Classes, expected : {0, 2, 3, 4}, seen : 0..3]
Boundary(n, v) == IF v.expected = 0 THEN n ELSE n - v.seen
Within(s, i, n, v) ==
    /\ v.lead \in Leads /\ v.expected = Bodies!Expected(v.lead)
    /\ 1 <= v.seen /\ v.seen < v.expected /\ i \in Nat /\ n = i + v.seen
    /\ s[i + 1] = v.lead /\ \A k \in (i + 2)..n : s[k] \in Bodies!Continuations
    /\ v.seen > 1 => Bodies!FirstContinuation(v.lead, s[i + 2])
Follows(s, n, v) ==
    /\ v \in Validators
    /\ v.valid => /\ \E C : IsCuts(s, C, Boundary(n, v))
                  /\ v.expected # 0 => Within(s, Boundary(n, v), n, v)
    /\ \A C : IsCuts(s, C, Len(s)) => v.valid /\ Boundary(n, v) \in C

(* The fields of a validator have their types.                               *)
LEMMA ValidatorIs ==
    ASSUME NEW v \in Validators
    PROVE  /\ v.valid \in BOOLEAN /\ v.expected \in {0, 2, 3, 4} /\ v.seen \in 0..3
           /\ v.expected \in Nat /\ v.seen \in Nat
  BY DEF Validators

(* Before the first byte.                                                    *)
LEMMA StartFollows ==
    ASSUME NEW s
    PROVE  Follows(s, 0, Bodies!Start)
<1>1. Bodies!Start \in Validators /\ Bodies!Start.valid = TRUE /\ Bodies!Start.expected = 0
  BY DEF Bodies!Start, Validators, Bodies!Classes
<1>2. Boundary(0, Bodies!Start) = 0
  BY <1>1 DEF Boundary
<1>3. IsCuts(s, {0}, 0)
  BY DEF IsCuts
<1>4. \A C : IsCuts(s, C, Len(s)) => 0 \in C
  BY DEF IsCuts
<1> QED
  BY <1>1, <1>2, <1>3, <1>4 DEF Follows

(* A refused byte: no cut of the whole is left.                              *)
LEMMA RefusedFollows ==
    ASSUME NEW s, NEW n, \A C : ~IsCuts(s, C, Len(s))
    PROVE  Follows(s, n, Bodies!Invalid)
<1>1. PICK v : v = Bodies!Start
  OBVIOUS
<1>2. v \in Validators
  BY <1>1 DEF Bodies!Start, Validators, Bodies!Classes
<1>3. PICK w : w = [v EXCEPT !.valid = FALSE]
  OBVIOUS
<1>4. w \in Validators /\ w.valid = FALSE
  BY <1>2, <1>3 DEF Validators
<1>5. w = Bodies!Invalid
  BY <1>1, <1>3 DEF Bodies!Invalid
<1> QED
  BY <1>4, <1>5 DEF Follows

(* A byte between two characters.                                            *)
LEMMA LeadFollows ==
    ASSUME NEW s \in Seq(Bodies!Classes), NEW n \in Nat, n < Len(s),
           NEW v, Follows(s, n, v), v.valid, v.expected = 0
    PROVE  Follows(s, n + 1, Bodies!PushByte(v, s[n + 1]))
<1>0. Len(s) \in Nat /\ n + 1 \in 1..Len(s)
  BY LenProperties
<1>1. PICK b \in Bodies!Classes : b = s[n + 1]
  BY <1>0, ElementOfSeq
<1>2. PICK w : w = Bodies!PushByte(v, b)
  OBVIOUS
<1>3. v \in Validators /\ Boundary(n, v) = n
  BY DEF Follows, Boundary
<1>4. PICK C : IsCuts(s, C, n)
  BY <1>3 DEF Follows
<1>5. ASSUME NEW D, IsCuts(s, D, Len(s))
      PROVE  n \in D /\ \E j \in D : j \in Nat /\ n < j /\ j <= Len(s) /\ Spelled(s, n, j)
  <2>1. n \in D
    BY <1>3, <1>5 DEF Follows
  <2>2. n # Len(s)
    BY <1>0
  <2> QED
    BY <1>5, <2>1, <2>2, CutSpelled
<1>6. CASE b = "ascii"
  <2>1. w = v
    BY <1>2, <1>6 DEF Bodies!PushByte
  <2>2. Spelled(s, n, n + 1)
    BY <1>1, <1>6 DEF Spelled
  <2>3. IsCuts(s, C \cup {n + 1}, n + 1)
    BY <1>0, <1>4, <2>2, CutsExtend
  <2>4. ASSUME NEW D, IsCuts(s, D, Len(s)) PROVE n + 1 \in D
    <3>1. PICK j \in D : Spelled(s, n, j)
      BY <1>5, <2>4
    <3>2. s[n + 1] \notin Leads
      BY <1>1, <1>6 DEF Leads
    <3> QED
      BY <3>1, <3>2 DEF Spelled
  <2>5. Boundary(n + 1, v) = n + 1
    BY DEF Boundary
  <2>6. Follows(s, n + 1, w)
    BY <1>3, <2>1, <2>3, <2>4, <2>5 DEF Follows
  <2> QED
    BY <1>1, <1>2, <2>6
<1>7. CASE b \in Bodies!Continuations \cup {"bad"}
  <2>1. w = Bodies!Invalid
    BY <1>2, <1>7 DEF Bodies!PushByte, Bodies!Continuations
  <2>2. ASSUME NEW D, IsCuts(s, D, Len(s)) PROVE FALSE
    <3>1. PICK j \in D : Spelled(s, n, j)
      BY <1>5, <2>2
    <3>2. s[n + 1] \notin Leads /\ s[n + 1] # "ascii"
      BY <1>1, <1>7 DEF Leads, Bodies!Continuations
    <3> QED
      BY <3>1, <3>2 DEF Spelled
  <2>3. Follows(s, n + 1, w)
    BY <2>1, <2>2, RefusedFollows
  <2> QED
    BY <1>1, <1>2, <2>3
<1>8. CASE b \in Leads
  <2>1. w = [v EXCEPT !.lead = b, !.expected = Bodies!Expected(b), !.seen = 1]
    BY <1>2, <1>8 DEF Bodies!PushByte, Leads, Bodies!Continuations
  <2>2. PICK e \in {2, 3, 4} : e = Bodies!Expected(b)
    BY <1>8, ExpectedIs
  <2>3. w \in Validators /\ w.valid = v.valid /\ w.lead = b /\ w.expected = e /\ w.seen = 1
    <3>1. w = [v EXCEPT !.lead = b, !.expected = e, !.seen = 1]
      BY <2>1, <2>2
    <3>2. e \in {0, 2, 3, 4} /\ 1 \in 0..3
      OBVIOUS
    <3>3. w.valid = v.valid /\ w.lead = b /\ w.expected = e /\ w.seen = 1
      BY <1>3, <3>1 DEF Validators
    <3>4. w \in Validators
      BY <1>3, <3>1, <3>2 DEF Validators
    <3> QED
      BY <3>3, <3>4
  <2>4. Boundary(n + 1, w) = n
    BY <2>3 DEF Boundary
  <2>5. Within(s, n, n + 1, w)
    BY <1>1, <1>8, <2>2, <2>3 DEF Within
  <2>6. \A D : IsCuts(s, D, Len(s)) => n \in D
    BY <1>5
  <2>7. Follows(s, n + 1, w)
    BY <1>4, <2>3, <2>4, <2>5, <2>6 DEF Follows
  <2> QED
    BY <1>1, <1>2, <2>7
<1> QED
  BY <1>6, <1>7, <1>8 DEF Bodies!Classes, Leads, Bodies!Continuations

(* A byte within a character.                                                *)
LEMMA ContinuationFollows ==
    ASSUME NEW s \in Seq(Bodies!Classes), NEW n \in Nat, n < Len(s),
           NEW v, Follows(s, n, v), v.valid, v.expected # 0
    PROVE  Follows(s, n + 1, Bodies!PushByte(v, s[n + 1]))
<1>0. Len(s) \in Nat /\ n + 1 \in 1..Len(s)
  BY LenProperties
<1>1. PICK b \in Bodies!Classes : b = s[n + 1]
  BY <1>0, ElementOfSeq
<1>2. PICK w : w = Bodies!PushByte(v, b)
  OBVIOUS
<1>3. v \in Validators /\ v.expected \in {2, 3, 4} /\ v.seen \in Nat /\ v.seen \in 0..3
  BY ValidatorIs DEF Follows
<1>4. PICK i : i = Boundary(n, v)
  OBVIOUS
<1>5. Within(s, i, n, v)
  BY <1>4 DEF Follows
<1>6. PICK l \in Leads : l = v.lead /\ v.expected = Bodies!Expected(l)
  BY <1>5 DEF Within
<1>7. /\ i \in Nat /\ n = i + v.seen /\ 1 <= v.seen /\ v.seen < v.expected /\ s[i + 1] = l
      /\ \A k \in (i + 2)..n : s[k] \in Bodies!Continuations
      /\ v.seen > 1 => Bodies!FirstContinuation(l, s[i + 2])
  BY <1>5, <1>6 DEF Within
<1>8. l # "ascii"
  BY DEF Leads
<1>9. PICK C : IsCuts(s, C, i)
  BY <1>4 DEF Follows
<1>10. ASSUME NEW D, IsCuts(s, D, Len(s))
       PROVE  /\ i \in D /\ i + v.expected \in D /\ i + v.expected <= Len(s)
              /\ \A k \in (i + 2)..(i + v.expected) : s[k] \in Bodies!Continuations
              /\ Bodies!FirstContinuation(l, s[i + 2])
  <2>1. i \in D
    BY <1>4, <1>10 DEF Follows
  <2>2. i # Len(s)
    BY <1>0, <1>3, <1>7
  <2>3. PICK j \in D : j <= Len(s) /\ Spelled(s, i, j)
    BY <1>10, <2>1, <2>2, CutSpelled
  <2>4. /\ j = i + Bodies!Expected(l)
        /\ \A k \in (i + 2)..j : s[k] \in Bodies!Continuations
        /\ Bodies!FirstContinuation(l, s[i + 2])
    BY <1>7, <1>8, <2>3 DEF Spelled
  <2> QED
    BY <1>6, <2>1, <2>3, <2>4
<1>11. CASE b \notin Bodies!Continuations \/ (v.seen = 1 /\ ~Bodies!FirstContinuation(v.lead, b))
  <2>1. w = Bodies!Invalid
    BY <1>2, <1>11 DEF Bodies!PushByte
  <2>2. ASSUME NEW D, IsCuts(s, D, Len(s)) PROVE FALSE
    <3>1. n + 1 \in (i + 2)..(i + v.expected)
      <4>1. PICK x, y : x = v.seen /\ y = v.expected
        OBVIOUS
      <4>2. x \in Nat /\ y \in Nat /\ i \in Nat /\ n = i + x /\ 1 <= x /\ x < y
        BY <1>3, <1>7, <4>1
      <4>3. n + 1 \in (i + 2)..(i + y)
        BY <4>2
      <4> QED
        BY <4>1, <4>3
    <3>2. s[n + 1] \in Bodies!Continuations
      BY <1>10, <2>2, <3>1
    <3>3. CASE v.seen = 1
      <4>1. n + 1 = i + 2
        BY <1>7, <3>3
      <4>2. Bodies!FirstContinuation(l, b)
        BY <1>1, <1>10, <2>2, <4>1
      <4> QED
        BY <1>1, <1>6, <1>11, <3>2, <4>2
    <3>4. CASE v.seen # 1
      BY <1>1, <1>11, <3>2, <3>4
    <3> QED
      BY <3>3, <3>4
  <2>3. Follows(s, n + 1, w)
    BY <2>1, <2>2, RefusedFollows
  <2> QED
    BY <1>1, <1>2, <2>3
<1>12. CASE b \in Bodies!Continuations /\ (v.seen = 1 => Bodies!FirstContinuation(v.lead, b))
  <2>1. ASSUME NEW k \in (i + 2)..(n + 1) PROVE s[k] \in Bodies!Continuations
    <3>1. CASE k = n + 1
      BY <1>1, <1>12, <3>1
    <3>2. CASE k # n + 1
      <4>0. i \in Nat
        BY <1>7
      <4>1. k \in (i + 2)..n
        BY <3>2, <4>0
      <4> QED
        BY <1>7, <4>1
    <3> QED
      BY <3>1, <3>2
  <2>2. Bodies!FirstContinuation(l, s[i + 2])
    <3>1. CASE v.seen = 1
      <4>1. n + 1 = i + 2
        BY <1>7, <3>1
      <4> QED
        BY <1>1, <1>6, <1>12, <3>1, <4>1
    <3>2. CASE v.seen # 1
      <4>1. v.seen > 1
        BY <1>3, <1>7, <3>2
      <4> QED
        BY <1>7, <4>1
    <3> QED
      BY <3>1, <3>2
  <2>3. CASE v.seen + 1 = v.expected
    <3>1. w = Bodies!Start
      BY <1>2, <1>12, <2>3 DEF Bodies!PushByte
    <3>2. n + 1 = i + v.expected /\ i < n + 1
      BY <1>3, <1>7, <2>3
    <3>3. Spelled(s, i, n + 1)
      BY <1>6, <1>7, <2>1, <2>2, <3>2 DEF Spelled
    <3>4. IsCuts(s, C \cup {n + 1}, n + 1)
      BY <1>0, <1>7, <1>9, <3>2, <3>3, CutsExtend
    <3>5. \A D : IsCuts(s, D, Len(s)) => n + 1 \in D
      BY <1>10, <3>2
    <3>6. w \in Validators /\ w.valid = TRUE /\ w.expected = 0
      BY <3>1 DEF Bodies!Start, Validators, Bodies!Classes
    <3>7. Boundary(n + 1, w) = n + 1
      BY <3>6 DEF Boundary
    <3>8. Follows(s, n + 1, w)
      BY <3>4, <3>5, <3>6, <3>7 DEF Follows
    <3> QED
      BY <1>1, <1>2, <3>8
  <2>4. CASE v.seen + 1 # v.expected
    <3>1. w = [v EXCEPT !.seen = v.seen + 1]
      BY <1>2, <1>12, <2>4 DEF Bodies!PushByte
    <3>2. v.seen + 1 \in 0..3 /\ v.seen + 1 < v.expected
      BY <1>3, <1>7, <2>4
    <3>3. /\ w \in Validators /\ w.valid = v.valid /\ w.lead = v.lead
          /\ w.expected = v.expected /\ w.seen = v.seen + 1
      BY <1>3, <3>1, <3>2 DEF Validators
    <3>4. Boundary(n + 1, w) = i
      BY <1>3, <1>7, <3>3 DEF Boundary
    <3>5. n + 1 = i + w.seen /\ 1 <= w.seen /\ w.seen < w.expected
      BY <1>3, <1>7, <3>2, <3>3
    <3>6. Within(s, i, n + 1, w)
      BY <1>6, <1>7, <2>1, <2>2, <3>3, <3>5 DEF Within
    <3>7. \A D : IsCuts(s, D, Len(s)) => i \in D
      BY <1>10
    <3>8. Follows(s, n + 1, w)
      BY <1>9, <3>3, <3>4, <3>6, <3>7 DEF Follows
    <3> QED
      BY <1>1, <1>2, <3>8
  <2> QED
    BY <2>3, <2>4
<1> QED
  BY <1>11, <1>12

(* One more byte.                                                            *)
LEMMA ByteFollows ==
    ASSUME NEW s \in Seq(Bodies!Classes), NEW n \in Nat, n < Len(s), NEW v, Follows(s, n, v)
    PROVE  Follows(s, n + 1, Bodies!PushByte(v, s[n + 1]))
<1>1. CASE v.valid /\ v.expected = 0
  BY <1>1, LeadFollows
<1>2. CASE v.valid /\ v.expected # 0
  BY <1>2, ContinuationFollows
<1>3. CASE ~v.valid
  <2>1. Bodies!PushByte(v, s[n + 1]) = v
    BY <1>3 DEF Bodies!PushByte
  <2>2. Follows(s, n + 1, v)
    BY <1>3 DEF Follows
  <2> QED
    BY <2>1, <2>2
<1> QED
  BY <1>1, <1>2, <1>3

(* After the last byte the validator tells what is UTF-8.                    *)
LEMMA FollowedWhole ==
    ASSUME NEW s \in Seq(Bodies!Classes), NEW v, Follows(s, Len(s), v)
    PROVE  Bodies!IsValid(v) <=> Bodies!IsUtf8(s)
<1>0. Len(s) \in Nat
  BY LenProperties
<1>1. v \in Validators
  BY DEF Follows
<1>2. ASSUME Bodies!IsValid(v) PROVE Bodies!IsUtf8(s)
  <2>1. v.valid /\ Boundary(Len(s), v) = Len(s)
    BY <1>2 DEF Bodies!IsValid, Boundary
  <2>2. \E C : IsCuts(s, C, Len(s))
    BY <2>1 DEF Follows
  <2> QED
    BY <2>2, Utf8Cuts
<1>3. ASSUME Bodies!IsUtf8(s) PROVE Bodies!IsValid(v)
  <2>1. PICK C : IsCuts(s, C, Len(s))
    BY <1>3, Utf8Cuts
  <2>2. v.valid /\ Boundary(Len(s), v) \in C
    BY <2>1 DEF Follows
  <2>3. ASSUME v.expected # 0 PROVE FALSE
    <3>1. PICK i : i = Boundary(Len(s), v)
      OBVIOUS
    <3>2. Within(s, i, Len(s), v)
      BY <2>2, <2>3, <3>1 DEF Follows
    <3>3. /\ i \in Nat /\ Len(s) = i + v.seen /\ 1 <= v.seen /\ v.seen < v.expected
          /\ v.expected = Bodies!Expected(s[i + 1]) /\ s[i + 1] # "ascii"
      BY <3>2 DEF Within, Leads
    <3>4. v.expected \in Nat /\ v.seen \in Nat
      BY <1>1, ValidatorIs
    <3>5. i \in C /\ i # Len(s)
      BY <2>2, <3>1, <3>3, <3>4
    <3>6. PICK j \in C : j <= Len(s) /\ Spelled(s, i, j)
      BY <2>1, <3>5, CutSpelled
    <3>7. j = i + v.expected
      BY <3>3, <3>6 DEF Spelled
    <3> QED
      BY <1>0, <3>3, <3>4, <3>6, <3>7
  <2> QED
    BY <2>2, <2>3 DEF Bodies!IsValid
<1> QED
  BY <1>2, <1>3

-----------------------------------------------------------------------------
(* f[i] is the validator v after i bytes behind the first a of s.            *)
IsPushing(s, a, v, n, f) ==
    f = [i \in 0..n |-> IF i = 0 THEN v ELSE Bodies!PushByte(f[i - 1], s[a + i])]

(* There are such validators.                                                *)
LEMMA PushingExists ==
    ASSUME NEW s, NEW a, NEW v, NEW n \in Nat
    PROVE  \E f : IsPushing(s, a, v, n, f)
<1> DEFINE T == {m \in Nat : ~\E f : IsPushing(s, a, v, m, f)}
<1> SUFFICES ASSUME T # {} PROVE FALSE
  OBVIOUS
<1>1. PICK m \in T : \A y \in T : m <= y
  <2>1. T \subseteq Nat
    OBVIOUS
  <2> HIDE DEF T
  <2> QED
    BY <2>1, LeastOf
<1>2. CASE m = 0
  <2> DEFINE f == [i \in 0..0 |-> v]
  <2>1. IsPushing(s, a, v, 0, f)
    BY DEF IsPushing
  <2> QED
    BY <1>1, <1>2, <2>1
<1>3. CASE m # 0
  <2>1. m - 1 \in Nat /\ m - 1 \notin T
    BY <1>1, <1>3
  <2>2. PICK g : IsPushing(s, a, v, m - 1, g)
    BY <2>1
  <2> DEFINE f == [i \in 0..m |-> IF i = m THEN Bodies!PushByte(g[m - 1], s[a + m]) ELSE g[i]]
  <2>3. \A i \in 0..(m - 1) : g[i] = IF i = 0 THEN v ELSE Bodies!PushByte(g[i - 1], s[a + i])
    BY <2>2 DEF IsPushing
  <2>4. ASSUME NEW i \in 0..m
        PROVE  f[i] = IF i = 0 THEN v ELSE Bodies!PushByte(f[i - 1], s[a + i])
    BY <1>3, <2>3
  <2>5. IsPushing(s, a, v, m, f)
    BY <2>4 DEF IsPushing
  <2> QED
    BY <1>1, <2>5
<1> QED
  BY <1>2, <1>3

(* One read, of however many bytes.                                          *)
LEMMA ReadFollows ==
    ASSUME NEW s \in Seq(Bodies!Classes), NEW a \in Nat, NEW n \in Nat, a + n <= Len(s),
           NEW v, Follows(s, a, v), NEW f, IsPushing(s, a, v, n, f)
    PROVE  Follows(s, a + n, f[n])
<1>0. Len(s) \in Nat
  BY LenProperties
<1>1. \A i \in 0..n : f[i] = IF i = 0 THEN v ELSE Bodies!PushByte(f[i - 1], s[a + i])
  BY DEF IsPushing
<1> DEFINE T == {k \in 0..n : ~Follows(s, a + k, f[k])}
<1>2. ASSUME T # {} PROVE FALSE
  <2>1. PICK k \in T : \A y \in T : k <= y
    <3>1. T \subseteq Nat
      OBVIOUS
    <3> HIDE DEF T
    <3> QED
      BY <1>2, <3>1, LeastOf
  <2>2. k \in 0..n /\ k \in Nat /\ ~Follows(s, a + k, f[k])
    BY <2>1
  <2>3. CASE k = 0
    <3>1. f[0] = v /\ a + 0 = a
      BY <1>1
    <3> QED
      BY <2>2, <2>3, <3>1
  <2>4. CASE k # 0
    <3>1. k - 1 \in 0..n /\ k - 1 \in Nat /\ k - 1 \notin T
      BY <2>1, <2>2, <2>4
    <3>2. PICK m : m = a + (k - 1)
      OBVIOUS
    <3>3. m \in Nat /\ m + 1 = a + k /\ m < Len(s)
      BY <1>0, <2>2, <2>4, <3>2
    <3>4. PICK u : u = f[k - 1]
      OBVIOUS
    <3>5. Follows(s, m, u)
      BY <3>1, <3>2, <3>4
    <3>6. Follows(s, m + 1, Bodies!PushByte(u, s[m + 1]))
      <4> HIDE DEF T
      <4> QED
        BY <3>3, <3>5, ByteFollows
    <3>7. f[k] = Bodies!PushByte(u, s[m + 1])
      BY <1>1, <2>2, <2>4, <3>3, <3>4
    <3> QED
      BY <2>2, <3>3, <3>6, <3>7
  <2> QED
    BY <2>3, <2>4
<1> QED
  <2>1. n \in 0..n /\ n \notin T
    BY <1>2
  <2> QED
    BY <2>1

-----------------------------------------------------------------------------
(* The kind a body has.                                                      *)
KindOf(s, json) ==
    IF s = <<>> THEN "empty" ELSE IF json THEN "json"
    ELSE IF Bodies!IsUtf8(s) THEN "text" ELSE "binary"
Metadatas ==
    [kind : {"empty", "json", "text", "binary"}, bytes : Nat,
     storage : {"none", "inline", "artifact"}]

(* What was read back is the body or a byte shorter, and the validator       *)
(* follows it.                                                               *)
ReadBackInv ==
    /\ bBody \in Seq(Bodies!Classes) /\ bFile \in Seq(Bodies!Classes)
    /\ bFile = bBody \/ Len(bFile) + 1 = Len(bBody)
    /\ bPc = "parse" => Len(bBody) > 0
    /\ bAt \in Nat /\ bAt <= Len(bFile) /\ Follows(bFile, bAt, bUtf8)
    /\ bAt = 0 => bUtf8 = Bodies!Start
BodyInv ==
    /\ ReadBackInv
    /\ bPc = "captured" =>
         /\ bFile = bBody /\ bMetadata \in Metadatas
         /\ bMetadata.bytes = Len(bBody) /\ bMetadata.kind = KindOf(bBody, bIgnoring)
    /\ bPc = "shown" /\ bIgnoring = bKeeping => bResult.kind = bMetadata.kind

(* A body that is captured, before it is read back.                          *)
LEMMA BodyInitInv == Bodies!Init => BodyInv
<1> SUFFICES ASSUME Bodies!Init PROVE BodyInv
  OBVIOUS
<1>1. /\ bBody \in Bodies!Bodies /\ bFile = bBody /\ bAt = 0 /\ bUtf8 = Bodies!Start
      /\ bPc = IF bBody = <<>> THEN "drain" ELSE "parse"
  BY DEF Bodies!Init
<1>2. PICK n \in 0..MaxLen : bBody \in [1..n -> Bytes]
  BY <1>1 DEF Bodies!Bodies
<1>3. n \in Nat
  BY BytesAssumption
<1>4. \A i \in 1..n : bBody[i] \in Bodies!Classes
  BY <1>2, BytesAssumption
<1>5. bBody \in Seq(Bodies!Classes) /\ Len(bBody) \in Nat
  BY <1>2, <1>3, <1>4, IsASeq
<1>6. bBody # <<>> => Len(bBody) > 0
  BY <1>5, EmptySeq
<1>7. Follows(bFile, 0, Bodies!Start)
  BY StartFollows
<1> QED
  BY <1>1, <1>5, <1>6, <1>7 DEF BodyInv, ReadBackInv

(* A read keeps what is known.                                               *)
LEMMA ReadStep ==
    ASSUME ReadBackInv, NEW n \in Nat, n > 0, bAt + n <= Len(bFile), Bodies!Read(n),
           UNCHANGED <<bBody, bFile, bPc>>
    PROVE  ReadBackInv'
<1>1. PICK a \in Nat : a = bAt
  BY DEF ReadBackInv
<1>2. PICK s \in Seq(Bodies!Classes) : s = bFile
  BY DEF ReadBackInv
<1>3. PICK v : v = bUtf8
  OBVIOUS
<1> DEFINE h == CHOOSE f : IsPushing(s, a, v, n, f)
<1>4. bAt' = a + n /\ bUtf8' = h[n]
  BY <1>1, <1>2, <1>3 DEF Bodies!Read, IsPushing
<1>5. IsPushing(s, a, v, n, h)
  BY PushingExists
<1>6. PICK f : IsPushing(s, a, v, n, f) /\ bUtf8' = f[n]
  BY <1>4, <1>5
<1>7. Follows(s, a, v) /\ a + n <= Len(s)
  BY <1>1, <1>2, <1>3 DEF ReadBackInv
<1>8. Follows(s, a + n, f[n])
  <2> HIDE DEF h
  <2>1. IsPushing(s, a, v, n, f)
    BY <1>6
  <2> QED
    BY <1>7, <2>1, ReadFollows
<1>9. bAt' \in Nat /\ bAt' # 0 /\ bAt' <= Len(bFile')
  BY <1>1, <1>4
<1>10. Follows(bFile', bAt', bUtf8')
  BY <1>2, <1>4, <1>6, <1>8
<1> QED
  BY <1>9, <1>10 DEF ReadBackInv

(* The spool file shrinks before anything is read.                           *)
LEMMA ShrinkStep ==
    ASSUME BodyInv, Bodies!SpoolShrinks
    PROVE  BodyInv'
<1>1. /\ bPc = "parse" /\ bAt = 0 /\ Len(bFile) = Len(bBody) /\ bFile' = SubSeq(bFile, 1, Len(bFile) - 1)
      /\ bBody' = bBody /\ bPc' = bPc /\ bAt' = bAt /\ bUtf8' = bUtf8
  BY DEF Bodies!SpoolShrinks
<1>2. /\ bBody \in Seq(Bodies!Classes) /\ bFile \in Seq(Bodies!Classes) /\ Len(bBody) > 0
      /\ bUtf8 = Bodies!Start
  BY <1>1 DEF BodyInv, ReadBackInv
<1>3. Len(bFile) \in Nat /\ Len(bFile) > 0
  BY <1>1, <1>2, LenProperties
<1>4. \A i \in 1..(Len(bFile) - 1) : bFile[i] \in Bodies!Classes
  BY <1>2, <1>3, ElementOfSeq
<1>5. bFile' \in Seq(Bodies!Classes) /\ Len(bFile') = Len(bFile) - 1
  BY <1>1, <1>3, <1>4, SubSeqProperties
<1>6. Follows(bFile', 0, Bodies!Start)
  BY StartFollows
<1>7. Len(bFile') + 1 = Len(bBody) /\ 0 <= Len(bFile')
  BY <1>1, <1>3, <1>5
<1>8. ReadBackInv'
  BY <1>1, <1>2, <1>5, <1>6, <1>7 DEF ReadBackInv
<1> QED
  BY <1>1, <1>8 DEF BodyInv

(* The kind in the metadata is that of the body.                             *)
LEMMA DescribeStep ==
    ASSUME BodyInv, Bodies!Describe
    PROVE  BodyInv'
<1>1. /\ bAt = Len(bFile) /\ bBody' = bBody /\ bFile' = bFile /\ bAt' = bAt /\ bUtf8' = bUtf8
      /\ bIgnoring' = bIgnoring /\ bKeeping' = bKeeping
  BY DEF Bodies!Describe
<1>2. ReadBackInv /\ Len(bBody) \in Nat /\ Len(bFile) \in Nat
  BY LenProperties DEF BodyInv, ReadBackInv
<1>3. ReadBackInv'
  <2>1. bPc' # "parse"
    BY DEF Bodies!Describe
  <2> QED
    BY <1>1, <1>2, <2>1 DEF ReadBackInv
<1>4. CASE bAt # Len(bBody)
  <2>1. bPc' = "failed"
    BY <1>4 DEF Bodies!Describe
  <2> QED
    BY <1>3, <2>1 DEF BodyInv
<1>5. CASE bAt = Len(bBody)
  <2>1. bFile = bBody
    BY <1>1, <1>2, <1>5 DEF ReadBackInv
  <2>2. Bodies!IsValid(bUtf8) <=> Bodies!IsUtf8(bBody)
    <3>1. bBody \in Seq(Bodies!Classes) /\ Follows(bBody, Len(bBody), bUtf8)
      BY <1>2, <1>5, <2>1 DEF ReadBackInv
    <3> QED
      BY <3>1, FollowedWhole
  <2>3. PICK kind : kind = IF bBody = <<>> THEN "empty" ELSE IF bIgnoring THEN "json"
                           ELSE IF Bodies!IsValid(bUtf8) THEN "text" ELSE "binary"
    OBVIOUS
  <2>4. kind = KindOf(bBody, bIgnoring) /\ kind \in {"empty", "json", "text", "binary"}
    BY <2>2, <2>3 DEF KindOf
  <2>5. PICK st \in {"none", "inline"} : st = IF bBody = <<>> THEN "none" ELSE "inline"
    OBVIOUS
  <2>6. bPc' = "captured" /\ bMetadata' = [kind |-> kind, bytes |-> Len(bBody), storage |-> st]
    BY <1>5, <2>3, <2>5 DEF Bodies!Describe, Bodies!Metadata
  <2>7. bMetadata' \in Metadatas /\ bMetadata'.kind = kind /\ bMetadata'.bytes = Len(bBody)
    BY <1>2, <2>4, <2>6 DEF Metadatas
  <2> QED
    BY <1>1, <1>3, <2>1, <2>4, <2>6, <2>7 DEF BodyInv
<1> QED
  BY <1>4, <1>5

(* What the response shows has the kind of the metadata.                     *)
LEMMA EvaluateStep ==
    ASSUME BodyInv, NEW head \in BOOLEAN, NEW artifact \in BOOLEAN, NEW max,
           Bodies!Evaluate(head, artifact, max)
    PROVE  BodyInv'
<1>1. /\ bPc = "captured" /\ bBody' = bBody /\ bFile' = bFile /\ bAt' = bAt /\ bUtf8' = bUtf8
      /\ bIgnoring' = bIgnoring /\ bKeeping' = bKeeping /\ bPc' \in {"failed", "shown"}
  BY DEF Bodies!Evaluate
<1>2. ReadBackInv'
  BY <1>1 DEF BodyInv, ReadBackInv
<1>3. bMetadata \in Metadatas /\ bMetadata.kind = KindOf(bBody, bIgnoring)
  BY <1>1 DEF BodyInv
<1>4. ASSUME bPc' = "shown", bIgnoring = bKeeping PROVE bResult'.kind = bMetadata'.kind
  <2>1. PICK plain : plain = IF artifact THEN Bodies!Shown(bMetadata.kind, "null", FALSE, FALSE)
                             ELSE Bodies!BodyValue
    OBVIOUS
  <2>2. plain.kind = bMetadata.kind
    <3>1. CASE artifact
      BY <2>1, <3>1 DEF Bodies!Shown
    <3>2. CASE ~artifact
      BY <1>3, <1>4, <2>1, <3>2 DEF KindOf, Bodies!BodyValue, Bodies!Shown
    <3> QED
      BY <3>1, <3>2
  <2>3. PICK m : m = IF head /\ plain.kind = "empty" THEN Bodies!Metadata("json", 1, "inline")
                     ELSE bMetadata
    OBVIOUS
  <2>4. m \in Metadatas
    BY <1>3, <2>3 DEF Bodies!Metadata, Metadatas
  <2>5. /\ bResult' = IF head /\ plain.kind = "empty" THEN Bodies!Shown("json", "value", TRUE, FALSE)
                      ELSE plain
        /\ bMetadata' = IF artifact THEN [m EXCEPT !.storage = "artifact"] ELSE m
    BY <1>4, <2>1, <2>3 DEF Bodies!Evaluate
  <2>6. bMetadata'.kind = m.kind
    BY <2>4, <2>5 DEF Metadatas
  <2>7. CASE head /\ plain.kind = "empty"
    BY <2>3, <2>5, <2>6, <2>7 DEF Bodies!Metadata, Bodies!Shown
  <2>8. CASE ~(head /\ plain.kind = "empty")
    BY <2>2, <2>3, <2>5, <2>6, <2>8
  <2> QED
    BY <2>7, <2>8
<1> QED
  BY <1>1, <1>2, <1>4 DEF BodyInv

(* Every step keeps BodyInv.                                                 *)
LEMMA BodyNextInv == BodyInv /\ [Bodies!Next]_Bodies!vars => BodyInv'
<1> SUFFICES ASSUME BodyInv, [Bodies!Next]_Bodies!vars PROVE BodyInv'
  OBVIOUS
<1>1. CASE Bodies!ParserReads
  <2>1. /\ bAt < Len(bFile) /\ bPc = "parse" /\ Bodies!Read(1)
        /\ UNCHANGED <<bBody, bFile, bPc>>
    BY <1>1 DEF Bodies!ParserReads
  <2>2. bAt + 1 <= Len(bFile)
    BY <2>1, LenProperties DEF BodyInv, ReadBackInv
  <2>3. ReadBackInv'
    BY <2>1, <2>2, ReadStep DEF BodyInv
  <2> QED
    BY <2>1, <2>3 DEF BodyInv
<1>2. CASE Bodies!Drain
  <2>1. PICK n \in 1..MaxPiece : bAt + n <= Len(bFile) /\ Bodies!Read(n)
    BY <1>2 DEF Bodies!Drain
  <2>2. bPc = "drain" /\ UNCHANGED <<bBody, bFile, bPc>>
    BY <1>2 DEF Bodies!Drain
  <2>3. n \in Nat /\ n > 0
    BY BytesAssumption
  <2>4. ReadBackInv'
    BY <2>1, <2>2, <2>3, ReadStep DEF BodyInv
  <2> QED
    BY <2>2, <2>4 DEF BodyInv
<1>3. CASE Bodies!ParserStops
  BY <1>3 DEF Bodies!ParserStops, BodyInv, ReadBackInv
<1>4. CASE Bodies!Done \/ UNCHANGED Bodies!vars
  <2>1. UNCHANGED Bodies!vars
    BY <1>4 DEF Bodies!Done
  <2> QED
    BY <2>1 DEF Bodies!vars, BodyInv, ReadBackInv
<1> QED
  BY <1>1, <1>2, <1>3, <1>4, ShrinkStep, DescribeStep, EvaluateStep DEF Bodies!Next

(* BodyKindRight: however the parser and the reads cut a body of any length, *)
(* the validator that sees it byte by byte calls it text exactly when the    *)
(* whole body is UTF-8, a body of which bytes were lost is refused, and the  *)
(* response shows the kind of the metadata unless the JSON parsers disagree  *)
(* (Utf8Validator::push_byte, compute_body_metadata, body_value).            *)
THEOREM BodyKindCorrect == Bodies!Spec => []BodyKindRight
<1>1. BodyInv => BodyKindRight
  BY DEF BodyInv, KindOf, BodyKindRight, Bodies!BodyKindRight
<1> QED
  BY <1>1, BodyInitInv, BodyNextInv, PTL DEF Bodies!Spec

-----------------------------------------------------------------------------
(* Names a path may hold.                                                    *)
Nm == Names \cup {Disk!Unsafe}

(* The file system, and what stays as it was given.                          *)
PlaceInv ==
    /\ IsTree(fDirs, fFiles, fLinks)
    /\ fPath \in Seq(Nm) /\ fPath # <<>> /\ fRoots \subseteq Seq(Nm)

-----------------------------------------------------------------------------
(* The first n names of a path.                                              *)
Cut(s, n) == SubSeq(s, 1, n)

(* What a beginning of a path holds.                                         *)
LEMMA CutIs ==
    ASSUME NEW S, NEW s \in Seq(S), NEW n \in 0..Len(s)
    PROVE  Cut(s, n) \in Seq(S) /\ Len(Cut(s, n)) = n /\ \A i \in 1..n : Cut(s, n)[i] = s[i]
<1>1. Len(s) \in Nat /\ \A i \in 1..Len(s) : s[i] \in S
  BY LenProperties
<1>2. \A i \in 1..n : s[i] \in S
  BY <1>1
<1>3. n \in Nat /\ (IF 1 <= n THEN n - 1 + 1 ELSE 0) = n /\ n - 1 + 1 = n
  BY <1>1
<1>4. /\ SubSeq(s, 1, n) \in Seq(S) /\ Len(SubSeq(s, 1, n)) = IF 1 <= n THEN n - 1 + 1 ELSE 0
      /\ \A i \in 1..(n - 1 + 1) : SubSeq(s, 1, n)[i] = s[1 + i - 1]
  BY <1>2, <1>3, SubSeqProperties
<1>5. \A i \in 1..n : SubSeq(s, 1, n)[i] = s[i]
  BY <1>3, <1>4
<1> QED
  BY <1>3, <1>4, <1>5 DEF Cut

(* A beginning of a beginning.                                               *)
LEMMA CutOfCut ==
    ASSUME NEW S, NEW s \in Seq(S), NEW n \in 0..Len(s), NEW k \in 0..n
    PROVE  Cut(Cut(s, n), k) = Cut(s, k)
<1>1. Len(s) \in Nat /\ k \in 0..Len(s)
  BY LenProperties
<1>2. PICK a : a = Cut(s, n)
  OBVIOUS
<1>3. a \in Seq(S) /\ Len(a) = n /\ \A i \in 1..n : a[i] = s[i]
  BY <1>2, CutIs
<1>4. PICK b : b = Cut(a, k)
  OBVIOUS
<1>5. b \in Seq(S) /\ Len(b) = k /\ \A i \in 1..k : b[i] = a[i]
  BY <1>3, <1>4, CutIs
<1>6. PICK c : c = Cut(s, k)
  OBVIOUS
<1>7. c \in Seq(S) /\ Len(c) = k /\ \A i \in 1..k : c[i] = s[i]
  BY <1>1, <1>6, CutIs
<1>8. Len(b) = Len(c) /\ \A i \in 1..Len(b) : b[i] = c[i]
  BY <1>1, <1>3, <1>5, <1>7
<1>9. b = c
  BY <1>5, <1>7, <1>8, SeqEqual
<1> QED
  BY <1>2, <1>4, <1>6, <1>9

(* A beginning of a longer path.                                             *)
LEMMA CutOfAppend ==
    ASSUME NEW S, NEW s \in Seq(S), NEW x \in S, NEW k \in 0..Len(s)
    PROVE  Cut(Append(s, x), k) = Cut(s, k)
<1>1. Len(s) \in Nat
  BY LenProperties
<1>2. PICK a : a = Append(s, x)
  OBVIOUS
<1>3. a \in Seq(S) /\ Len(a) = Len(s) + 1 /\ \A i \in 1..Len(s) : a[i] = s[i]
  BY <1>2, AppendProperties
<1>4. PICK b : b = Cut(a, k)
  OBVIOUS
<1>0. k \in 0..Len(a)
  BY <1>1, <1>3
<1>5. b \in Seq(S) /\ Len(b) = k /\ \A i \in 1..k : b[i] = a[i]
  BY <1>0, <1>3, <1>4, CutIs
<1>6. PICK c : c = Cut(s, k)
  OBVIOUS
<1>7. c \in Seq(S) /\ Len(c) = k /\ \A i \in 1..k : c[i] = s[i]
  BY <1>1, <1>6, CutIs
<1>8. Len(b) = Len(c) /\ \A i \in 1..Len(b) : b[i] = c[i]
  BY <1>1, <1>3, <1>5, <1>7
<1>9. b = c
  BY <1>5, <1>7, <1>8, SeqEqual
<1> QED
  BY <1>2, <1>4, <1>6, <1>9

(* All the names of a path.                                                  *)
LEMMA WholeCut ==
    ASSUME NEW S, NEW s \in Seq(S)
    PROVE  Cut(s, Len(s)) = s
  BY SubSeqFull DEF Cut

(* A beginning, one name longer.                                             *)
LEMMA CutStep ==
    ASSUME NEW S, NEW s \in Seq(S), NEW n \in 1..Len(s)
    PROVE  Cut(s, n) = Append(Cut(s, n - 1), s[n])
<1>1. Len(s) \in Nat /\ s[n] \in S /\ n - 1 \in 0..Len(s) /\ n \in 0..Len(s)
  BY LenProperties
<1>2. PICK a : a = Cut(s, n)
  OBVIOUS
<1>3. a \in Seq(S) /\ Len(a) = n /\ \A i \in 1..n : a[i] = s[i]
  BY <1>1, <1>2, CutIs
<1>4. PICK b : b = Cut(s, n - 1)
  OBVIOUS
<1>5. b \in Seq(S) /\ Len(b) = n - 1 /\ \A i \in 1..(n - 1) : b[i] = s[i]
  BY <1>1, <1>4, CutIs
<1>6. PICK c : c = Append(b, s[n])
  OBVIOUS
<1>7. c \in Seq(S) /\ Len(c) = Len(b) + 1 /\ (\A i \in 1..Len(b) : c[i] = b[i]) /\ c[Len(b) + 1] = s[n]
  BY <1>1, <1>5, <1>6, AppendProperties
<1>0. n \in Nat /\ Len(a) = Len(c) /\ n - 1 + 1 = n
  BY <1>1, <1>3, <1>5, <1>7
<1>8. ASSUME NEW i \in 1..Len(a) PROVE a[i] = c[i]
  <2>1. CASE i = n
    BY <1>0, <1>3, <1>5, <1>7, <2>1
  <2>2. CASE i # n
    <3>1. i \in 1..(n - 1) /\ i \in 1..n
      BY <1>0, <1>3, <2>2
    <3> QED
      BY <1>3, <1>5, <1>7, <3>1
  <2> QED
    BY <2>1, <2>2
<1>9. a = c
  BY <1>0, <1>3, <1>7, <1>8, SeqEqual
<1> QED
  BY <1>2, <1>4, <1>6, <1>9

-----------------------------------------------------------------------------
(* One name further from x, in the file system of directories d, files f and *)
(* links l: the value of Enter.                                              *)
Further(d, f, l, x, n) ==
    IF x \notin d THEN Disk!Missing
    ELSE LET p == IF Append(x, n) \in DOMAIN l THEN l[Append(x, n)] ELSE Append(x, n)
         IN  IF p \in d \cup f THEN p ELSE Disk!Missing

(* w[i] is where the first i names of p lead.                                *)
IsWalk(d, f, l, p, n, w) ==
    w = [i \in 0..n |-> IF i = 0 THEN <<>> ELSE Further(d, f, l, w[i - 1], p[i])]

(* Where p leads.                                                            *)
Lead(d, f, l, p) == (CHOOSE w : IsWalk(d, f, l, p, Len(p), w))[Len(p)]

(* fs::canonicalize, before and after a step.                                *)
LEMMA CanonicalizeIs ==
    ASSUME NEW p
    PROVE  /\ Disk!Canonicalize(p) = Lead(fDirs, fFiles, fLinks, p)
           /\ Disk!Canonicalize(p)' = Lead(fDirs', fFiles', fLinks', p)
  BY DEF Disk!Canonicalize, Disk!Enter, Disk!Follow, Disk!Exists, Lead, IsWalk, Further

(* There is a walk.                                                          *)
LEMMA WalkExists ==
    ASSUME NEW d, NEW f, NEW l, NEW p, NEW n \in Nat
    PROVE  \E w : IsWalk(d, f, l, p, n, w)
<1> DEFINE T == {m \in Nat : ~\E w : IsWalk(d, f, l, p, m, w)}
<1> SUFFICES ASSUME T # {} PROVE FALSE
  OBVIOUS
<1>1. PICK m \in T : \A y \in T : m <= y
  <2>1. T \subseteq Nat
    OBVIOUS
  <2> HIDE DEF T
  <2> QED
    BY <2>1, LeastOf
<1>2. CASE m = 0
  <2> DEFINE w == [i \in 0..0 |-> <<>>]
  <2>1. IsWalk(d, f, l, p, 0, w)
    BY DEF IsWalk
  <2> QED
    BY <1>1, <1>2, <2>1
<1>3. CASE m # 0
  <2>1. m - 1 \in Nat /\ m - 1 \notin T
    BY <1>1, <1>3
  <2>2. PICK g : IsWalk(d, f, l, p, m - 1, g)
    BY <2>1
  <2> DEFINE w == [i \in 0..m |-> IF i = m THEN Further(d, f, l, g[m - 1], p[m]) ELSE g[i]]
  <2>3. \A i \in 0..(m - 1) : g[i] = IF i = 0 THEN <<>> ELSE Further(d, f, l, g[i - 1], p[i])
    BY <2>2 DEF IsWalk
  <2>4. ASSUME NEW i \in 0..m
        PROVE  w[i] = IF i = 0 THEN <<>> ELSE Further(d, f, l, w[i - 1], p[i])
    BY <1>3, <2>3
  <2>5. IsWalk(d, f, l, p, m, w)
    BY <2>4 DEF IsWalk
  <2> QED
    BY <1>1, <2>5
<1> QED
  BY <1>2, <1>3

(* A walk along p passes where the beginnings of p lead.                     *)
LEMMA WalkPasses ==
    ASSUME NEW d, NEW f, NEW l, NEW p \in Seq(Nm), NEW w, IsWalk(d, f, l, p, Len(p), w),
           NEW k \in 0..Len(p)
    PROVE  Lead(d, f, l, Cut(p, k)) = w[k]
<1>0. Len(p) \in Nat
  BY LenProperties
<1>1. PICK q : q = Cut(p, k)
  OBVIOUS
<1>2. q \in Seq(Nm) /\ Len(q) = k /\ \A i \in 1..k : q[i] = p[i]
  BY <1>1, CutIs
<1>3. PICK v : v = (CHOOSE u : IsWalk(d, f, l, q, Len(q), u))
  OBVIOUS
<1>4. IsWalk(d, f, l, q, Len(q), v) /\ Lead(d, f, l, q) = v[k]
  BY <1>0, <1>2, <1>3, WalkExists DEF Lead
<1>5. \A i \in 0..k : v[i] = IF i = 0 THEN <<>> ELSE Further(d, f, l, v[i - 1], q[i])
  BY <1>2, <1>4 DEF IsWalk
<1>6. \A i \in 0..Len(p) : w[i] = IF i = 0 THEN <<>> ELSE Further(d, f, l, w[i - 1], p[i])
  BY DEF IsWalk
<1> DEFINE T == {i \in 0..k : v[i] # w[i]}
<1>7. ASSUME T # {} PROVE FALSE
  <2>1. PICK i \in T : \A y \in T : i <= y
    <3>1. T \subseteq Nat
      BY <1>0
    <3> HIDE DEF T
    <3> QED
      BY <1>7, <3>1, LeastOf
  <2>2. i \in 0..k /\ i \in 0..Len(p) /\ v[i] # w[i]
    BY <1>0, <2>1
  <2>3. i # 0
    BY <1>5, <1>6, <2>2
  <2>4. i - 1 \in 0..k /\ i - 1 \notin T /\ i \in 1..k
    BY <1>0, <2>1, <2>2, <2>3
  <2>5. v[i - 1] = w[i - 1] /\ q[i] = p[i]
    BY <1>2, <2>4
  <2> QED
    BY <1>5, <1>6, <2>2, <2>3, <2>5
<1>8. v[k] = w[k]
  BY <1>0, <1>7
<1> QED
  BY <1>1, <1>4, <1>8

(* Where a path leads, name by name.                                         *)
LEMMA LeadIs ==
    ASSUME NEW d, NEW f, NEW l, NEW p \in Seq(Nm)
    PROVE  /\ Lead(d, f, l, Cut(p, 0)) = <<>>
           /\ \A k \in 1..Len(p) :
                 Lead(d, f, l, Cut(p, k)) = Further(d, f, l, Lead(d, f, l, Cut(p, k - 1)), p[k])
<1>0. Len(p) \in Nat
  BY LenProperties
<1>1. PICK w : IsWalk(d, f, l, p, Len(p), w)
  BY <1>0, WalkExists
<1>2. \A i \in 0..Len(p) : w[i] = IF i = 0 THEN <<>> ELSE Further(d, f, l, w[i - 1], p[i])
  BY <1>1 DEF IsWalk
<1>3. ASSUME NEW k \in 0..Len(p) PROVE Lead(d, f, l, Cut(p, k)) = w[k]
  BY <1>1, WalkPasses
<1>4. Lead(d, f, l, Cut(p, 0)) = <<>>
  BY <1>0, <1>2, <1>3
<1>5. ASSUME NEW k \in 1..Len(p)
      PROVE  Lead(d, f, l, Cut(p, k)) = Further(d, f, l, Lead(d, f, l, Cut(p, k - 1)), p[k])
  <2>1. k \in 0..Len(p) /\ k - 1 \in 0..Len(p) /\ k # 0
    BY <1>0
  <2> QED
    BY <1>2, <1>3, <2>1
<1> QED
  BY <1>4, <1>5

(* The same, as one fact: where a path leads, name by name.                  *)
LeadsAlong(d, f, l, p) ==
    \A k \in 1..Len(p) :
        Lead(d, f, l, Cut(p, k)) = Further(d, f, l, Lead(d, f, l, Cut(p, k - 1)), p[k])

(* It holds of every path.                                                   *)
LEMMA LeadAlong ==
    ASSUME NEW d, NEW f, NEW l, NEW p \in Seq(Nm)
    PROVE  LeadsAlong(d, f, l, p)
  BY LeadIs DEF LeadsAlong

(* The first m of the first n names, as one fact.                            *)
CutsAgain(c, n, m) == Cut(Cut(c, n), m) = Cut(c, m) /\ Len(Cut(c, n)) = n

(* It holds of every path.                                                   *)
LEMMA CutAgain ==
    ASSUME NEW c \in Seq(Nm), NEW n \in 0..Len(c), NEW m \in 0..n
    PROVE  CutsAgain(c, n, m)
<1>1. Cut(Cut(c, n), m) = Cut(c, m)
  BY CutOfCut
<1>2. Len(Cut(c, n)) = n
  BY CutIs
<1> QED
  BY <1>1, <1>2 DEF CutsAgain


(* A path that leads somewhere leads there when directories and files are    *)
(* added.                                                                    *)
LEMMA LeadStays ==
    ASSUME NEW d, NEW f, NEW l, NEW e, NEW g, d \subseteq e, f \subseteq g,
           Disk!Missing \notin d, NEW p \in Seq(Nm), Lead(d, f, l, p) # Disk!Missing
    PROVE  Lead(e, g, l, p) = Lead(d, f, l, p)
<1>0. Len(p) \in Nat /\ Cut(p, Len(p)) = p
  BY LenProperties, WholeCut
<1> DEFINE Was(k) == Lead(d, f, l, Cut(p, k))
           Now(k) == Lead(e, g, l, Cut(p, k))
           T == {k \in 0..Len(p) : Was(k) # Disk!Missing /\ Was(k) # Now(k)}
<1>1. Was(0) = <<>> /\ \A k \in 1..Len(p) : Was(k) = Further(d, f, l, Was(k - 1), p[k])
  BY LeadIs
<1>2. Now(0) = <<>> /\ \A k \in 1..Len(p) : Now(k) = Further(e, g, l, Now(k - 1), p[k])
  BY LeadIs
<1> HIDE DEF Was, Now
<1>3. ASSUME T # {} PROVE FALSE
  <2>1. PICK k \in T : \A y \in T : k <= y
    <3>1. T \subseteq Nat
      BY <1>0
    <3> HIDE DEF T
    <3> QED
      BY <1>3, <3>1, LeastOf
  <2>2. k \in 0..Len(p) /\ Was(k) # Disk!Missing /\ Was(k) # Now(k)
    BY <2>1
  <2>3. k # 0
    BY <1>1, <1>2, <2>2
  <2>4. k \in 1..Len(p) /\ k - 1 \in 0..Len(p) /\ k - 1 \notin T
    BY <1>0, <2>1, <2>2, <2>3
  <2>5. Was(k) = Further(d, f, l, Was(k - 1), p[k]) /\ Now(k) = Further(e, g, l, Now(k - 1), p[k])
    BY <1>1, <1>2, <2>4
  <2>6. Was(k - 1) \in d
    BY <2>2, <2>5 DEF Further
  <2>7. Was(k - 1) = Now(k - 1)
    BY <2>4, <2>6
  <2> HIDE DEF T
  <2> QED
    BY <2>2, <2>5, <2>6, <2>7 DEF Further
<1>4. Was(Len(p)) = Lead(d, f, l, p) /\ Now(Len(p)) = Lead(e, g, l, p)
  BY <1>0 DEF Was, Now
<1>5. Len(p) \in 0..Len(p)
  BY <1>0
<1> QED
  BY <1>3, <1>4, <1>5

-----------------------------------------------------------------------------
(* A file system, with the beginnings of paths as Cut.                       *)
LEMMA TreeIs ==
    ASSUME NEW d, NEW f, NEW l
    PROVE  IsTree(d, f, l) <=>
             /\ <<>> \in d /\ d \subseteq Seq(Nm) /\ f \subseteq Seq(Nm) /\ DOMAIN l \subseteq Seq(Nm)
             /\ \A p \in d : \A k \in 0..Len(p) : Cut(p, k) \in d
             /\ \A p \in DOMAIN l : p # <<>> /\ Cut(p, Len(p) - 1) \in d
  BY DEF IsTree, Prefixes, Front, Nm, Cut

(* No file is at the place that stands for none.                             *)
LEMMA MissingIs ==
    ASSUME NEW s \in Seq(Nm)
    PROVE  s # Disk!Missing
<1>1. "missing" \notin Nm
  BY TreesAssumption DEF Nm, Disk!Unsafe
<1>2. ASSUME s = Disk!Missing PROVE FALSE
  <2>1. s[1] = "missing" /\ Len(s) = 1
    BY <1>2 DEF Disk!Missing
  <2>2. s[1] \in Nm
    BY <2>1, LenProperties
  <2> QED
    BY <1>1, <2>1, <2>2
<1> QED
  BY <1>2

(* The directories d with the way to c.                                      *)
WayTo(d, c) == d \cup {Cut(c, k) : k \in 0..Len(c)}

(* Directories and links stay in directories when the way to one is added.   *)
LEMMA TreeGrows ==
    ASSUME NEW d, NEW f, NEW l, IsTree(d, f, l), NEW c \in Seq(Nm),
           NEW e, e = WayTo(d, c)
    PROVE  IsTree(e, f, l) /\ c \in e
<1>1. /\ <<>> \in d /\ d \subseteq Seq(Nm) /\ f \subseteq Seq(Nm) /\ DOMAIN l \subseteq Seq(Nm)
      /\ \A p \in d : \A k \in 0..Len(p) : Cut(p, k) \in d
      /\ \A p \in DOMAIN l : p # <<>> /\ Cut(p, Len(p) - 1) \in d
  BY TreeIs
<1>2. Len(c) \in Nat /\ e = d \cup {Cut(c, k) : k \in 0..Len(c)}
  BY LenProperties DEF WayTo
<1>3. e \subseteq Seq(Nm)
  BY <1>1, <1>2, CutIs
<1>4. ASSUME NEW p \in e, NEW k \in 0..Len(p) PROVE Cut(p, k) \in e
  <2>1. CASE p \in d
    BY <1>1, <1>2, <2>1
  <2>2. CASE p \notin d
    <3>1. PICK n \in 0..Len(c) : p = Cut(c, n)
      BY <1>2, <2>2
    <3>2. Len(p) = n
      BY <3>1, CutIs
    <3>3. k \in 0..n /\ k \in 0..Len(c)
      BY <1>2, <3>2
    <3>4. Cut(p, k) = Cut(c, k)
      BY <3>1, <3>3, CutOfCut
    <3> QED
      BY <1>2, <3>3, <3>4
  <2> QED
    BY <2>1, <2>2
<1>5. c \in e
  <2>1. c = Cut(c, Len(c)) /\ Len(c) \in 0..Len(c)
    BY <1>2, WholeCut
  <2> QED
    BY <1>2, <2>1
<1>6. /\ <<>> \in e
      /\ \A p \in DOMAIN l : p # <<>> /\ Cut(p, Len(p) - 1) \in e
  BY <1>1, <1>2
<1> QED
  BY <1>1, <1>3, <1>4, <1>5, <1>6, TreeIs

(* The names of a path, put behind another.                                  *)
LEMMA RestIs ==
    ASSUME NEW S, NEW q \in Seq(S), NEW e \in 0..Len(q)
    PROVE  /\ SubSeq(q, e + 1, Len(q)) \in Seq(S) /\ Len(SubSeq(q, e + 1, Len(q))) = Len(q) - e
           /\ \A i \in 1..(Len(q) - e) : SubSeq(q, e + 1, Len(q))[i] = q[e + i]
<1>1. Len(q) \in Nat /\ \A i \in 1..Len(q) : q[i] \in S
  BY LenProperties
<1>2. \A i \in (e + 1)..Len(q) : q[i] \in S
  BY <1>1
<1>3. PICK m : m = e + 1
  OBVIOUS
<1>4. /\ m \in Int /\ Len(q) \in Int /\ Len(q) - m + 1 = Len(q) - e
      /\ (IF m <= Len(q) THEN Len(q) - m + 1 ELSE 0) = Len(q) - e
      /\ \A i \in 1..(Len(q) - e) : m + i - 1 = e + i
  BY <1>1, <1>3
<1>5. \A i \in m..Len(q) : q[i] \in S
  BY <1>2, <1>3
<1>6. /\ SubSeq(q, m, Len(q)) \in Seq(S)
      /\ Len(SubSeq(q, m, Len(q))) = IF m <= Len(q) THEN Len(q) - m + 1 ELSE 0
      /\ \A i \in 1..(Len(q) - m + 1) : SubSeq(q, m, Len(q))[i] = q[m + i - 1]
  BY <1>4, <1>5, SubSeqProperties
<1> QED
  BY <1>3, <1>4, <1>6

(* c is x with the names of q behind the first e.                            *)
IsLonger(S, x, q, e, c) ==
    /\ c \in Seq(S) /\ Len(c) = Len(x) + (Len(q) - e) /\ Cut(c, Len(x)) = x
    /\ \A k \in (e + 1)..Len(q) : c[Len(x) + (k - e)] = q[k]

(* It is what putting those names behind x gives.                            *)
LEMMA LongerIs ==
    ASSUME NEW S, NEW x \in Seq(S), NEW q \in Seq(S), NEW e \in 0..Len(q)
    PROVE  IsLonger(S, x, q, e, x \o SubSeq(q, e + 1, Len(q)))
<1>0. PICK c : c = x \o SubSeq(q, e + 1, Len(q))
  OBVIOUS
<1>1. Len(q) \in Nat /\ Len(x) \in Nat /\ e \in Nat /\ e <= Len(q)
  BY LenProperties
<1>2. PICK t : t = SubSeq(q, e + 1, Len(q))
  OBVIOUS
<1>3. t \in Seq(S) /\ Len(t) = Len(q) - e /\ \A i \in 1..(Len(q) - e) : t[i] = q[e + i]
  BY <1>2, RestIs
<1>4. c = x \o t
  BY <1>0, <1>2
<1>5. /\ c \in Seq(S) /\ Len(c) = Len(x) + Len(t)
      /\ \A i \in 1..(Len(x) + Len(t)) : c[i] = IF i <= Len(x) THEN x[i] ELSE t[i - Len(x)]
  <2>1. t \in Seq(S)
    BY <1>3
  <2> QED
    BY <1>4, <2>1, ConcatProperties
<1>6. Len(c) = Len(x) + (Len(q) - e)
  BY <1>3, <1>5
<1>7. Cut(c, Len(x)) = x
  <2>1. Len(x) \in 0..Len(c)
    BY <1>1, <1>6
  <2>2. PICK a : a = Cut(c, Len(x))
    OBVIOUS
  <2>3. c \in Seq(S)
    BY <1>5
  <2>4. a \in Seq(S) /\ Len(a) = Len(x) /\ \A i \in 1..Len(x) : a[i] = c[i]
    BY <2>1, <2>2, <2>3, CutIs
  <2>5. ASSUME NEW i \in 1..Len(x) PROVE c[i] = x[i]
    <3>1. Len(t) \in Nat
      BY <1>3, LenProperties
    <3>2. i \in 1..(Len(x) + Len(t)) /\ i <= Len(x)
      BY <1>1, <3>1
    <3> QED
      BY <1>5, <3>2
  <2>6. a = x
    BY <2>4, <2>5, SeqEqual
  <2> QED
    BY <2>2, <2>6
<1>8. ASSUME NEW k \in (e + 1)..Len(q) PROVE c[Len(x) + (k - e)] = q[k]
  <2>1. PICK i : i = k - e
    OBVIOUS
  <2>2. /\ i \in 1..(Len(q) - e) /\ e + i = k /\ Len(x) + i \in 1..(Len(x) + Len(t))
        /\ ~(Len(x) + i <= Len(x)) /\ (Len(x) + i) - Len(x) = i
    BY <1>1, <1>3, <2>1
  <2>3. c[Len(x) + i] = t[i]
    BY <1>5, <2>2
  <2> QED
    BY <1>3, <2>1, <2>2, <2>3
<1> QED
  BY <1>0, <1>5, <1>6, <1>7, <1>8 DEF IsLonger

(* x, where the first e names of q lead, is the last directory on the way:   *)
(* nothing is at the next name.  c is x with the other names of q.           *)
IsLast(d, f, l, q, e, x, c) ==
    /\ e \in 0..Len(q) /\ x \in d /\ x = Lead(d, f, l, Cut(q, e))
    /\ e < Len(q) => Append(x, q[e + 1]) \notin d \cup DOMAIN l
    /\ c = x \o SubSeq(q, e + 1, Len(q))

(* Once the directories on the way to c are made, q leads to c.              *)
LEMMA MadeLeads ==
    ASSUME NEW d, NEW f, NEW l, IsTree(d, f, l), NEW q \in Seq(Nm), NEW e, NEW x, NEW c,
           IsLast(d, f, l, q, e, x, c), NEW g, g = WayTo(d, c)
    PROVE  IsTree(g, f, l) /\ Lead(g, f, l, q) = c /\ c \in g
<1> SUFFICES ASSUME e \in 0..Len(q), x \in d, x = Lead(d, f, l, Cut(q, e)),
                    e < Len(q) => Append(x, q[e + 1]) \notin d \cup DOMAIN l,
                    c = x \o SubSeq(q, e + 1, Len(q))
             PROVE  IsTree(g, f, l) /\ Lead(g, f, l, q) = c /\ c \in g
  BY DEF IsLast
<1>1. /\ <<>> \in d /\ d \subseteq Seq(Nm) /\ f \subseteq Seq(Nm) /\ DOMAIN l \subseteq Seq(Nm)
      /\ \A p \in d : \A k \in 0..Len(p) : Cut(p, k) \in d
      /\ \A p \in DOMAIN l : p # <<>> /\ Cut(p, Len(p) - 1) \in d
  BY TreeIs
<1>2. x \in Seq(Nm) /\ Len(x) \in Nat /\ Len(q) \in Nat /\ e \in Nat /\ e <= Len(q)
  BY <1>1, LenProperties
<1>4. /\ c \in Seq(Nm) /\ Len(c) = Len(x) + (Len(q) - e) /\ Cut(c, Len(x)) = x
      /\ \A k \in (e + 1)..Len(q) : c[Len(x) + (k - e)] = q[k]
  <2>1. IsLonger(Nm, x, q, e, c)
    BY <1>2, LongerIs
  <2> QED
    BY <2>1 DEF IsLonger
<1>5. c \in Seq(Nm)
  BY <1>4
<1>6. Len(c) = Len(x) + (Len(q) - e) /\ Len(c) \in Nat
  BY <1>2, <1>4
<1>7. IsTree(g, f, l) /\ c \in g
  BY <1>5, TreeGrows
<1>0. g = d \cup {Cut(c, k) : k \in 0..Len(c)}
  BY DEF WayTo
<1> DEFINE D(k) == Cut(c, Len(x) + (k - e))
<1>8. D(e) = x
  <2>1. Len(x) + (e - e) = Len(x)
    BY <1>2
  <2> QED
    BY <1>4, <2>1
<1>9. ASSUME NEW k \in (e + 1)..Len(q)
      PROVE  /\ D(k) = Append(D(k - 1), q[k]) /\ D(k) \in g /\ D(k) \in Seq(Nm)
             /\ Len(D(k)) = Len(x) + (k - e)
  <2>1. PICK n : n = Len(x) + (k - e)
    OBVIOUS
  <2>2. /\ n \in Nat /\ n \in 1..Len(c) /\ n \in 0..Len(c) /\ Len(x) + ((k - 1) - e) = n - 1
    BY <1>2, <1>6, <2>1
  <2>3. c[n] = q[k]
    BY <1>4, <2>1
  <2>4. Cut(c, n) = Append(Cut(c, n - 1), c[n])
    BY <1>5, <2>2, CutStep
  <2>5. Cut(c, n) \in Seq(Nm) /\ Len(Cut(c, n)) = n
    BY <1>5, <2>2, CutIs
  <2> QED
    BY <1>0, <2>1, <2>2, <2>3, <2>4, <2>5
<1>10. ASSUME NEW k \in (e + 1)..Len(q) PROVE D(k) \notin d
  <2>1. e + 1 \in (e + 1)..Len(q) /\ e < Len(q) /\ (e + 1) - 1 = e /\ Len(x) + ((e + 1) - e) = Len(x) + 1
    BY <1>2
  <2>2. D(e + 1) \notin d
    BY <1>8, <1>9, <2>1
  <2>3. PICK n : n = Len(x) + (k - e)
    OBVIOUS
  <2>4. n \in 0..Len(c) /\ Len(x) + 1 \in 0..n
    BY <1>2, <1>6, <2>3
  <2>5. Cut(Cut(c, n), Len(x) + 1) = Cut(c, Len(x) + 1) /\ Len(Cut(c, n)) = n
    <3>1. PICK m : m = Len(x) + 1
      OBVIOUS
    <3>2. n \in 0..Len(c) /\ m \in 0..n
      BY <2>4, <3>1
    <3>3. CutsAgain(c, n, m)
      BY <1>5, <3>2, CutAgain
    <3> QED
      BY <3>1, <3>3 DEF CutsAgain
  <2>6. Cut(c, n) \in d => Cut(c, Len(x) + 1) \in d
    BY <1>1, <2>4, <2>5
  <2> QED
    BY <2>1, <2>2, <2>3, <2>6
<1>11. ASSUME NEW k \in (e + 1)..Len(q) PROVE D(k) \notin DOMAIN l
  <2>1. CASE k = e + 1
    <3>1. e < Len(q) /\ (e + 1) - 1 = e
      BY <1>2, <2>1
    <3> QED
      BY <1>8, <1>9, <2>1, <3>1
  <2>2. CASE k # e + 1
    <3>1. k - 1 \in (e + 1)..Len(q)
      BY <1>2, <2>2
    <3>2. D(k - 1) \notin d
      BY <1>10, <3>1
    <3>3. PICK n : n = Len(x) + (k - e)
      OBVIOUS
    <3>4. n \in 0..Len(c) /\ n - 1 \in 0..n /\ Len(x) + ((k - 1) - e) = n - 1
      BY <1>2, <1>6, <3>3
    <3>5. Cut(Cut(c, n), n - 1) = Cut(c, n - 1) /\ Len(Cut(c, n)) = n
      <4>1. PICK m : m = n - 1
        OBVIOUS
      <4>2. n \in 0..Len(c) /\ m \in 0..n
        BY <3>4, <4>1
      <4>3. CutsAgain(c, n, m)
        BY <1>5, <4>2, CutAgain
      <4> QED
        BY <4>1, <4>3 DEF CutsAgain
    <3>6. Cut(c, n) \in DOMAIN l => Cut(c, n - 1) \in d
      BY <1>1, <3>5
    <3> QED
      BY <3>2, <3>3, <3>4, <3>6
  <2> QED
    BY <2>1, <2>2
<1> DEFINE Now(k) == Lead(g, f, l, Cut(q, k))
           T == {k \in e..Len(q) : Now(k) # D(k)}
<1>12. Now(e) = x
  <2>1. Cut(q, e) \in Seq(Nm)
    BY CutIs
  <2>2. d \subseteq g /\ Disk!Missing \notin d /\ x # Disk!Missing /\ f \subseteq f
    BY <1>0, <1>1, <1>2, MissingIs
  <2> QED
    BY <2>1, <2>2, LeadStays
<1>13. \A k \in 1..Len(q) : Now(k) = Further(g, f, l, Now(k - 1), q[k])
  <2>1. LeadsAlong(g, f, l, q)
    BY LeadAlong
  <2> QED
    BY <2>1 DEF LeadsAlong
<1> HIDE DEF Now, D
<1>14. ASSUME T # {} PROVE FALSE
  <2>1. PICK k \in T : \A y \in T : k <= y
    <3>1. T \subseteq Nat
      BY <1>2
    <3> HIDE DEF T
    <3> QED
      BY <1>14, <3>1, LeastOf
  <2>2. k \in e..Len(q) /\ Now(k) # D(k) /\ k # e
    BY <1>8, <1>12, <2>1
  <2>3. k \in (e + 1)..Len(q) /\ k \in 1..Len(q) /\ k - 1 \in e..Len(q) /\ k - 1 \notin T
    BY <1>2, <2>1, <2>2
  <2>4. Now(k - 1) = D(k - 1)
    BY <2>3
  <2> HIDE DEF T
  <2>5. D(k - 1) \in g
    <3>1. CASE k - 1 = e
      BY <1>0, <1>8, <3>1
    <3>2. CASE k - 1 # e
      <4>1. k - 1 \in (e + 1)..Len(q)
        BY <1>2, <2>3, <3>2
      <4> QED
        BY <1>9, <4>1
    <3> QED
      BY <3>1, <3>2
  <2>6. Now(k) = Further(g, f, l, D(k - 1), q[k]) /\ Append(D(k - 1), q[k]) = D(k)
    BY <1>9, <1>13, <2>3, <2>4
  <2>7. D(k) \notin DOMAIN l /\ D(k) \in g
    BY <1>9, <1>11, <2>3
  <2> QED
    BY <2>2, <2>5, <2>6, <2>7 DEF Further
<1>15. Len(q) \in e..Len(q) /\ Cut(q, Len(q)) = q
  BY <1>2, WholeCut
<1>16. D(Len(q)) = c
  <2>1. Len(x) + (Len(q) - e) = Len(c)
    BY <1>6
  <2> QED
    BY <1>5, <2>1, WholeCut DEF D
<1>17. Lead(g, f, l, q) = c
  BY <1>14, <1>15, <1>16 DEF Now
<1> QED
  BY <1>7, <1>17

-----------------------------------------------------------------------------
(* The directory of the path.                                                *)
LEMMA ParentPathIs ==
    ASSUME PlaceInv
    PROVE  /\ Disk!ParentPath = Cut(fPath, Len(fPath) - 1) /\ Disk!ParentPath \in Seq(Nm)
           /\ Len(fPath) \in Nat \ {0} /\ fPath[Len(fPath)] \in Nm
<1>1. fPath \in Seq(Nm) /\ fPath # <<>>
  BY DEF PlaceInv
<1>2. Len(fPath) \in Nat /\ Len(fPath) # 0
  BY <1>1, EmptySeq
<1>3. Len(fPath) - 1 \in 0..Len(fPath) /\ Len(fPath) \in 1..Len(fPath)
  BY <1>2
<1>4. Cut(fPath, Len(fPath) - 1) \in Seq(Nm)
  BY <1>1, <1>3, CutIs
<1>5. fPath[Len(fPath)] \in Nm
  BY <1>1, <1>3, LenProperties
<1>6. Disk!ParentPath = Cut(fPath, Len(fPath) - 1)
  BY DEF Disk!ParentPath, Disk!Front, Cut
<1> QED
  BY <1>2, <1>4, <1>5, <1>6

(* Where the entry at the n-th name of q is.                                 *)
LEMMA PlaceIs ==
    ASSUME NEW q \in Seq(Nm), NEW n \in 1..Len(q)
    PROVE  /\ Disk!Front(Cut(q, n)) = Cut(q, n - 1) /\ Disk!Last(Cut(q, n)) = q[n]
           /\ Cut(q, n) \in Disk!Components(q)
<1>1. Len(q) \in Nat /\ n \in 0..Len(q) /\ n - 1 \in 0..n /\ n \in 1..n
  BY LenProperties
<1>2. PICK p : p = Cut(q, n)
  OBVIOUS
<1>3. Len(p) = n /\ p[n] = q[n]
  BY <1>1, <1>2, CutIs
<1>4. Cut(p, n - 1) = Cut(q, n - 1)
  BY <1>1, <1>2, CutOfCut
<1>5. Disk!Front(p) = Cut(p, n - 1) /\ Disk!Last(p) = q[n]
  BY <1>3 DEF Disk!Front, Disk!Last, Cut
<1>6. p # <<>>
  BY <1>3, EmptySeq
<1>7. p \in Disk!Prefixes(q)
  BY <1>1, <1>2 DEF Disk!Prefixes, Cut
<1> QED
  BY <1>2, <1>4, <1>5, <1>6, <1>7 DEF Disk!Components

(* The first k names of q lead to a directory; no longer beginning does.     *)
Reached(q, k) == k \in 0..Len(q) /\ Lead(fDirs, fFiles, fLinks, Cut(q, k)) \in fDirs
IsDeepest(q, e) == Reached(q, e) /\ \A k : Reached(q, k) => k <= e

(* The empty beginning leads to the root of the file system.                 *)
LEMMA DeepestExists ==
    ASSUME PlaceInv, NEW q \in Seq(Nm)
    PROVE  \E e : IsDeepest(q, e)
<1>1. Len(q) \in Nat
  BY LenProperties
<1>2. Reached(q, 0)
  <2>1. Lead(fDirs, fFiles, fLinks, Cut(q, 0)) = <<>>
    BY LeadIs
  <2>2. <<>> \in fDirs
    BY DEF PlaceInv, IsTree
  <2> QED
    BY <1>1, <2>1, <2>2 DEF Reached
<1> DEFINE T == {k \in Nat : Reached(q, Len(q) - k)}
<1>3. PICK k \in T : \A y \in T : k <= y
  <2>1. Len(q) - Len(q) = 0
    BY <1>1
  <2>2. Len(q) \in T /\ T \subseteq Nat
    BY <1>1, <1>2, <2>1
  <2> HIDE DEF T
  <2> QED
    BY <2>2, LeastOf
<1>4. Reached(q, Len(q) - k)
  BY <1>3
<1>5. ASSUME NEW j, Reached(q, j) PROVE j <= Len(q) - k
  <2>1. j \in 0..Len(q)
    BY <1>5 DEF Reached
  <2>2. Len(q) - j \in Nat /\ Len(q) - (Len(q) - j) = j
    BY <1>1, <2>1
  <2>3. Len(q) - j \in T
    BY <1>5, <2>2
  <2>4. k <= Len(q) - j /\ k \in Nat
    BY <1>3, <2>3
  <2> QED
    BY <1>1, <2>1, <2>4
<1> QED
  BY <1>4, <1>5 DEF IsDeepest

(* canonical_artifact_parent: the deepest directory, with nothing at the     *)
(* first name behind it.                                                     *)
LEMMA ParentIs ==
    ASSUME PlaceInv, NEW q, q = Disk!ParentPath, NEW c, c = Disk!CanonicalArtifactParent,
           c # Disk!Missing
    PROVE  \E e, x : IsDeepest(q, e) /\ IsLast(fDirs, fFiles, fLinks, q, e, x, c)
<1>1. q \in Seq(Nm) /\ Len(q) \in Nat
  BY ParentPathIs, LenProperties
<1>2. \A p : Disk!Canonicalize(p) = Lead(fDirs, fFiles, fLinks, p)
  BY CanonicalizeIs
<1>3. PICK e : IsDeepest(q, e)
  BY <1>1, DeepestExists
<1>4. Reached(q, e) /\ \A k : Reached(q, k) => k <= e
  BY <1>3 DEF IsDeepest
<1>5. e \in 0..Len(q) /\ Lead(fDirs, fFiles, fLinks, Cut(q, e)) \in fDirs
  BY <1>4 DEF Reached
<1> DEFINE reached == {p \in Disk!Prefixes(Disk!ParentPath) : Disk!Canonicalize(p) \in fDirs}
           existing == CHOOSE p \in reached : \A r \in reached : Len(r) <= Len(p)
           blocked == \E p \in Disk!Components(Disk!ParentPath) :
                         /\ Disk!Place(p) # Disk!Missing /\ Disk!EntryAt(Disk!Place(p))
                         /\ Disk!Canonicalize(p) \notin fDirs
<1>6. /\ ~blocked
      /\ c = Disk!Canonicalize(existing)
               \o SubSeq(Disk!ParentPath, Len(existing) + 1, Len(Disk!ParentPath))
  BY DEF Disk!CanonicalArtifactParent
<1>7. Disk!Prefixes(q) = {Cut(q, k) : k \in 0..Len(q)}
  BY DEF Disk!Prefixes, Cut
<1>8. \A p \in reached : \E k : Reached(q, k) /\ p = Cut(q, k)
  BY <1>2, <1>7 DEF Reached
<1>9. Cut(q, e) \in reached
  BY <1>2, <1>5, <1>7
<1>10. ASSUME NEW r \in reached PROVE Len(r) <= Len(Cut(q, e))
  <2>1. PICK k : Reached(q, k) /\ r = Cut(q, k)
    BY <1>8
  <2>2. k \in 0..Len(q) /\ k <= e
    BY <1>4, <2>1 DEF Reached
  <2>3. Len(r) = k
    BY <1>1, <2>1, <2>2, CutIs
  <2>4. Len(Cut(q, e)) = e
    BY <1>1, <1>5, CutIs
  <2> QED
    BY <2>2, <2>3, <2>4
<1>11. existing \in reached /\ \A r \in reached : Len(r) <= Len(existing)
  <2> HIDE DEF reached
  <2> QED
    BY <1>9, <1>10
<1>12. PICK k : Reached(q, k) /\ existing = Cut(q, k)
  BY <1>8, <1>11
<1>13. k = e
  <2>1. k \in 0..Len(q) /\ k <= e
    BY <1>4, <1>12 DEF Reached
  <2>2. Len(existing) = k
    <3> HIDE DEF existing
    <3> QED
      BY <1>1, <1>12, <2>1, CutIs
  <2>3. Len(Cut(q, e)) = e
    BY <1>1, <1>5, CutIs
  <2>4. e <= k
    <3> HIDE DEF existing, reached
    <3> QED
      BY <1>9, <1>11, <2>2, <2>3
  <2> QED
    BY <1>1, <1>5, <2>1, <2>4
<1>14. PICK x \in fDirs : x = Lead(fDirs, fFiles, fLinks, Cut(q, e))
  BY <1>5
<1>15. c = x \o SubSeq(q, e + 1, Len(q))
  <2>1. existing = Cut(q, e)
    BY <1>12, <1>13
  <2>2. Len(existing) = e
    <3> HIDE DEF existing
    <3> QED
      BY <1>1, <1>5, <2>1, CutIs
  <2>3. Disk!Canonicalize(existing) = x
    <3> HIDE DEF existing
    <3> QED
      BY <1>2, <1>14, <2>1
  <2> HIDE DEF existing
  <2> QED
    BY <1>6, <2>2, <2>3
<1>16. ASSUME e < Len(q) PROVE Append(x, q[e + 1]) \notin fDirs \cup DOMAIN fLinks
  <2>1. e + 1 \in 1..Len(q) /\ e + 1 \in 0..Len(q) /\ (e + 1) - 1 = e /\ ~(e + 1 <= e)
    BY <1>1, <1>5, <1>16
  <2>2. PICK p : p = Cut(q, e + 1)
    OBVIOUS
  <2>3. Disk!Front(p) = Cut(q, e) /\ Disk!Last(p) = q[e + 1] /\ p \in Disk!Components(q)
    BY <1>1, <2>1, <2>2, PlaceIs
  <2>4. Disk!Place(p) = Append(x, q[e + 1])
    BY <1>2, <1>14, <2>3 DEF Disk!Place
  <2>5. Append(x, q[e + 1]) # Disk!Missing
    <3>1. x \in Seq(Nm) /\ q[e + 1] \in Nm
      BY <1>1, <2>1, LenProperties, TreeIs DEF PlaceInv
    <3>2. Append(x, q[e + 1]) \in Seq(Nm)
      BY <3>1, AppendProperties
    <3> QED
      BY <3>2, MissingIs
  <2>6. Disk!Canonicalize(p) \notin fDirs
    BY <1>2, <1>4, <2>1, <2>2 DEF Reached
  <2>7. ~Disk!EntryAt(Disk!Place(p))
    BY <1>6, <2>3, <2>4, <2>5, <2>6
  <2> QED
    BY <2>4, <2>7 DEF Disk!EntryAt, Disk!Exists
<1> QED
  BY <1>3, <1>5, <1>14, <1>15, <1>16 DEF IsLast

-----------------------------------------------------------------------------
(* The directory a path lies in.                                             *)
Up(p) == Cut(p, Len(p) - 1)

(* A root is found, and x lies under it.                                     *)
UnderRoot(d, f, l, rs, x) ==
    \E r \in rs : Lead(d, f, l, r) # Disk!Missing /\ Disk!IsPrefix(Lead(d, f, l, r), x)

(* A read changes nothing, and what it reads was found under a root.         *)
ReadInv ==
    /\ fBytes \in Nat /\ fBytes <= MaxBytes
    /\ fOp = "read" => fPc \in {"check", "open", "reading", "returned"} /\ fWritten = {}
    /\ fPc \in {"open", "reading"} => fOp = "read"
    /\ fOp = "read" /\ (fPc \in {"open", "reading"} \/ fResult = "ok") =>
         \/ fRoots = {}
         \/ UnderRoot(fDirs, fFiles, fLinks, fRoots, Lead(fDirs, fFiles, fLinks, fPath))
    /\ fOp = "read" /\ fResult = "ok" => fPc = "returned" /\ fBytes = fLength

(* Once its directory is made, the destination has one; the temporary file   *)
(* is in it, under a root.                                                   *)
WriteInv ==
    /\ fPc # "returned" => fWritten = {}
    /\ fPc \in {"look", "recheck", "persist"} => Lead(fDirs, fFiles, fLinks, Up(fPath)) \in fDirs
    /\ fPc = "persist" => /\ fParent = Lead(fDirs, fFiles, fLinks, Up(fPath))
                          /\ UnderRoot(fDirs, fFiles, fLinks, fRoots, fParent)
    /\ \A w \in fWritten :
         /\ \E c \in w.under : c \in fDirs /\ Disk!IsPrefix(c, Disk!Front(w.at))
         /\ Disk!Front(w.at) = fParent
         /\ w.over => fOp = "cookies"

(* The inductive invariant of PolicyFiles.                                   *)
DiskInv ==
    /\ fOp \in {"read", "body", "cookies"} /\ PlaceInv /\ ReadInv /\ WriteInv

-----------------------------------------------------------------------------
(* The inductive invariant holds initially.                                  *)
LEMMA DiskInitInv == Disk!Init => DiskInv
<1> SUFFICES ASSUME Disk!Init PROVE DiskInv
  OBVIOUS
<1>1. PICK t \in Trees : fDirs = t.dirs /\ fFiles = t.files /\ fLinks = t.links
  BY DEF Disk!Init
<1>2. IsTree(fDirs, fFiles, fLinks)
  BY <1>1, TreesAssumption
<1>3. fPath \in Seq(Nm) /\ fPath # <<>>
  <2>1. PICK n \in 0..MaxDepth : fPath \in [1..n -> Names \cup {Disk!Unsafe}]
    BY DEF Disk!Init, Disk!Paths
  <2>2. n \in Nat
    BY <2>1
  <2> QED
    BY <2>1, <2>2 DEF Disk!Init, Nm
<1>4. fRoots \subseteq Seq(Nm)
  BY TreesAssumption DEF Disk!Init, Nm
<1>5. fBytes \in Nat /\ fBytes <= MaxBytes
  BY TreesAssumption DEF Disk!Init
<1> QED
  BY <1>2, <1>3, <1>4, <1>5 DEF Disk!Init, DiskInv, PlaceInv, ReadInv, WriteInv

(* canonical_read_path and read_file_limited leave the file system alone.    *)
LEMMA ReadSteps ==
    ASSUME DiskInv, Disk!Check \/ Disk!Open \/ Disk!Grow \/ Disk!ReadPiece
    PROVE  DiskInv'
<1>1. /\ fOp' = fOp /\ fRoots' = fRoots /\ fPath' = fPath /\ fDirs' = fDirs /\ fFiles' = fFiles
      /\ fLinks' = fLinks /\ fWritten' = fWritten /\ fParent' = fParent
  BY DEF Disk!Check, Disk!Open, Disk!Grow, Disk!ReadPiece, Disk!tree
<1>2. PlaceInv' /\ fOp' \in {"read", "body", "cookies"}
  BY <1>1 DEF DiskInv, PlaceInv
<1>3. CASE Disk!Check
  <2>1. fPc = "check" /\ fBytes' = fBytes /\ fLength' = fLength /\ fWritten = {}
    BY <1>3 DEF Disk!Check, DiskInv, WriteInv
  <2>2. CASE fPc' = "open" /\ fResult' = fResult /\ fOp = "read" /\ Disk!ReadAllowed
    <3>1. fRoots = {} \/ UnderRoot(fDirs, fFiles, fLinks, fRoots, Lead(fDirs, fFiles, fLinks, fPath))
      BY <2>2, CanonicalizeIs DEF Disk!ReadAllowed, UnderRoot
    <3>2. ReadInv'
      BY <1>1, <2>1, <2>2, <3>1 DEF DiskInv, ReadInv
    <3>3. WriteInv'
      BY <1>1, <2>1, <2>2 DEF WriteInv
    <3> QED
      BY <1>2, <3>2, <3>3 DEF DiskInv
  <2>3. CASE fPc' = "mkdir" /\ fResult' = fResult /\ fOp # "read"
    <3>2. ReadInv'
      BY <1>1, <2>1, <2>3 DEF DiskInv, ReadInv
    <3>3. WriteInv'
      BY <1>1, <2>1, <2>3 DEF WriteInv
    <3> QED
      BY <1>2, <3>2, <3>3 DEF DiskInv
  <2>4. CASE fPc' = "returned" /\ fResult' = "denied"
    <3>2. ReadInv'
      BY <1>1, <2>1, <2>4 DEF DiskInv, ReadInv
    <3>3. WriteInv'
      BY <1>1, <2>1, <2>4 DEF WriteInv
    <3> QED
      BY <1>2, <3>2, <3>3 DEF DiskInv
  <2> QED
    BY <1>3, <2>2, <2>3, <2>4 DEF Disk!Check, Disk!GoTo, Disk!Return
<1>4. CASE Disk!Open \/ Disk!Grow \/ Disk!ReadPiece
  <2>1. fPc \in {"open", "reading"} /\ fOp = "read" /\ fWritten = {} /\ fBytes \in Nat
    BY <1>4 DEF Disk!Open, Disk!Grow, Disk!ReadPiece, DiskInv, ReadInv, WriteInv
  <2>2. /\ fPc' \in {"open", "reading", "returned"} /\ fBytes' \in Nat
        /\ fBytes' <= MaxBytes
        /\ fResult' = "ok" => fPc' = "returned" /\ fBytes' = fLength'
    <3>1. fBytes <= MaxBytes /\ fResult # "ok" /\ MaxBytes \in Nat
      BY <2>1, TreesAssumption DEF DiskInv, ReadInv
    <3>2. CASE Disk!Open
      BY <2>1, <3>1, <3>2 DEF Disk!Open, Disk!GoTo, Disk!Return
    <3>3. CASE Disk!Grow
      BY <2>1, <3>1, <3>3 DEF Disk!Grow
    <3>4. CASE Disk!ReadPiece
      <4>1. /\ fLength' = fLength /\ fPc' \in {"reading", "returned"}
            /\ fResult' = "ok" => fPc' = "returned" /\ fBytes = fLength /\ fBytes' = fBytes
        BY <3>1, <3>4 DEF Disk!ReadPiece, Disk!GoTo, Disk!Return
      <4>2. fBytes' \in Nat /\ fBytes' <= MaxBytes
        BY <2>1, <3>1, <3>4 DEF Disk!ReadPiece
      <4> QED
        BY <4>1, <4>2
    <3> QED
      BY <1>4, <3>2, <3>3, <3>4
  <2>3. fRoots = {} \/ UnderRoot(fDirs, fFiles, fLinks, fRoots, Lead(fDirs, fFiles, fLinks, fPath))
    BY <2>1 DEF DiskInv, ReadInv
  <2>4. ReadInv'
    BY <1>1, <2>1, <2>2, <2>3 DEF ReadInv
  <2>5. WriteInv'
    BY <1>1, <2>1, <2>2 DEF WriteInv
  <2> QED
    BY <1>2, <2>4, <2>5 DEF DiskInv
<1> QED
  BY <1>3, <1>4

(* Roots stay where they are when directories and files are added.           *)
LEMMA UnderStays ==
    ASSUME NEW d, NEW f, NEW l, IsTree(d, f, l), NEW e, NEW g, d \subseteq e, f \subseteq g,
           NEW rs, rs \subseteq Seq(Nm), NEW x, UnderRoot(d, f, l, rs, x)
    PROVE  UnderRoot(e, g, l, rs, x)
<1>1. PICK r \in rs : Lead(d, f, l, r) # Disk!Missing /\ Disk!IsPrefix(Lead(d, f, l, r), x)
  BY DEF UnderRoot
<1>2. Disk!Missing \notin d /\ r \in Seq(Nm)
  BY MissingIs, TreeIs
<1>3. Lead(e, g, l, r) = Lead(d, f, l, r)
  BY <1>1, <1>2, LeadStays
<1> QED
  BY <1>1, <1>3 DEF UnderRoot

(* A root above a directory is a directory.                                  *)
LEMMA RootIsDirectory ==
    ASSUME NEW d, NEW f, NEW l, IsTree(d, f, l), NEW r \in Seq(Nm), NEW x \in d,
           Lead(d, f, l, r) # Disk!Missing, Disk!IsPrefix(Lead(d, f, l, r), x)
    PROVE  Lead(d, f, l, r) \in d
<1>1. /\ <<>> \in d /\ d \subseteq Seq(Nm) /\ f \subseteq Seq(Nm) /\ DOMAIN l \subseteq Seq(Nm)
      /\ \A p \in d : \A k \in 0..Len(p) : Cut(p, k) \in d
  BY TreeIs
<1>2. Len(r) \in Nat /\ Cut(r, Len(r)) = r
  BY LenProperties, WholeCut
<1>3. PICK c : c = Lead(d, f, l, r)
  OBVIOUS
<1>4. c \in Seq(Nm)
  <2>1. /\ Lead(d, f, l, Cut(r, 0)) = <<>>
        /\ \A k \in 1..Len(r) :
              Lead(d, f, l, Cut(r, k)) = Further(d, f, l, Lead(d, f, l, Cut(r, k - 1)), r[k])
    BY LeadIs
  <2>2. CASE Len(r) = 0
    BY <1>1, <1>2, <1>3, <2>1, <2>2
  <2>3. CASE Len(r) # 0
    <3>1. Len(r) \in 1..Len(r)
      BY <1>2, <2>3
    <3>2. PICK y : y = Lead(d, f, l, Cut(r, Len(r) - 1))
      OBVIOUS
    <3>3. c = Further(d, f, l, y, r[Len(r)])
      BY <1>2, <1>3, <2>1, <3>1, <3>2
    <3> QED
      BY <1>1, <1>3, <3>3 DEF Further
  <2> QED
    BY <2>2, <2>3
<1>5. Len(c) \in Nat /\ Len(x) \in Nat /\ x \in Seq(Nm)
  BY <1>1, <1>4, LenProperties
<1>6. Len(c) <= Len(x) /\ Cut(c, Len(c)) = Cut(x, Len(c))
  BY <1>3 DEF Disk!IsPrefix, Cut
<1>7. Cut(c, Len(c)) = c /\ Len(c) \in 0..Len(x)
  BY <1>4, <1>5, <1>6, WholeCut
<1> QED
  BY <1>1, <1>3, <1>6, <1>7

(* create_dir_all makes the way to the canonical parent.                     *)
LEMMA MakeDirsStep ==
    ASSUME DiskInv, Disk!MakeDirs
    PROVE  DiskInv'
<1>1. /\ fPc = "mkdir" /\ fOp' = fOp /\ fRoots' = fRoots /\ fPath' = fPath /\ fFiles' = fFiles
      /\ fLinks' = fLinks /\ fWritten' = fWritten /\ fParent' = fParent /\ fBytes' = fBytes
      /\ fLength' = fLength
  BY DEF Disk!MakeDirs
<1>2. fOp # "read" /\ fOp' \in {"read", "body", "cookies"} /\ fWritten = {} /\ PlaceInv
      /\ fBytes \in Nat /\ fBytes <= MaxBytes
  BY <1>1 DEF DiskInv, ReadInv, WriteInv
<1>3. IsTree(fDirs, fFiles, fLinks) /\ fPath \in Seq(Nm) /\ fPath # <<>> /\ fRoots \subseteq Seq(Nm)
  BY <1>2 DEF PlaceInv
<1>4. CASE fDirs' = fDirs /\ fPc' = "returned"
  <2>1. PlaceInv'
    BY <1>1, <1>3, <1>4 DEF PlaceInv
  <2>2. ReadInv'
    BY <1>1, <1>2, <1>4 DEF ReadInv
  <2>3. WriteInv'
    BY <1>1, <1>2, <1>4 DEF WriteInv
  <2> QED
    BY <1>2, <2>1, <2>2, <2>3 DEF DiskInv
<1>5. CASE /\ Disk!CanonicalArtifactParent # Disk!Missing /\ fPc' = "look"
           /\ fDirs' = fDirs \cup Disk!Prefixes(Disk!CanonicalArtifactParent)
  <2>1. PICK q : q = Disk!ParentPath
    OBVIOUS
  <2>2. PICK c : c = Disk!CanonicalArtifactParent
    OBVIOUS
  <2>3. PICK e, x : IsDeepest(q, e) /\ IsLast(fDirs, fFiles, fLinks, q, e, x, c)
    BY <1>2, <1>5, <2>1, <2>2, ParentIs
  <2>4. q \in Seq(Nm) /\ q = Up(fPath)
    BY <1>2, <2>1, ParentPathIs DEF Up
  <2>5. PICK g : g = WayTo(fDirs, c)
    OBVIOUS
  <2>6. fDirs' = g
    BY <1>5, <2>2, <2>5 DEF WayTo, Disk!Prefixes, Cut
  <2>7. IsTree(g, fFiles, fLinks) /\ Lead(g, fFiles, fLinks, q) = c /\ c \in g
    BY <1>3, <2>3, <2>4, <2>5, MadeLeads
  <2>8. PlaceInv'
    BY <1>1, <1>3, <2>6, <2>7 DEF PlaceInv
  <2>9. ReadInv'
    BY <1>1, <1>2, <1>5 DEF ReadInv
  <2>10. WriteInv'
    BY <1>1, <1>2, <1>5, <2>4, <2>6, <2>7 DEF WriteInv
  <2> QED
    BY <1>2, <2>8, <2>9, <2>10 DEF DiskInv
<1> QED
  BY <1>4, <1>5 DEF Disk!MakeDirs, Disk!GoTo, Disk!Return

(* The look at the destination changes nothing.                              *)
LEMMA LookStep ==
    ASSUME DiskInv, Disk!Look
    PROVE  DiskInv'
<1>1. /\ fPc = "look" /\ fOp' = fOp /\ fRoots' = fRoots /\ fPath' = fPath /\ fFiles' = fFiles
      /\ fLinks' = fLinks /\ fWritten' = fWritten /\ fParent' = fParent /\ fBytes' = fBytes
      /\ fLength' = fLength /\ fDirs' = fDirs /\ fPc' \in {"recheck", "returned"}
  BY DEF Disk!Look, Disk!tree, Disk!GoTo, Disk!Return
<1>2. fOp # "read" /\ fOp' \in {"read", "body", "cookies"} /\ fWritten = {} /\ PlaceInv
      /\ fBytes \in Nat /\ fBytes <= MaxBytes /\ Lead(fDirs, fFiles, fLinks, Up(fPath)) \in fDirs
  BY <1>1 DEF DiskInv, ReadInv, WriteInv
<1>3. PlaceInv'
  BY <1>1, <1>2 DEF PlaceInv
<1>4. ReadInv'
  BY <1>1, <1>2 DEF ReadInv
<1>5. WriteInv'
  BY <1>1, <1>2 DEF WriteInv
<1> QED
  BY <1>2, <1>3, <1>4, <1>5 DEF DiskInv

(* The second check finds the directory the path leads to.                   *)
LEMMA RecheckStep ==
    ASSUME DiskInv, Disk!Recheck
    PROVE  DiskInv'
<1>1. /\ fPc = "recheck" /\ fOp' = fOp /\ fRoots' = fRoots /\ fPath' = fPath /\ fFiles' = fFiles
      /\ fLinks' = fLinks /\ fWritten' = fWritten /\ fBytes' = fBytes
      /\ fLength' = fLength /\ fDirs' = fDirs /\ fPc' \in {"persist", "returned"}
      /\ fPc' = "persist" => Disk!CheckArtifact /\ fParent' = Disk!CanonicalArtifactParent
  BY DEF Disk!Recheck, Disk!tree, Disk!GoTo, Disk!Return
<1>2. fOp # "read" /\ fOp' \in {"read", "body", "cookies"} /\ fWritten = {} /\ PlaceInv
      /\ fBytes \in Nat /\ fBytes <= MaxBytes /\ Lead(fDirs, fFiles, fLinks, Up(fPath)) \in fDirs
  BY <1>1 DEF DiskInv, ReadInv, WriteInv
<1>3. PlaceInv'
  BY <1>1, <1>2 DEF PlaceInv
<1>4. ReadInv'
  BY <1>1, <1>2 DEF ReadInv
<1>5. ASSUME fPc' = "persist"
      PROVE  /\ fParent' = Lead(fDirs, fFiles, fLinks, Up(fPath))
             /\ UnderRoot(fDirs, fFiles, fLinks, fRoots, fParent')
  <2>1. PICK q : q = Disk!ParentPath
    OBVIOUS
  <2>2. PICK c : c = Disk!CanonicalArtifactParent
    OBVIOUS
  <2>3. c # Disk!Missing /\ fParent' = c /\ Disk!Confined
    BY <1>1, <1>5, <2>2 DEF Disk!CheckArtifact
  <2>4. PICK e, x : IsDeepest(q, e) /\ IsLast(fDirs, fFiles, fLinks, q, e, x, c)
    BY <1>2, <2>1, <2>2, <2>3, ParentIs
  <2>0. /\ e \in 0..Len(q) /\ x \in fDirs /\ x = Lead(fDirs, fFiles, fLinks, Cut(q, e))
        /\ c = x \o SubSeq(q, e + 1, Len(q))
    BY <2>4 DEF IsLast
  <2>5. q \in Seq(Nm) /\ q = Up(fPath) /\ Len(q) \in Nat /\ Cut(q, Len(q)) = q
    BY <1>2, <2>1, ParentPathIs, LenProperties, WholeCut DEF Up
  <2>6. Reached(q, Len(q))
    BY <1>2, <2>5 DEF Reached
  <2>7. e = Len(q)
    BY <2>0, <2>4, <2>5, <2>6 DEF IsDeepest
  <2>8. x \in Seq(Nm) /\ SubSeq(q, e + 1, Len(q)) = <<>>
    <3>1. IsTree(fDirs, fFiles, fLinks)
      BY <1>2 DEF PlaceInv
    <3>2. x \in Seq(Nm)
      BY <2>0, <3>1, TreeIs
    <3>3. Len(q) < e + 1 /\ e + 1 \in Int /\ Len(q) \in Int
      BY <2>5, <2>7
    <3> QED
      BY <3>2, <3>3, SubSeqEmpty
  <2>9. c = x /\ x = Lead(fDirs, fFiles, fLinks, Up(fPath))
    BY <2>0, <2>5, <2>7, <2>8, ConcatEmptySeq
  <2>10. UnderRoot(fDirs, fFiles, fLinks, fRoots, c)
    BY <2>2, <2>3, CanonicalizeIs DEF Disk!Confined, UnderRoot
  <2> QED
    BY <2>3, <2>9, <2>10
<1>6. WriteInv'
  BY <1>1, <1>2, <1>5 DEF WriteInv
<1> QED
  BY <1>2, <1>3, <1>4, <1>6 DEF DiskInv

(* persist and persist_noclobber put the file where the temporary one is.    *)
LEMMA PersistStep ==
    ASSUME DiskInv, Disk!Persist
    PROVE  DiskInv'
<1>1. /\ fPc = "persist" /\ fPc' = "returned" /\ fOp' = fOp /\ fRoots' = fRoots /\ fPath' = fPath
      /\ fParent' = fParent /\ fBytes' = fBytes /\ fLength' = fLength /\ fDirs' = fDirs
  BY DEF Disk!Persist, Disk!Return
<1>2. fOp \in {"body", "cookies"} /\ fWritten = {} /\ PlaceInv
      /\ fBytes \in Nat /\ fBytes <= MaxBytes /\ Lead(fDirs, fFiles, fLinks, Up(fPath)) \in fDirs
      /\ fParent = Lead(fDirs, fFiles, fLinks, Up(fPath))
      /\ UnderRoot(fDirs, fFiles, fLinks, fRoots, fParent)
  BY <1>1 DEF DiskInv, ReadInv, WriteInv
<1>3. IsTree(fDirs, fFiles, fLinks) /\ fPath \in Seq(Nm) /\ fPath # <<>> /\ fRoots \subseteq Seq(Nm)
  BY <1>2 DEF PlaceInv
<1>4. ReadInv'
  BY <1>1, <1>2 DEF ReadInv
<1>5. CASE fFiles' = fFiles /\ fLinks' = fLinks /\ fWritten' = fWritten
  <2>1. PlaceInv'
    BY <1>1, <1>3, <1>5 DEF PlaceInv
  <2>2. WriteInv'
    BY <1>1, <1>2, <1>5 DEF WriteInv
  <2> QED
    BY <1>1, <1>2, <1>4, <2>1, <2>2 DEF DiskInv
<1>6. CASE \E place :
             /\ place = Disk!Place(fPath) /\ ~(fOp = "body" /\ Disk!EntryAt(place))
             /\ fFiles' = fFiles \cup {place}
             /\ fLinks' = [p \in DOMAIN fLinks \ {place} |-> fLinks[p]]
             /\ fWritten' = {[at |-> place, over |-> Disk!EntryAt(place),
                              under |-> {Disk!Canonicalize(r) : r \in fRoots}]}
  <2>1. PICK place :
             /\ place = Disk!Place(fPath) /\ ~(fOp = "body" /\ Disk!EntryAt(place))
             /\ fFiles' = fFiles \cup {place}
             /\ fLinks' = [p \in DOMAIN fLinks \ {place} |-> fLinks[p]]
             /\ fWritten' = {[at |-> place, over |-> Disk!EntryAt(place),
                              under |-> {Disk!Canonicalize(r) : r \in fRoots}]}
    BY <1>6
  <2>2. /\ Disk!Front(fPath) = Up(fPath) /\ fPath[Len(fPath)] \in Nm
    BY <1>2, ParentPathIs DEF Disk!ParentPath, Up
  <2>3. place = Append(fParent, fPath[Len(fPath)])
    BY <1>2, <2>1, <2>2, CanonicalizeIs DEF Disk!Place, Disk!Last
  <2>4. fParent \in Seq(Nm) /\ Len(fParent) \in Nat
    BY <1>2, <1>3, TreeIs, LenProperties
  <2>5. place \in Seq(Nm) /\ Disk!Front(place) = fParent
    <3>1. place \in Seq(Nm) /\ Len(place) = Len(fParent) + 1
      BY <2>2, <2>3, <2>4, AppendProperties
    <3>2. Len(place) - 1 = Len(fParent) /\ Len(fParent) \in 0..Len(fParent)
      BY <2>4, <3>1
    <3>3. Cut(place, Len(fParent)) = Cut(fParent, Len(fParent))
      BY <2>2, <2>3, <2>4, <3>2, CutOfAppend
    <3>4. Cut(fParent, Len(fParent)) = fParent
      BY <2>4, WholeCut
    <3> QED
      BY <3>1, <3>2, <3>3, <3>4 DEF Disk!Front, Cut
  <2>6. IsTree(fDirs, fFiles', fLinks')
    <3>1. DOMAIN fLinks' \subseteq DOMAIN fLinks
      BY <2>1
    <3>2. /\ <<>> \in fDirs /\ fDirs \subseteq Seq(Nm) /\ fFiles \subseteq Seq(Nm)
          /\ DOMAIN fLinks \subseteq Seq(Nm)
          /\ \A p \in fDirs : \A k \in 0..Len(p) : Cut(p, k) \in fDirs
          /\ \A p \in DOMAIN fLinks : p # <<>> /\ Cut(p, Len(p) - 1) \in fDirs
      BY <1>3, TreeIs
    <3>3. fFiles' \subseteq Seq(Nm)
      BY <2>1, <2>5, <3>2
    <3> QED
      BY <3>1, <3>2, <3>3, TreeIs
  <2>7. PlaceInv'
    BY <1>1, <1>3, <2>6 DEF PlaceInv
  <2>8. PICK r \in fRoots : /\ Lead(fDirs, fFiles, fLinks, r) # Disk!Missing
                            /\ Disk!IsPrefix(Lead(fDirs, fFiles, fLinks, r), fParent)
    BY <1>2 DEF UnderRoot
  <2>9. PICK c : c = Lead(fDirs, fFiles, fLinks, r)
    OBVIOUS
  <2>10. c \in fDirs /\ Disk!IsPrefix(c, fParent)
    BY <1>2, <1>3, <2>8, <2>9, RootIsDirectory
  <2>11. c \in {Disk!Canonicalize(s) : s \in fRoots}
    BY <2>8, <2>9, CanonicalizeIs
  <2>12. ASSUME NEW w \in fWritten'
         PROVE  /\ \E x \in w.under : x \in fDirs /\ Disk!IsPrefix(x, Disk!Front(w.at))
                /\ Disk!Front(w.at) = fParent
                /\ w.over => fOp = "cookies"
    <3>1. /\ w.at = place /\ w.over = Disk!EntryAt(place)
          /\ w.under = {Disk!Canonicalize(s) : s \in fRoots}
      BY <2>1
    <3> QED
      BY <1>2, <2>1, <2>5, <2>10, <2>11, <3>1
  <2>13. WriteInv'
    BY <1>1, <2>12 DEF WriteInv
  <2> QED
    BY <1>1, <1>2, <1>4, <2>7, <2>13 DEF DiskInv
<1> QED
  BY <1>5, <1>6 DEF Disk!Persist, Disk!Return

(* What another document makes is in nobody's way.                           *)
LEMMA OtherStep ==
    ASSUME DiskInv, Disk!OtherMakes
    PROVE  DiskInv'
<1>1. /\ fPc' = fPc /\ fOp' = fOp /\ fRoots' = fRoots /\ fPath' = fPath /\ fLinks' = fLinks
      /\ fParent' = fParent /\ fBytes' = fBytes /\ fLength' = fLength /\ fWritten' = fWritten
      /\ fResult' = fResult /\ fPc # "returned" /\ fOp # "read"
  BY DEF Disk!OtherMakes
<1>2. fOp \in {"read", "body", "cookies"} /\ fWritten = {} /\ PlaceInv /\ ReadInv /\ WriteInv
  BY <1>1 DEF DiskInv, WriteInv
<1>3. IsTree(fDirs, fFiles, fLinks) /\ fPath \in Seq(Nm) /\ fPath # <<>> /\ fRoots \subseteq Seq(Nm)
  BY <1>2 DEF PlaceInv
<1>4. /\ <<>> \in fDirs /\ fDirs \subseteq Seq(Nm) /\ fFiles \subseteq Seq(Nm)
      /\ DOMAIN fLinks \subseteq Seq(Nm)
      /\ \A p \in fDirs : \A k \in 0..Len(p) : Cut(p, k) \in fDirs
      /\ \A p \in DOMAIN fLinks : p # <<>> /\ Cut(p, Len(p) - 1) \in fDirs
  BY <1>3, TreeIs
<1>5. PICK d \in fDirs, n \in Names :
         \/ fDirs' = fDirs \cup {Append(d, n)} /\ fFiles' = fFiles
         \/ fFiles' = fFiles \cup {Append(d, n)} /\ fDirs' = fDirs
  BY DEF Disk!OtherMakes
<1>6. PICK p : p = Append(d, n)
  OBVIOUS
<1>7. d \in Seq(Nm) /\ n \in Nm /\ Len(d) \in Nat
  BY <1>4, LenProperties DEF Nm
<1>8. p \in Seq(Nm) /\ Len(p) = Len(d) + 1
  BY <1>6, <1>7, AppendProperties
<1>9. IsTree(fDirs', fFiles', fLinks)
  <2>1. CASE fDirs' = fDirs \cup {p} /\ fFiles' = fFiles
    <3>1. ASSUME NEW k \in 0..Len(p) PROVE Cut(p, k) \in fDirs \cup {p}
      <4>1. CASE k = Len(p)
        BY <1>8, <4>1, WholeCut
      <4>2. CASE k # Len(p)
        <5>1. k \in 0..Len(d)
          BY <1>7, <1>8, <4>2
        <5>2. Cut(p, k) = Cut(d, k)
          BY <1>6, <1>7, <5>1, CutOfAppend
        <5> QED
          BY <1>4, <5>1, <5>2
      <4> QED
        BY <4>1, <4>2
    <3>2. PICK e : e = fDirs \cup {p}
      OBVIOUS
    <3>3. /\ <<>> \in e /\ e \subseteq Seq(Nm)
          /\ \A s \in e : \A k \in 0..Len(s) : Cut(s, k) \in e
          /\ \A s \in DOMAIN fLinks : s # <<>> /\ Cut(s, Len(s) - 1) \in e
      BY <1>4, <1>8, <3>1, <3>2
    <3>4. IsTree(e, fFiles, fLinks)
      BY <1>4, <3>3, TreeIs
    <3> QED
      BY <2>1, <3>2, <3>4
  <2>2. CASE fFiles' = fFiles \cup {p} /\ fDirs' = fDirs
    <3>1. PICK g : g = fFiles \cup {p}
      OBVIOUS
    <3>2. g \subseteq Seq(Nm)
      BY <1>4, <1>8, <3>1
    <3>3. IsTree(fDirs, g, fLinks)
      BY <1>4, <3>2, TreeIs
    <3> QED
      BY <2>2, <3>1, <3>3
  <2> QED
    BY <1>5, <1>6, <2>1, <2>2
<1>10. fDirs \subseteq fDirs' /\ fFiles \subseteq fFiles'
  BY <1>5
<1>11. PlaceInv'
  BY <1>1, <1>3, <1>9 DEF PlaceInv
<1>12. ReadInv'
  BY <1>1, <1>2 DEF ReadInv
<1>13. ASSUME fPc \in {"look", "recheck", "persist"}
       PROVE  /\ Lead(fDirs', fFiles', fLinks, Up(fPath)) = Lead(fDirs, fFiles, fLinks, Up(fPath))
              /\ Lead(fDirs, fFiles, fLinks, Up(fPath)) \in fDirs'
  <2>1. Lead(fDirs, fFiles, fLinks, Up(fPath)) \in fDirs
    BY <1>2, <1>13 DEF WriteInv
  <2>2. Up(fPath) \in Seq(Nm)
    BY <1>2, ParentPathIs DEF Up
  <2>3. Disk!Missing \notin fDirs
    BY <1>4, MissingIs
  <2>4. Lead(fDirs, fFiles, fLinks, Up(fPath)) # Disk!Missing
    BY <2>1, <2>3
  <2> QED
    BY <1>10, <2>1, <2>2, <2>3, <2>4, LeadStays
<1>14. ASSUME fPc = "persist" PROVE UnderRoot(fDirs', fFiles', fLinks, fRoots, fParent)
  <2>1. UnderRoot(fDirs, fFiles, fLinks, fRoots, fParent)
    BY <1>2, <1>14 DEF WriteInv
  <2> QED
    BY <1>3, <1>10, <2>1, UnderStays
<1>15. WriteInv'
  BY <1>1, <1>2, <1>13, <1>14 DEF WriteInv
<1> QED
  BY <1>1, <1>2, <1>11, <1>12, <1>15 DEF DiskInv

(* Every step keeps the invariant.                                           *)
LEMMA DiskNextInv == DiskInv /\ [Disk!Next]_Disk!vars => DiskInv'
<1> SUFFICES ASSUME DiskInv, [Disk!Next]_Disk!vars PROVE DiskInv'
  OBVIOUS
<1>1. CASE UNCHANGED Disk!vars
  BY <1>1 DEF Disk!vars, Disk!tree, DiskInv, PlaceInv, ReadInv, WriteInv
<1> QED
  BY <1>1, ReadSteps, MakeDirsStep, LookStep, RecheckStep, PersistStep, OtherStep
     DEF Disk!Next, Disk!Done

(* FilesConfined: whatever links the file system holds, whatever roots the   *)
(* policy has and whatever another document makes between two steps, what    *)
(* promote_to_artifact and write_cookie_artifact write is in the directory   *)
(* of the temporary file and under where a root is, a body takes nobody's    *)
(* place, and what read_file_limited returns is complete and under a root.   *)
THEOREM FilesCorrect == Disk!Spec => []FilesConfined
<1>1. DiskInv => FilesConfined
  <2> SUFFICES ASSUME DiskInv PROVE FilesConfined
    OBVIOUS
  <2>1. ASSUME NEW w \in fWritten
        PROVE  /\ \E c \in w.under : c \in fDirs /\ Disk!IsPrefix(c, Disk!Front(w.at))
               /\ Disk!Front(w.at) = fParent
               /\ w.over => fOp = "cookies"
    BY DEF DiskInv, WriteInv
  <2>2. ASSUME fOp = "read", fResult = "ok"
        PROVE  /\ fBytes = fLength /\ fBytes <= MaxBytes
               /\ \/ fRoots = {}
                  \/ \E r \in fRoots : Disk!IsPrefix(Disk!Canonicalize(r), Disk!Canonicalize(fPath))
    BY <2>2, CanonicalizeIs DEF DiskInv, ReadInv, UnderRoot
  <2> QED
    BY <2>1, <2>2 DEF FilesConfined, Disk!FilesConfined
<1> QED
  BY <1>1, DiskInitInv, DiskNextInv, PTL DEF Disk!Spec

-----------------------------------------------------------------------------
(* f[i] is the sum of the first i values, up to the n-th.                    *)
IsTotaling(v, n, f) == f = [i \in 0..n |-> IF i = 0 THEN 0 ELSE f[i - 1] + v[i]]

(* The sum of the first n values.                                            *)
UpTo(v, n) == (CHOOSE f : IsTotaling(v, n, f))[n]

(* There are such sums.                                                      *)
LEMMA TotalingExists ==
    ASSUME NEW v, NEW n \in Nat
    PROVE  \E f : IsTotaling(v, n, f)
<1> DEFINE T == {m \in Nat : ~\E f : IsTotaling(v, m, f)}
<1> SUFFICES ASSUME T # {} PROVE FALSE
  OBVIOUS
<1>1. PICK m \in T : \A y \in T : m <= y
  <2>1. T \subseteq Nat
    OBVIOUS
  <2> HIDE DEF T
  <2> QED
    BY <2>1, LeastOf
<1>2. CASE m = 0
  <2> DEFINE f == [i \in 0..0 |-> 0]
  <2>1. IsTotaling(v, 0, f)
    BY DEF IsTotaling
  <2> QED
    BY <1>1, <1>2, <2>1
<1>3. CASE m # 0
  <2>1. m - 1 \in Nat /\ m - 1 \notin T
    BY <1>1, <1>3
  <2>2. PICK g : IsTotaling(v, m - 1, g)
    BY <2>1
  <2> DEFINE f == [i \in 0..m |-> IF i = m THEN g[m - 1] + v[m] ELSE g[i]]
  <2>3. \A i \in 0..(m - 1) : g[i] = IF i = 0 THEN 0 ELSE g[i - 1] + v[i]
    BY <2>2 DEF IsTotaling
  <2>4. ASSUME NEW i \in 0..m
        PROVE  f[i] = IF i = 0 THEN 0 ELSE f[i - 1] + v[i]
    BY <1>3, <2>3
  <2>5. IsTotaling(v, m, f)
    BY <2>4 DEF IsTotaling
  <2> QED
    BY <1>1, <2>5
<1> QED
  BY <1>2, <1>3

(* The sums of the beginnings agree.                                         *)
LEMMA TotalingIs ==
    ASSUME NEW v, NEW n \in Nat, NEW f, IsTotaling(v, n, f), NEW k \in 0..n
    PROVE  UpTo(v, k) = f[k]
<1>1. PICK g : g = (CHOOSE h : IsTotaling(v, k, h))
  OBVIOUS
<1>2. IsTotaling(v, k, g) /\ UpTo(v, k) = g[k]
  BY <1>1, TotalingExists DEF UpTo
<1>3. \A i \in 0..k : g[i] = IF i = 0 THEN 0 ELSE g[i - 1] + v[i]
  BY <1>2 DEF IsTotaling
<1>4. \A i \in 0..n : f[i] = IF i = 0 THEN 0 ELSE f[i - 1] + v[i]
  BY DEF IsTotaling
<1> DEFINE T == {i \in 0..k : g[i] # f[i]}
<1>5. ASSUME T # {} PROVE FALSE
  <2>1. PICK i \in T : \A y \in T : i <= y
    <3>1. T \subseteq Nat
      OBVIOUS
    <3> HIDE DEF T
    <3> QED
      BY <1>5, <3>1, LeastOf
  <2>2. i \in 0..k /\ i \in 0..n /\ g[i] # f[i]
    BY <2>1
  <2>3. i # 0
    BY <1>3, <1>4, <2>2
  <2>4. i - 1 \in 0..k /\ i - 1 \notin T
    BY <2>1, <2>2, <2>3
  <2>5. g[i - 1] = f[i - 1]
    BY <2>4
  <2> QED
    BY <1>3, <1>4, <2>2, <2>3, <2>5
<1>6. k \in 0..k /\ k \notin T
  BY <1>5
<1> QED
  BY <1>2, <1>6

(* Sums, value by value.                                                     *)
LEMMA UpToIs ==
    ASSUME NEW v
    PROVE  UpTo(v, 0) = 0 /\ \A k \in Nat \ {0} : UpTo(v, k) = UpTo(v, k - 1) + v[k]
<1>1. ASSUME NEW n \in Nat, NEW k \in 0..n
      PROVE  UpTo(v, k) = IF k = 0 THEN 0 ELSE UpTo(v, k - 1) + v[k]
  <2>1. PICK f : IsTotaling(v, n, f)
    BY TotalingExists
  <2>2. \A i \in 0..n : f[i] = IF i = 0 THEN 0 ELSE f[i - 1] + v[i]
    BY <2>1 DEF IsTotaling
  <2>3. \A i \in 0..n : UpTo(v, i) = f[i]
    BY <2>1, TotalingIs
  <2>4. k # 0 => k - 1 \in 0..n
    OBVIOUS
  <2> QED
    BY <2>2, <2>3, <2>4
<1> QED
  BY <1>1

(* Iterator::sum.                                                            *)
LEMMA TotalIs ==
    ASSUME NEW v
    PROVE  Reports!Total(v) = UpTo(v, Len(v))
  BY DEF Reports!Total, UpTo, IsTotaling

(* Naturals add up to a natural.                                             *)
LEMMA UpToNat ==
    ASSUME NEW v, NEW n \in Nat, \A k \in 1..n : v[k] \in Nat
    PROVE  UpTo(v, n) \in Nat
<1> DEFINE T == {k \in 0..n : UpTo(v, k) \notin Nat}
<1>1. ASSUME T # {} PROVE FALSE
  <2>1. PICK k \in T : \A y \in T : k <= y
    <3>1. T \subseteq Nat
      OBVIOUS
    <3> HIDE DEF T
    <3> QED
      BY <1>1, <3>1, LeastOf
  <2>2. k \in 0..n /\ UpTo(v, k) \notin Nat
    BY <2>1
  <2>3. k # 0
    BY <2>2, UpToIs
  <2>4. k \in Nat \ {0} /\ k - 1 \in 0..n /\ k - 1 \notin T /\ k \in 1..n
    BY <2>1, <2>2, <2>3
  <2>5. UpTo(v, k - 1) \in Nat /\ v[k] \in Nat
    BY <2>4
  <2>6. UpTo(v, k) = UpTo(v, k - 1) + v[k]
    BY <2>4, UpToIs
  <2> QED
    BY <2>2, <2>5, <2>6
<1>2. n \in 0..n /\ n \notin T
  BY <1>1
<1> QED
  BY <1>2

(* Larger values have larger sums.                                           *)
LEMMA UpToLe ==
    ASSUME NEW v, NEW w, NEW n \in Nat,
           \A k \in 1..n : v[k] \in Nat /\ w[k] \in Nat /\ v[k] <= w[k]
    PROVE  UpTo(v, n) <= UpTo(w, n)
<1> DEFINE T == {k \in 0..n : ~(UpTo(v, k) <= UpTo(w, k))}
<1>1. ASSUME T # {} PROVE FALSE
  <2>1. PICK k \in T : \A y \in T : k <= y
    <3>1. T \subseteq Nat
      OBVIOUS
    <3> HIDE DEF T
    <3> QED
      BY <1>1, <3>1, LeastOf
  <2>2. k \in 0..n /\ ~(UpTo(v, k) <= UpTo(w, k))
    BY <2>1
  <2>3. k # 0
    BY <2>2, UpToIs
  <2>4. k \in Nat \ {0} /\ k - 1 \in 0..n /\ k - 1 \notin T /\ k \in 1..n /\ k - 1 \in Nat
    BY <2>1, <2>2, <2>3
  <2>5. UpTo(v, k - 1) <= UpTo(w, k - 1)
    BY <2>4
  <2>6. UpTo(v, k) = UpTo(v, k - 1) + v[k] /\ UpTo(w, k) = UpTo(w, k - 1) + w[k]
    BY <2>4, UpToIs
  <2>7. UpTo(v, k - 1) \in Nat /\ UpTo(w, k - 1) \in Nat
    <3>1. \A j \in 1..(k - 1) : v[j] \in Nat /\ w[j] \in Nat
      BY <2>4
    <3> QED
      BY <2>4, <3>1, UpToNat
  <2>8. v[k] \in Nat /\ w[k] \in Nat /\ v[k] <= w[k]
    BY <2>4
  <2> HIDE DEF T
  <2> QED
    BY <2>2, <2>5, <2>6, <2>7, <2>8
<1>2. n \in 0..n /\ n \notin T
  BY <1>1
<1> QED
  BY <1>2

(* Equal values have equal sums.                                             *)
LEMMA UpToEqual ==
    ASSUME NEW v, NEW w, NEW n \in Nat, \A k \in 1..n : v[k] = w[k]
    PROVE  UpTo(v, n) = UpTo(w, n)
<1> DEFINE T == {k \in 0..n : UpTo(v, k) # UpTo(w, k)}
<1>1. ASSUME T # {} PROVE FALSE
  <2>1. PICK k \in T : \A y \in T : k <= y
    <3>1. T \subseteq Nat
      OBVIOUS
    <3> HIDE DEF T
    <3> QED
      BY <1>1, <3>1, LeastOf
  <2>2. k \in 0..n /\ UpTo(v, k) # UpTo(w, k)
    BY <2>1
  <2>3. k # 0
    BY <2>2, UpToIs
  <2>4. k \in Nat \ {0} /\ k - 1 \in 0..n /\ k - 1 \notin T /\ k \in 1..n
    BY <2>1, <2>2, <2>3
  <2>5. UpTo(v, k - 1) = UpTo(w, k - 1)
    BY <2>4
  <2>6. UpTo(v, k) = UpTo(v, k - 1) + v[k] /\ UpTo(w, k) = UpTo(w, k - 1) + w[k]
    BY <2>4, UpToIs
  <2> QED
    BY <2>2, <2>4, <2>5, <2>6
<1>2. n \in 0..n /\ n \notin T
  BY <1>1
<1> QED
  BY <1>2

(* A sum is positive when a value is, and only then.                         *)
LEMMA UpToPositive ==
    ASSUME NEW v, NEW n \in Nat, \A k \in 1..n : v[k] \in Nat
    PROVE  UpTo(v, n) > 0 <=> \E k \in 1..n : v[k] > 0
<1> DEFINE T == {k \in 0..n : ~(UpTo(v, k) > 0 <=> \E j \in 1..k : v[j] > 0)}
<1>1. ASSUME T # {} PROVE FALSE
  <2>1. PICK k \in T : \A y \in T : k <= y
    <3>1. T \subseteq Nat
      OBVIOUS
    <3> HIDE DEF T
    <3> QED
      BY <1>1, <3>1, LeastOf
  <2>2. k \in 0..n /\ ~(UpTo(v, k) > 0 <=> \E j \in 1..k : v[j] > 0)
    BY <2>1
  <2>3. k # 0
    BY <2>2, UpToIs
  <2>4. k \in Nat \ {0} /\ k - 1 \in 0..n /\ k - 1 \notin T /\ k \in 1..n /\ k - 1 \in Nat
    BY <2>1, <2>2, <2>3
  <2>5. UpTo(v, k - 1) > 0 <=> \E j \in 1..(k - 1) : v[j] > 0
    BY <2>4
  <2>6. UpTo(v, k) = UpTo(v, k - 1) + v[k]
    BY <2>4, UpToIs
  <2>7. UpTo(v, k - 1) \in Nat
    <3>1. \A j \in 1..(k - 1) : v[j] \in Nat
      BY <2>4
    <3> QED
      BY <2>4, <3>1, UpToNat
  <2>8. v[k] \in Nat
    BY <2>4
  <2>9. (\E j \in 1..k : v[j] > 0) <=> (v[k] > 0 \/ \E j \in 1..(k - 1) : v[j] > 0)
    BY <2>4
  <2> HIDE DEF T
  <2> QED
    BY <2>2, <2>5, <2>6, <2>7, <2>8, <2>9
<1>2. n \in 0..n /\ n \notin T
  BY <1>1
<1> QED
  BY <1>2

-----------------------------------------------------------------------------
(* A raised flag counts for one.                                             *)
Ones(s) == [i \in DOMAIN s |-> IF s[i] THEN 1 ELSE 0]

(* Iterator::count.                                                          *)
LEMMA CountIs ==
    ASSUME NEW s \in Seq(BOOLEAN)
    PROVE  /\ Reports!Count(s) = UpTo(Ones(s), Len(s)) /\ Len(s) \in Nat
           /\ \A k \in 1..Len(s) : Ones(s)[k] = IF s[k] THEN 1 ELSE 0
           /\ \A k \in 1..Len(s) : Ones(s)[k] \in Nat
<1>1. Len(s) \in Nat /\ DOMAIN s = 1..Len(s)
  BY LenProperties
<1>2. PICK v : v = Ones(s)
  OBVIOUS
<1>3. v = [i \in 1..Len(s) |-> IF s[i] THEN 1 ELSE 0]
  BY <1>1, <1>2 DEF Ones
<1>4. Len(v) = Len(s) /\ \A k \in 1..Len(s) : v[k] = IF s[k] THEN 1 ELSE 0
  BY <1>1, <1>3
<1>5. Reports!Count(s) = UpTo(v, Len(v))
  BY <1>2, TotalIs DEF Reports!Count, Ones
<1> QED
  BY <1>1, <1>2, <1>4, <1>5

(* What a count says.                                                        *)
LEMMA CountPositive ==
    ASSUME NEW s \in Seq(BOOLEAN)
    PROVE  Reports!Count(s) \in Nat /\ (Reports!Count(s) > 0 <=> \E k \in 1..Len(s) : s[k])
<1>1. /\ Reports!Count(s) = UpTo(Ones(s), Len(s)) /\ Len(s) \in Nat
      /\ \A k \in 1..Len(s) : Ones(s)[k] = IF s[k] THEN 1 ELSE 0
      /\ \A k \in 1..Len(s) : Ones(s)[k] \in Nat
  BY CountIs
<1>2. UpTo(Ones(s), Len(s)) \in Nat
  BY <1>1, UpToNat
<1>3. UpTo(Ones(s), Len(s)) > 0 <=> \E k \in 1..Len(s) : Ones(s)[k] > 0
  BY <1>1, UpToPositive
<1>4. \A k \in 1..Len(s) : Ones(s)[k] > 0 <=> s[k]
  BY <1>1
<1> QED
  BY <1>1, <1>2, <1>3, <1>4

(* The flags of two sequences are counted one after the other.               *)
LEMMA CountConcat ==
    ASSUME NEW s \in Seq(BOOLEAN), NEW t \in Seq(BOOLEAN)
    PROVE  s \o t \in Seq(BOOLEAN) /\ Reports!Count(s \o t) = Reports!Count(s) + Reports!Count(t)
<1>1. PICK u : u = s \o t
  OBVIOUS
<1>2. /\ u \in Seq(BOOLEAN) /\ Len(u) = Len(s) + Len(t)
      /\ \A i \in 1..(Len(s) + Len(t)) : u[i] = IF i <= Len(s) THEN s[i] ELSE t[i - Len(s)]
  BY <1>1, ConcatProperties
<1>3. PICK a : a = Ones(s)
  OBVIOUS
<1>4. PICK b : b = Ones(t)
  OBVIOUS
<1>5. PICK c : c = Ones(u)
  OBVIOUS
<1>6. /\ Reports!Count(s) = UpTo(a, Len(s)) /\ Len(s) \in Nat
      /\ \A k \in 1..Len(s) : a[k] = IF s[k] THEN 1 ELSE 0
      /\ \A k \in 1..Len(s) : a[k] \in Nat
  BY <1>3, CountIs
<1>7. /\ Reports!Count(t) = UpTo(b, Len(t)) /\ Len(t) \in Nat
      /\ \A k \in 1..Len(t) : b[k] = IF t[k] THEN 1 ELSE 0
      /\ \A k \in 1..Len(t) : b[k] \in Nat
  BY <1>4, CountIs
<1>0. u \in Seq(BOOLEAN)
  BY <1>2
<1>8. /\ Reports!Count(u) = UpTo(c, Len(u))
      /\ \A k \in 1..Len(u) : c[k] = IF u[k] THEN 1 ELSE 0
      /\ \A k \in 1..Len(u) : c[k] \in Nat
  BY <1>0, <1>5, CountIs
<1>9. ASSUME NEW k \in 1..Len(s) PROVE c[k] = a[k]
  <2>1. k \in 1..Len(u) /\ k \in 1..(Len(s) + Len(t)) /\ k <= Len(s)
    BY <1>2, <1>6, <1>7
  <2>2. u[k] = s[k]
    BY <1>2, <2>1
  <2> QED
    BY <1>6, <1>8, <2>1, <2>2
<1>10. ASSUME NEW k \in 1..Len(t) PROVE c[Len(s) + k] = b[k]
  <2>1. /\ Len(s) + k \in 1..Len(u) /\ Len(s) + k \in 1..(Len(s) + Len(t))
        /\ ~(Len(s) + k <= Len(s)) /\ (Len(s) + k) - Len(s) = k
    BY <1>2, <1>6, <1>7
  <2>2. u[Len(s) + k] = t[k]
    BY <1>2, <2>1
  <2> QED
    BY <1>7, <1>8, <2>1, <2>2
<1>11. UpTo(c, Len(s)) = UpTo(a, Len(s))
  BY <1>6, <1>9, UpToEqual
<1>12. UpTo(a, Len(s)) \in Nat
  BY <1>6, UpToNat
<1> DEFINE T == {j \in 0..Len(t) : UpTo(c, Len(s) + j) # UpTo(a, Len(s)) + UpTo(b, j)}
<1>13. ASSUME T # {} PROVE FALSE
  <2>1. PICK j \in T : \A y \in T : j <= y
    <3>1. T \subseteq Nat
      BY <1>7
    <3> HIDE DEF T
    <3> QED
      BY <1>13, <3>1, LeastOf
  <2>2. j \in 0..Len(t) /\ UpTo(c, Len(s) + j) # UpTo(a, Len(s)) + UpTo(b, j)
    BY <2>1
  <2>3. j # 0
    <3>1. UpTo(b, 0) = 0
      BY UpToIs
    <3> QED
      BY <1>6, <1>11, <1>12, <2>2, <3>1
  <2>4. /\ j \in Nat \ {0} /\ j - 1 \in 0..Len(t) /\ j - 1 \notin T /\ j \in 1..Len(t) /\ j - 1 \in Nat
        /\ Len(s) + j \in Nat \ {0} /\ (Len(s) + j) - 1 = Len(s) + (j - 1)
    BY <1>6, <1>7, <2>1, <2>2, <2>3
  <2>5. UpTo(c, Len(s) + (j - 1)) = UpTo(a, Len(s)) + UpTo(b, j - 1)
    BY <2>4
  <2>6. UpTo(b, j) = UpTo(b, j - 1) + b[j]
    BY <2>4, UpToIs
  <2>7. UpTo(c, Len(s) + j) = UpTo(c, (Len(s) + j) - 1) + c[Len(s) + j]
    BY <2>4, UpToIs
  <2>8. UpTo(b, j - 1) \in Nat /\ b[j] \in Nat
    <3>1. \A k \in 1..(j - 1) : b[k] \in Nat
      BY <1>7, <2>4
    <3> QED
      BY <1>7, <2>4, <3>1, UpToNat
  <2>9. c[Len(s) + j] = b[j]
    BY <1>10, <2>4
  <2> HIDE DEF T
  <2>10. UpTo(c, Len(s) + j) = UpTo(a, Len(s)) + UpTo(b, j - 1) + b[j]
    BY <2>4, <2>5, <2>7, <2>9
  <2> QED
    BY <1>12, <2>2, <2>6, <2>8, <2>10
<1>14. Len(t) \in 0..Len(t) /\ Len(t) \notin T
  BY <1>7, <1>13
<1>15. UpTo(c, Len(s) + Len(t)) = UpTo(a, Len(s)) + UpTo(b, Len(t))
  BY <1>14
<1> QED
  BY <1>0, <1>1, <1>2, <1>6, <1>7, <1>8, <1>15

(* One flag.                                                                 *)
LEMMA CountOne ==
    ASSUME NEW b \in BOOLEAN
    PROVE  <<b>> \in Seq(BOOLEAN) /\ Reports!Count(<<b>>) = IF b THEN 1 ELSE 0
<1>1. PICK s : s = <<b>>
  OBVIOUS
<1>2. s \in Seq(BOOLEAN) /\ Len(s) = 1 /\ s[1] = b
  BY <1>1
<1>3. PICK a : a = Ones(s)
  OBVIOUS
<1>4. Reports!Count(s) = UpTo(a, 1) /\ a[1] = IF b THEN 1 ELSE 0
  <2>1. s \in Seq(BOOLEAN)
    BY <1>2
  <2>2. /\ Reports!Count(s) = UpTo(a, Len(s))
        /\ \A k \in 1..Len(s) : a[k] = IF s[k] THEN 1 ELSE 0
    BY <1>3, <2>1, CountIs
  <2>3. 1 \in 1..1 /\ 1..Len(s) = 1..1
    BY <1>2
  <2>4. a[1] = IF s[1] THEN 1 ELSE 0
    BY <2>2, <2>3
  <2>5. s[1] = b
    BY <1>2
  <2> QED
    BY <1>2, <2>2, <2>4, <2>5
<1>5. UpTo(a, 1) = UpTo(a, 1 - 1) + a[1] /\ UpTo(a, 0) = 0
  BY UpToIs
<1>6. 1 - 1 = 0
  OBVIOUS
<1>7. UpTo(a, 1) = 0 + a[1]
  BY <1>5, <1>6
<1>8. 0 + a[1] = IF b THEN 1 ELSE 0
  BY <1>4
<1>9. Reports!Count(s) = IF b THEN 1 ELSE 0
  BY <1>4, <1>7, <1>8
<1> QED
  BY <1>1, <1>2, <1>9

-----------------------------------------------------------------------------
(* What a step adds to the failed cases: itself, and its failed checks.      *)
Itself(step) == IF Reports!StepHasExecutionFailure(step) THEN 1 ELSE 0
Failed(step) == Reports!Count(Reports!CheckFails(step))

(* The cases of a step.                                                      *)
LEMMA StepIs ==
    ASSUME NEW step \in Reports!Steps
    PROVE  /\ Reports!StepCases(step) \in Seq(BOOLEAN)
           /\ Reports!Count(Reports!StepCases(step)) = Itself(step) + Failed(step)
           /\ Itself(step) \in Nat /\ Failed(step) \in Nat
           /\ Failed(step) > 0 <=> Reports!HasFailedCheck(step)
<1>1. PICK n \in 0..MaxChecks : step.checks \in [1..n -> {"passed", "failed"}]
  BY DEF Reports!Steps
<1>2. PICK f : f = Reports!CheckFails(step)
  OBVIOUS
<1>3. n \in Nat /\ DOMAIN step.checks = 1..n
  BY <1>1
<1>4. f = [i \in 1..n |-> step.checks[i] \in Reports!Failing]
  BY <1>2, <1>3 DEF Reports!CheckFails
<1>5. f \in Seq(BOOLEAN) /\ Len(f) = n
  <2>1. f \in [1..n -> BOOLEAN]
    <3>1. ASSUME NEW i PROVE (step.checks[i] \in Reports!Failing) \in BOOLEAN
      OBVIOUS
    <3>2. [i \in 1..n |-> step.checks[i] \in Reports!Failing] \in [1..n -> BOOLEAN]
      BY <3>1, Zenon
    <3> QED
      BY <1>4, <3>2
  <2>2. PICK B0 : B0 = BOOLEAN
    OBVIOUS
  <2>3. f \in Seq(B0) /\ DOMAIN f = 1..n
    BY <1>3, <2>1, <2>2
  <2>4. Len(f) = n
    BY <1>3, <2>3
  <2> QED
    BY <2>2, <2>3, <2>4
<1>6. \A i \in 1..n : f[i] <=> step.checks[i] \in Reports!Failing
  BY <1>4
<1>7. Reports!Count(f) \in Nat /\ (Reports!Count(f) > 0 <=> \E k \in 1..Len(f) : f[k])
  BY <1>5, CountPositive
<1>8. Failed(step) \in Nat /\ (Failed(step) > 0 <=> Reports!HasFailedCheck(step))
  BY <1>2, <1>3, <1>5, <1>6, <1>7 DEF Failed, Reports!HasFailedCheck
<1>9. PICK b : b = Reports!StepHasExecutionFailure(step)
  OBVIOUS
<1>10. b \in BOOLEAN
  BY <1>9 DEF Reports!StepHasExecutionFailure
<1>11. <<b>> \in Seq(BOOLEAN) /\ Reports!Count(<<b>>) = Itself(step)
  BY <1>9, <1>10, CountOne DEF Itself
<1>12. PICK a : a = <<b>>
  OBVIOUS
<1>13. a \in Seq(BOOLEAN) /\ Reports!Count(a) = Itself(step)
  BY <1>11, <1>12
<1>14. a \o f \in Seq(BOOLEAN) /\ Reports!Count(a \o f) = Itself(step) + Reports!Count(f)
  BY <1>5, <1>13, CountConcat
<1>15. Reports!StepCases(step) = a \o f
  BY <1>2, <1>9, <1>12 DEF Reports!StepCases
<1>16. Itself(step) \in Nat
  BY DEF Itself
<1> QED
  BY <1>2, <1>8, <1>14, <1>15, <1>16 DEF Failed

-----------------------------------------------------------------------------
(* f[i] is the cases of the first i steps, up to the n-th.                   *)
IsCasing(steps, n, f) ==
    f = [i \in 0..n |-> IF i = 0 THEN <<>> ELSE f[i - 1] \o Reports!StepCases(steps[i])]

(* The cases of the first n steps.                                           *)
CasesUpTo(steps, n) == (CHOOSE f : IsCasing(steps, n, f))[n]

(* There are such cases.                                                     *)
LEMMA CasingExists ==
    ASSUME NEW v, NEW n \in Nat
    PROVE  \E f : IsCasing(v, n, f)
<1> DEFINE T == {m \in Nat : ~\E f : IsCasing(v, m, f)}
<1> SUFFICES ASSUME T # {} PROVE FALSE
  OBVIOUS
<1>1. PICK m \in T : \A y \in T : m <= y
  <2>1. T \subseteq Nat
    OBVIOUS
  <2> HIDE DEF T
  <2> QED
    BY <2>1, LeastOf
<1>2. CASE m = 0
  <2> DEFINE f == [i \in 0..0 |-> <<>>]
  <2>1. IsCasing(v, 0, f)
    BY DEF IsCasing
  <2> QED
    BY <1>1, <1>2, <2>1
<1>3. CASE m # 0
  <2>1. m - 1 \in Nat /\ m - 1 \notin T
    BY <1>1, <1>3
  <2>2. PICK g : IsCasing(v, m - 1, g)
    BY <2>1
  <2> DEFINE f == [i \in 0..m |-> IF i = m THEN g[m - 1] \o Reports!StepCases(v[m]) ELSE g[i]]
  <2>3. \A i \in 0..(m - 1) : g[i] = IF i = 0 THEN <<>> ELSE g[i - 1] \o Reports!StepCases(v[i])
    BY <2>2 DEF IsCasing
  <2>4. ASSUME NEW i \in 0..m
        PROVE  f[i] = IF i = 0 THEN <<>> ELSE f[i - 1] \o Reports!StepCases(v[i])
    BY <1>3, <2>3
  <2>5. IsCasing(v, m, f)
    BY <2>4 DEF IsCasing
  <2> QED
    BY <1>1, <2>5
<1> QED
  BY <1>2, <1>3

(* The cases of the beginnings agree.                                        *)
LEMMA CasingIs ==
    ASSUME NEW v, NEW n \in Nat, NEW f, IsCasing(v, n, f), NEW k \in 0..n
    PROVE  CasesUpTo(v, k) = f[k]
<1>1. PICK g : g = (CHOOSE h : IsCasing(v, k, h))
  OBVIOUS
<1>2. IsCasing(v, k, g) /\ CasesUpTo(v, k) = g[k]
  BY <1>1, CasingExists DEF CasesUpTo
<1>3. \A i \in 0..k : g[i] = IF i = 0 THEN <<>> ELSE g[i - 1] \o Reports!StepCases(v[i])
  BY <1>2 DEF IsCasing
<1>4. \A i \in 0..n : f[i] = IF i = 0 THEN <<>> ELSE f[i - 1] \o Reports!StepCases(v[i])
  BY DEF IsCasing
<1> DEFINE T == {i \in 0..k : g[i] # f[i]}
<1>5. ASSUME T # {} PROVE FALSE
  <2>1. PICK i \in T : \A y \in T : i <= y
    <3>1. T \subseteq Nat
      OBVIOUS
    <3> HIDE DEF T
    <3> QED
      BY <1>5, <3>1, LeastOf
  <2>2. i \in 0..k /\ i \in 0..n /\ g[i] # f[i]
    BY <2>1
  <2>3. i # 0
    BY <1>3, <1>4, <2>2
  <2>4. i - 1 \in 0..k /\ i - 1 \notin T
    BY <2>1, <2>2, <2>3
  <2>5. g[i - 1] = f[i - 1]
    BY <2>4
  <2> QED
    BY <1>3, <1>4, <2>2, <2>3, <2>5
<1>6. k \in 0..k /\ k \notin T
  BY <1>5
<1> QED
  BY <1>2, <1>6

(* Cases, step by step.                                                      *)
LEMMA CasesUpToIs ==
    ASSUME NEW v
    PROVE  /\ CasesUpTo(v, 0) = <<>>
           /\ \A k \in Nat \ {0} : CasesUpTo(v, k) = CasesUpTo(v, k - 1) \o Reports!StepCases(v[k])
<1>1. ASSUME NEW n \in Nat, NEW k \in 0..n
      PROVE  IF k = 0 THEN CasesUpTo(v, k) = <<>>
             ELSE CasesUpTo(v, k) = CasesUpTo(v, k - 1) \o Reports!StepCases(v[k])
  <2>1. PICK f : IsCasing(v, n, f)
    BY CasingExists
  <2>2. \A i \in 0..n : f[i] = IF i = 0 THEN <<>> ELSE f[i - 1] \o Reports!StepCases(v[i])
    BY <2>1 DEF IsCasing
  <2>3. \A i \in 0..n : CasesUpTo(v, i) = f[i]
    BY <2>1, CasingIs
  <2>4. k # 0 => k - 1 \in 0..n
    OBVIOUS
  <2> QED
    BY <2>2, <2>3, <2>4
<1>2. CasesUpTo(v, 0) = <<>>
  BY <1>1
<1>3. ASSUME NEW k \in Nat \ {0}
      PROVE  CasesUpTo(v, k) = CasesUpTo(v, k - 1) \o Reports!StepCases(v[k])
  <2>1. k \in Nat /\ k \in 0..k /\ k # 0
    OBVIOUS
  <2> QED
    BY <1>1, <2>1
<1> QED
  BY <1>2, <1>3

(* What the steps add to the failed cases, and their failed checks alone.    *)
StepFails(steps) == [i \in DOMAIN steps |-> Itself(steps[i]) + Failed(steps[i])]
StepChecks(steps) == [i \in DOMAIN steps |-> Failed(steps[i])]

(* What StepIs says of a step, as one fact.                                  *)
IsStep(step) ==
    /\ Reports!StepCases(step) \in Seq(BOOLEAN)
    /\ Reports!Count(Reports!StepCases(step)) = Itself(step) + Failed(step)
    /\ Itself(step) \in Nat /\ Failed(step) \in Nat
    /\ Failed(step) > 0 <=> Reports!HasFailedCheck(step)

(* The cases of the first steps, counted.                                    *)
LEMMA CasesCount ==
    ASSUME NEW steps \in Seq(Reports!Steps), NEW n \in 0..Len(steps)
    PROVE  /\ CasesUpTo(steps, n) \in Seq(BOOLEAN)
           /\ Reports!Count(CasesUpTo(steps, n)) = UpTo(StepFails(steps), n)
<1>0. Len(steps) \in Nat /\ DOMAIN steps = 1..Len(steps)
  BY LenProperties
<1>1. PICK v : v = StepFails(steps)
  OBVIOUS
<1>2. ASSUME NEW k \in 1..Len(steps)
      PROVE  IsStep(steps[k]) /\ v[k] = Itself(steps[k]) + Failed(steps[k])
  <2>1. steps[k] \in Reports!Steps
    BY ElementOfSeq
  <2>2. IsStep(steps[k])
    BY <2>1, StepIs DEF IsStep
  <2>3. v[k] = Itself(steps[k]) + Failed(steps[k])
    BY <1>0, <1>1 DEF StepFails
  <2> QED
    BY <2>2, <2>3
<1> DEFINE Counted(k) == CasesUpTo(steps, k) \in Seq(BOOLEAN) /\ Reports!Count(CasesUpTo(steps, k)) = UpTo(v, k)
<1> DEFINE T == {k \in 0..Len(steps) : ~Counted(k)}
<1>3. ASSUME T # {} PROVE FALSE
  <2>1. PICK k \in T : \A y \in T : k <= y
    <3>1. T \subseteq Nat
      BY <1>0
    <3> HIDE DEF T
    <3> QED
      BY <1>3, <3>1, LeastOf
  <2>2. k \in 0..Len(steps) /\ ~Counted(k)
    BY <2>1
  <2>3. k # 0
    <3>1. CasesUpTo(steps, 0) = <<>> /\ UpTo(v, 0) = 0
      BY CasesUpToIs, UpToIs
    <3>2. PICK e : e = CasesUpTo(steps, 0)
      OBVIOUS
    <3>3. e \in Seq(BOOLEAN) /\ Len(e) = 0
      BY <3>1, <3>2, EmptySeq
    <3>4. Reports!Count(e) = UpTo(Ones(e), 0)
      BY <3>3, CountIs
    <3>5. UpTo(Ones(e), 0) = 0
      BY UpToIs
    <3>6. Counted(0)
      BY <3>1, <3>2, <3>3, <3>4, <3>5
    <3> QED
      BY <2>2, <3>6
  <2>4. k \in Nat \ {0} /\ k - 1 \in 0..Len(steps) /\ k - 1 \notin T /\ k \in 1..Len(steps)
    BY <1>0, <2>1, <2>2, <2>3
  <2>5. Counted(k - 1)
    BY <2>4
  <2>6. PICK a : a = CasesUpTo(steps, k - 1)
    OBVIOUS
  <2>7. PICK b : b = Reports!StepCases(steps[k])
    OBVIOUS
  <2>8. a \in Seq(BOOLEAN) /\ Reports!Count(a) = UpTo(v, k - 1)
    BY <2>5, <2>6
  <2>9. b \in Seq(BOOLEAN) /\ Reports!Count(b) = v[k]
    BY <1>2, <2>4, <2>7 DEF IsStep
  <2>10. a \o b \in Seq(BOOLEAN) /\ Reports!Count(a \o b) = Reports!Count(a) + Reports!Count(b)
    BY <2>8, <2>9, CountConcat
  <2>11. CasesUpTo(steps, k) = a \o b
    BY <2>4, <2>6, <2>7, CasesUpToIs
  <2>12. UpTo(v, k) = UpTo(v, k - 1) + v[k]
    BY <2>4, UpToIs
  <2>13. Counted(k)
    BY <2>8, <2>9, <2>10, <2>11, <2>12
  <2> QED
    BY <2>2, <2>13
<1>4. Counted(n)
  BY <1>3
<1> QED
  BY <1>1, <1>4

(* The steps of a document: their cases, their failed checks, and when there *)
(* are any.                                                                  *)
LEMMA StepsAdd ==
    ASSUME NEW steps \in Seq(Reports!Steps)
    PROVE  \E x \in Nat, c \in Nat :
             /\ Reports!StepsCases(steps) \in Seq(BOOLEAN)
             /\ Reports!Count(Reports!StepsCases(steps)) = x
             /\ Reports!Total(StepChecks(steps)) = c
             /\ c <= x
             /\ x > 0 <=> \E k \in DOMAIN steps :
                            Reports!StepHasExecutionFailure(steps[k]) \/ Reports!HasFailedCheck(steps[k])
             /\ c > 0 <=> \E k \in DOMAIN steps : Reports!HasFailedCheck(steps[k])
             /\ (\A k \in DOMAIN steps : ~Reports!StepHasExecutionFailure(steps[k])) => x = c
<1>0. Len(steps) \in Nat /\ DOMAIN steps = 1..Len(steps)
  BY LenProperties
<1>1. PICK n : n = Len(steps)
  OBVIOUS
<1>2. PICK v : v = StepFails(steps)
  OBVIOUS
<1>3. PICK w : w = StepChecks(steps)
  OBVIOUS
<1>4. n \in Nat /\ DOMAIN steps = 1..n /\ n \in 0..Len(steps)
  BY <1>0, <1>1
<1>5. w = [i \in 1..n |-> Failed(steps[i])] /\ v = [i \in 1..n |-> Itself(steps[i]) + Failed(steps[i])]
  BY <1>2, <1>3, <1>4 DEF StepFails, StepChecks
<1>6. Len(w) = n
  BY <1>4, <1>5
<1>7. ASSUME NEW k \in 1..n
      PROVE  /\ Itself(steps[k]) \in Nat /\ Failed(steps[k]) \in Nat
             /\ Failed(steps[k]) > 0 <=> Reports!HasFailedCheck(steps[k])
             /\ v[k] = Itself(steps[k]) + Failed(steps[k]) /\ w[k] = Failed(steps[k])
             /\ Itself(steps[k]) = IF Reports!StepHasExecutionFailure(steps[k]) THEN 1 ELSE 0
  <2>1. steps[k] \in Reports!Steps
    BY <1>1, ElementOfSeq
  <2>2. IsStep(steps[k])
    BY <2>1, StepIs DEF IsStep
  <2> QED
    BY <1>5, <2>2 DEF IsStep, Itself
<1>8. \A k \in 1..n : v[k] \in Nat /\ w[k] \in Nat /\ w[k] <= v[k]
  BY <1>7
<1>9. UpTo(v, n) \in Nat /\ UpTo(w, n) \in Nat
  BY <1>4, <1>8, UpToNat
<1>10. UpTo(w, n) <= UpTo(v, n)
  BY <1>4, <1>8, UpToLe
<1>11. UpTo(v, n) > 0 <=> \E k \in 1..n : v[k] > 0
  BY <1>4, <1>8, UpToPositive
<1>12. UpTo(w, n) > 0 <=> \E k \in 1..n : w[k] > 0
  BY <1>4, <1>8, UpToPositive
<1>13. \A k \in 1..n : v[k] > 0 <=> Reports!StepHasExecutionFailure(steps[k]) \/ Reports!HasFailedCheck(steps[k])
  BY <1>7
<1>14. \A k \in 1..n : w[k] > 0 <=> Reports!HasFailedCheck(steps[k])
  BY <1>7
<1>15. ASSUME \A k \in 1..n : ~Reports!StepHasExecutionFailure(steps[k])
       PROVE  UpTo(v, n) = UpTo(w, n)
  <2>1. \A k \in 1..n : v[k] = w[k]
    BY <1>7, <1>15
  <2> QED
    BY <1>4, <2>1, UpToEqual
<1>16. Reports!Total(w) = UpTo(w, n)
  BY <1>6, TotalIs
<1>17. Reports!StepsCases(steps) = CasesUpTo(steps, n)
  BY <1>1 DEF Reports!StepsCases, CasesUpTo, IsCasing
<1>18. CasesUpTo(steps, n) \in Seq(BOOLEAN) /\ Reports!Count(CasesUpTo(steps, n)) = UpTo(v, n)
  BY <1>2, <1>4, CasesCount
<1>19. PICK x : x = UpTo(v, n)
  OBVIOUS
<1>20. PICK c : c = UpTo(w, n)
  OBVIOUS
<1>21. x \in Nat /\ c \in Nat /\ c <= x
  BY <1>9, <1>10, <1>19, <1>20
<1>22. /\ Reports!StepsCases(steps) \in Seq(BOOLEAN)
       /\ Reports!Count(Reports!StepsCases(steps)) = x
       /\ Reports!Total(StepChecks(steps)) = c
  BY <1>3, <1>16, <1>17, <1>18, <1>19, <1>20
<1>23. /\ x > 0 <=> \E k \in DOMAIN steps :
                       Reports!StepHasExecutionFailure(steps[k]) \/ Reports!HasFailedCheck(steps[k])
       /\ c > 0 <=> \E k \in DOMAIN steps : Reports!HasFailedCheck(steps[k])
  BY <1>4, <1>11, <1>12, <1>13, <1>14, <1>19, <1>20
<1>24. (\A k \in DOMAIN steps : ~Reports!StepHasExecutionFailure(steps[k])) => x = c
  BY <1>4, <1>15, <1>19, <1>20
<1> QED
  BY <1>21, <1>22, <1>23, <1>24

(* What the JUnit form of one document says.                                 *)
DocAgrees(d) ==
    /\ Reports!Failures(d) \in Nat /\ Reports!ChecksFailed(d) \in Nat
    /\ Reports!ChecksFailed(d) <= Reports!Failures(d)
    /\ d.status \in Reports!Failing => Reports!Failures(d) > 0
    /\ Reports!Honest(d) /\ Reports!Failures(d) > 0 =>
         d.status \in Reports!Failing \/ Reports!ChecksFailed(d) > 0
    /\ Reports!Plain(d) => Reports!Failures(d) = Reports!ChecksFailed(d)

(* It says so of every document.                                             *)
LEMMA DocumentAgrees ==
    ASSUME NEW d \in Reports!Documents
    PROVE  DocAgrees(d)
<1>1. PICK steps : steps = d.steps
  OBVIOUS
<1>2. steps \in Seq(Reports!Steps) /\ d.errors \in 0..1
  <2>1. PICK n \in 0..MaxSteps : steps \in [1..n -> Reports!Steps]
    BY <1>1 DEF Reports!Documents
  <2>2. n \in Nat
    OBVIOUS
  <2>3. d.errors \in 0..1
    BY DEF Reports!Documents
  <2> HIDE DEF Reports!Steps
  <2> QED
    BY <2>1, <2>2, <2>3
<1>3. steps \in Seq(Reports!Steps)
  BY <1>2
<1>4. PICK x \in Nat, c \in Nat :
        /\ Reports!StepsCases(steps) \in Seq(BOOLEAN)
        /\ Reports!Count(Reports!StepsCases(steps)) = x
        /\ Reports!Total(StepChecks(steps)) = c
        /\ c <= x
        /\ x > 0 <=> \E k \in DOMAIN steps :
                       Reports!StepHasExecutionFailure(steps[k]) \/ Reports!HasFailedCheck(steps[k])
        /\ c > 0 <=> \E k \in DOMAIN steps : Reports!HasFailedCheck(steps[k])
        /\ (\A k \in DOMAIN steps : ~Reports!StepHasExecutionFailure(steps[k])) => x = c
  BY <1>3, StepsAdd
<1>5. Reports!ChecksFailed(d) = c
  BY <1>1, <1>4 DEF Reports!ChecksFailed, StepChecks, Failed
<1>6. PICK e : e = [i \in 1..d.errors |-> TRUE]
  OBVIOUS
<1>7. e \in Seq(BOOLEAN) /\ Len(e) = d.errors
  <2>1. e \in [1..d.errors -> BOOLEAN]
    BY <1>6, Zenon
  <2> QED
    BY <1>2, <2>1
<1>8. PICK y \in Nat : Reports!Count(e) = y /\ (y > 0 <=> d.errors > 0)
  <2>1. Reports!Count(e) \in Nat /\ (Reports!Count(e) > 0 <=> \E k \in 1..Len(e) : e[k])
    BY <1>7, CountPositive
  <2>2. \A k \in 1..Len(e) : e[k]
    BY <1>6, <1>7
  <2>3. (\E k \in 1..Len(e) : e[k]) <=> d.errors > 0
    BY <1>2, <1>7, <2>2
  <2> QED
    BY <2>1, <2>3
<1>9. PICK a : a = Reports!StepsCases(steps)
  OBVIOUS
<1>10. a \in Seq(BOOLEAN) /\ Reports!Count(a) = x
  BY <1>4, <1>9
<1>11. PICK b : b = a \o e
  OBVIOUS
<1>12. b \in Seq(BOOLEAN) /\ Reports!Count(b) = x + y
  BY <1>7, <1>8, <1>10, <1>11, CountConcat
<1>13. b \in Seq(BOOLEAN)
  BY <1>12
<1>14. x + y > 0 <=> \E k \in 1..Len(b) : b[k]
  BY <1>12, <1>13, CountPositive
<1>15. DOMAIN b = 1..Len(b)
  BY <1>13, LenProperties
<1>16. Reports!Count(Append(b, TRUE)) = x + y + 1
  <2>1. PICK o : o = <<TRUE>>
    OBVIOUS
  <2>2. o \in Seq(BOOLEAN) /\ Reports!Count(o) = 1
    BY <2>1, CountOne
  <2>3. Append(b, TRUE) = b \o o
    BY <1>13, <2>1, AppendIsConcat
  <2> QED
    BY <1>12, <2>2, <2>3, CountConcat
<1>17. Reports!JunitCases(d) = IF d.status \in Reports!Failing /\ ~(\E k \in DOMAIN b : b[k])
                               THEN Append(b, TRUE) ELSE b
  BY <1>1, <1>6, <1>9, <1>11 DEF Reports!JunitCases
<1>18. Reports!Failures(d) = IF d.status \in Reports!Failing /\ ~(x + y > 0) THEN x + y + 1 ELSE x + y
  <2>1. (\E k \in DOMAIN b : b[k]) <=> x + y > 0
    BY <1>14, <1>15
  <2> QED
    BY <1>12, <1>16, <1>17, <2>1 DEF Reports!Failures
<1>19. /\ Reports!Failures(d) \in Nat /\ c <= Reports!Failures(d)
       /\ d.status \in Reports!Failing => Reports!Failures(d) > 0
  BY <1>4, <1>8, <1>18
<1>20. ASSUME Reports!Honest(d), Reports!Failures(d) > 0, d.status \notin Reports!Failing
       PROVE  c > 0
  <2>1. ~(d.errors > 0) /\ x + y > 0
    BY <1>18, <1>20 DEF Reports!Honest
  <2>2. x > 0
    BY <1>8, <2>1
  <2>3. PICK k \in DOMAIN steps :
          Reports!StepHasExecutionFailure(steps[k]) \/ Reports!HasFailedCheck(steps[k])
    BY <1>4, <2>2
  <2>4. ~Reports!StepHasExecutionFailure(steps[k])
    BY <1>1, <1>20, <2>3 DEF Reports!Honest, Reports!StepHasExecutionFailure
  <2> QED
    BY <1>4, <2>3, <2>4
<1>21. ASSUME Reports!Plain(d) PROVE Reports!Failures(d) = c
  <2>1. ~(d.errors > 0)
    BY <1>2, <1>21 DEF Reports!Plain
  <2>2. y = 0
    BY <1>8, <2>1
  <2>3. \A k \in DOMAIN steps : ~Reports!StepHasExecutionFailure(steps[k])
    BY <1>1, <1>21 DEF Reports!Plain, Reports!StepHasExecutionFailure
  <2>4. x = c
    BY <1>4, <2>3
  <2>5. d.status \in Reports!Failing => c > 0
    BY <1>1, <1>4, <1>21 DEF Reports!Plain
  <2> QED
    BY <1>18, <2>2, <2>4, <2>5
<1> QED
  BY <1>5, <1>19, <1>20, <1>21 DEF DocAgrees

-----------------------------------------------------------------------------
(* The documents' failed cases, and their failed checks.                     *)
DocFailures(ds) == [i \in DOMAIN ds |-> Reports!Failures(ds[i])]
DocChecks(ds) == [i \in DOMAIN ds |-> Reports!ChecksFailed(ds[i])]

(* The summary has counted the documents of the report: their failed checks, *)
(* and of each status whether there is one.                                  *)
DocumentsInv ==
    /\ pDocuments \in Seq(Reports!Documents)
    /\ pSummary.checks_failed = Reports!Total(DocChecks(pDocuments))
    /\ pSummary.by \in [Reports!Statuses -> Nat]
    /\ \A s \in Reports!Statuses :
         pSummary.by[s] > 0 <=> \E i \in DOMAIN pDocuments : pDocuments[i].status = s

(* One document more.                                                        *)
LEMMA AddedChecks ==
    ASSUME NEW ds \in Seq(Reports!Documents), NEW d \in Reports!Documents
    PROVE  Reports!Total(DocChecks(Append(ds, d))) = Reports!Total(DocChecks(ds)) + Reports!ChecksFailed(d)
<1>1. PICK es : es = Append(ds, d)
  OBVIOUS
<1>2. PICK n : n = Len(ds)
  OBVIOUS
<1>3. n \in Nat /\ DOMAIN ds = 1..n
  BY <1>2, LenProperties
<1>4. /\ es \in Seq(Reports!Documents) /\ Len(es) = n + 1 /\ es[n + 1] = d
      /\ \A k \in 1..n : es[k] = ds[k]
  BY <1>1, <1>2, AppendProperties
<1>5. DOMAIN es = 1..(n + 1)
  BY <1>4, LenProperties
<1>6. PICK v : v = DocChecks(ds)
  OBVIOUS
<1>7. PICK w : w = DocChecks(es)
  OBVIOUS
<1>8. v = [i \in 1..n |-> Reports!ChecksFailed(ds[i])] /\ w = [i \in 1..(n + 1) |-> Reports!ChecksFailed(es[i])]
  BY <1>3, <1>5, <1>6, <1>7 DEF DocChecks
<1>9. Len(v) = n /\ Len(w) = n + 1
  BY <1>3, <1>8
<1>10. w[n + 1] = Reports!ChecksFailed(d) /\ \A k \in 1..n : v[k] = w[k]
  BY <1>3, <1>4, <1>8
<1>11. UpTo(v, n) = UpTo(w, n)
  BY <1>3, <1>10, UpToEqual
<1>12. UpTo(w, n + 1) = UpTo(w, n) + w[n + 1]
  <2>1. n + 1 \in Nat \ {0} /\ (n + 1) - 1 = n
    BY <1>3
  <2>2. UpTo(w, n + 1) = UpTo(w, (n + 1) - 1) + w[n + 1]
    BY <2>1, UpToIs
  <2> QED
    BY <2>1, <2>2
<1>13. Reports!Total(v) = UpTo(v, n) /\ Reports!Total(w) = UpTo(w, n + 1)
  BY <1>9, TotalIs
<1> QED
  BY <1>1, <1>6, <1>7, <1>10, <1>11, <1>12, <1>13

(* An empty report.                                                          *)
LEMMA DocumentsInitInv == Reports!Init => DocumentsInv
<1> SUFFICES ASSUME Reports!Init PROVE DocumentsInv
  OBVIOUS
<1>1. /\ pDocuments = <<>> /\ pSummary.checks_failed = 0
      /\ pSummary.by = [s \in Reports!Statuses |-> 0]
  BY DEF Reports!Init
<1>2. pDocuments \in Seq(Reports!Documents) /\ DOMAIN pDocuments = {}
  BY <1>1, EmptySeq
<1>3. Reports!Total(DocChecks(pDocuments)) = 0
  <2>1. PICK v : v = DocChecks(pDocuments)
    OBVIOUS
  <2>2. v = <<>>
    BY <1>2, <2>1 DEF DocChecks
  <2>3. Len(v) = 0
    BY <2>2
  <2> QED
    BY <2>1, <2>3, TotalIs, UpToIs
<1> QED
  BY <1>1, <1>2, <1>3 DEF DocumentsInv

(* Report::add_document counts the document it adds.                         *)
LEMMA AddStep ==
    ASSUME DocumentsInv, NEW d \in Reports!Documents, Reports!AddDocument(d)
    PROVE  DocumentsInv'
<1>1. PICK ds : ds = pDocuments
  OBVIOUS
<1>2. PICK es : es = pDocuments'
  OBVIOUS
<1>3. ds \in Seq(Reports!Documents) /\ es = Append(ds, d)
  BY <1>1, <1>2 DEF DocumentsInv, Reports!AddDocument
<1>4. PICK n : n = Len(ds)
  OBVIOUS
<1>5. n \in Nat /\ DOMAIN ds = 1..n
  BY <1>3, <1>4, LenProperties
<1>6. /\ es \in Seq(Reports!Documents) /\ Len(es) = n + 1 /\ es[n + 1] = d
      /\ \A k \in 1..n : es[k] = ds[k]
  BY <1>3, <1>4, AppendProperties
<1>7. DOMAIN es = 1..(n + 1)
  BY <1>6, LenProperties
<1>8. /\ pSummary'.checks_failed = pSummary.checks_failed + Reports!ChecksFailed(d)
      /\ pSummary'.by = [pSummary.by EXCEPT ![d.status] = @ + 1]
  BY DEF Reports!AddDocument
<1>9. pSummary'.checks_failed = Reports!Total(DocChecks(es))
  <2>1. pSummary.checks_failed = Reports!Total(DocChecks(ds))
    BY <1>1 DEF DocumentsInv
  <2> QED
    BY <1>3, <1>8, <2>1, AddedChecks
<1>10. d.status \in Reports!Statuses
  BY DEF Reports!Documents
<1>11. pSummary.by \in [Reports!Statuses -> Nat]
  BY DEF DocumentsInv
<1>12. pSummary'.by \in [Reports!Statuses -> Nat]
  BY <1>8, <1>10, <1>11
<1>13. ASSUME NEW s \in Reports!Statuses
       PROVE  pSummary'.by[s] > 0 <=> \E i \in DOMAIN es : es[i].status = s
  <2>1. pSummary.by[s] > 0 <=> \E i \in DOMAIN ds : ds[i].status = s
    BY <1>1 DEF DocumentsInv
  <2>2. (\E i \in DOMAIN es : es[i].status = s) <=> (d.status = s \/ \E i \in DOMAIN ds : ds[i].status = s)
    <3>1. 1..(n + 1) = (1..n) \cup {n + 1}
      BY <1>5
    <3> QED
      BY <1>5, <1>6, <1>7, <3>1
  <2>3. CASE d.status = s
    BY <1>8, <1>10, <1>11, <2>2, <2>3
  <2>4. CASE d.status # s
    BY <1>8, <1>11, <2>1, <2>2, <2>4
  <2> QED
    BY <2>3, <2>4
<1> QED
  BY <1>2, <1>6, <1>9, <1>12, <1>13 DEF DocumentsInv

(* Every step keeps DocumentsInv.                                            *)
LEMMA DocumentsNextInv == DocumentsInv /\ [Reports!Next]_Reports!vars => DocumentsInv'
<1> SUFFICES ASSUME DocumentsInv, [Reports!Next]_Reports!vars PROVE DocumentsInv'
  OBVIOUS
<1>1. CASE UNCHANGED <<pDocuments, pSummary>>
  BY <1>1 DEF DocumentsInv
<1>2. CASE \E s \in SequenceNumbers, m \in Notes \cup {Reports!None} : Reports!SetEventMetadata(s, m)
  BY <1>1, <1>2 DEF Reports!SetEventMetadata, Reports!docVars
<1>3. CASE \E s \in SequenceNumbers, m \in Notes : Reports!PushRecord(s, m)
  BY <1>1, <1>3 DEF Reports!PushRecord, Reports!docVars
<1>4. CASE Reports!Done \/ UNCHANGED Reports!vars
  BY <1>1, <1>4 DEF Reports!Done, Reports!vars, Reports!docVars
<1> QED
  BY <1>2, <1>3, <1>4, AddStep DEF Reports!Next

(* A report whose documents are counted agrees with its JUnit form.          *)
LEMMA CountedAgree == DocumentsInv => JunitAgrees
<1> SUFFICES ASSUME DocumentsInv PROVE JunitAgrees
  OBVIOUS
<1>1. PICK ds : ds = pDocuments
  OBVIOUS
<1>2. PICK n : n = Len(ds)
  OBVIOUS
<1>3. ds \in Seq(Reports!Documents)
  BY <1>1 DEF DocumentsInv
<1>4. n \in Nat /\ DOMAIN ds = 1..n
  BY <1>2, <1>3, LenProperties
<1>5. PICK v : v = DocFailures(ds)
  OBVIOUS
<1>6. PICK w : w = DocChecks(ds)
  OBVIOUS
<1>7. v = [i \in 1..n |-> Reports!Failures(ds[i])] /\ w = [i \in 1..n |-> Reports!ChecksFailed(ds[i])]
  BY <1>4, <1>5, <1>6 DEF DocFailures, DocChecks
<1>8. Len(v) = n /\ Len(w) = n
  BY <1>4, <1>7
<1>9. ASSUME NEW k \in 1..n
      PROVE  /\ v[k] \in Nat /\ w[k] \in Nat /\ w[k] <= v[k]
             /\ ds[k].status \in Reports!Failing => v[k] > 0
             /\ Reports!Honest(ds[k]) /\ v[k] > 0 => ds[k].status \in Reports!Failing \/ w[k] > 0
             /\ Reports!Plain(ds[k]) => v[k] = w[k]
  <2>1. ds[k] \in Reports!Documents
    BY <1>2, <1>3, ElementOfSeq
  <2>2. DocAgrees(ds[k])
    BY <2>1, DocumentAgrees
  <2>3. v[k] = Reports!Failures(ds[k]) /\ w[k] = Reports!ChecksFailed(ds[k])
    BY <1>7
  <2> QED
    BY <2>2, <2>3 DEF DocAgrees
<1>10. PICK x : x = UpTo(v, n)
  OBVIOUS
<1>11. PICK c : c = UpTo(w, n)
  OBVIOUS
<1>12. \A k \in 1..n : v[k] \in Nat /\ w[k] \in Nat /\ w[k] <= v[k]
  BY <1>9
<1>13. x \in Nat /\ c \in Nat
  BY <1>4, <1>10, <1>11, <1>12, UpToNat
<1>14. c <= x
  BY <1>4, <1>10, <1>11, <1>12, UpToLe
<1>15. x > 0 <=> \E k \in 1..n : v[k] > 0
  BY <1>4, <1>10, <1>12, UpToPositive
<1>16. c > 0 <=> \E k \in 1..n : w[k] > 0
  BY <1>4, <1>11, <1>12, UpToPositive
<1>17. Reports!Total(v) = x /\ pSummary.checks_failed = c
  BY <1>1, <1>6, <1>8, <1>10, <1>11, TotalIs DEF DocumentsInv
<1>18. Reports!Total([i \in DOMAIN pDocuments |-> Reports!Failures(pDocuments[i])]) = x
  BY <1>1, <1>5, <1>17 DEF DocFailures
<1>19. \A s \in Reports!Statuses : pSummary.by[s] > 0 <=> \E k \in 1..n : ds[k].status = s
  BY <1>1, <1>4 DEF DocumentsInv
<1>20. Reports!HasFailures <=> ((\E k \in 1..n : ds[k].status \in Reports!Failing) \/ c > 0)
  BY <1>17, <1>19 DEF Reports!HasFailures, Reports!Statuses, Reports!Failing
<1>21. Reports!HasFailures => x > 0
  <2>1. ASSUME NEW k \in 1..n, ds[k].status \in Reports!Failing PROVE x > 0
    BY <1>9, <1>15, <2>1
  <2> QED
    BY <1>13, <1>14, <1>20, <2>1
<1>22. ASSUME x > 0, \A k \in 1..n : Reports!Honest(ds[k]) PROVE Reports!HasFailures
  <2>1. PICK k \in 1..n : v[k] > 0
    BY <1>15, <1>22
  <2>2. ds[k].status \in Reports!Failing \/ w[k] > 0
    BY <1>9, <1>22, <2>1
  <2> QED
    BY <1>16, <1>20, <2>2
<1>23. ASSUME \A k \in 1..n : Reports!Plain(ds[k]) PROVE x = c
  <2>1. \A k \in 1..n : v[k] = w[k]
    BY <1>9, <1>23
  <2> QED
    BY <1>4, <1>10, <1>11, <2>1, UpToEqual
<1>24. DOMAIN pDocuments = 1..n
  BY <1>1, <1>4
<1>25. x >= pSummary.checks_failed
  BY <1>13, <1>14, <1>17
<1>26. x > 0 /\ (\A i \in DOMAIN pDocuments : Reports!Honest(pDocuments[i])) => Reports!HasFailures
  BY <1>1, <1>22, <1>24
<1>27. (\A i \in DOMAIN pDocuments : Reports!Plain(pDocuments[i])) => x = pSummary.checks_failed
  BY <1>1, <1>17, <1>23, <1>24
<1>28. Reports!JunitAgrees
  BY <1>18, <1>21, <1>25, <1>26, <1>27, Zenon DEF Reports!JunitAgrees
<1> QED
  BY <1>28 DEF JunitAgrees

(* JunitAgrees: for any number of documents, steps and checks, the JUnit     *)
(* form fails when the summary does, and the other way round unless a        *)
(* document hides an error; each failed check is one failed case, and where  *)
(* only checks failed there is no other.                                     *)
THEOREM JunitCorrect == Reports!Spec => []JunitAgrees
<1>1. Reports!Spec => []DocumentsInv
  BY DocumentsInitInv, DocumentsNextInv, PTL DEF Reports!Spec
<1> QED
  BY <1>1, CountedAgree, PTL

=============================================================================
