------------------------------ MODULE MCEffects ------------------------------
(***************************************************************************)
(* TLC instance of what a command does outside its process: Egress, the    *)
(* URLs and addresses it connects to; Bodies (module ResponseBody), the    *)
(* bodies it takes in; Disk (module PolicyFiles), the files it reads and   *)
(* writes for a transfer; Records (module Recording), the recordings it    *)
(* makes and replays; and Reports (module Report), its report.             *)
(*                                                                         *)
(* Two recorders and one replay share a path, and the configuration is     *)
(* edited between two states.  A behaviour is one of one component; the    *)
(* variables of the others keep their initial values.                      *)
(***************************************************************************)
EXTENDS Egress

CONSTANTS MaxLen, Bytes,                                   \* of ResponseBody
          Names, MaxDepth, Trees, RootSets, MaxBytes, MaxGrowth, MaxOthers, \* of PolicyFiles
          MaxPiece,                                        \* of both
          Recorders, Replayers, Configs, Old, Nothing,     \* of Recording
          MaxDocuments, MaxSteps, MaxChecks, SequenceNumbers, Notes,
          MaxRecords                                       \* of Report

(* A process is no empty place: the value for "no file" is no recorder.      *)
ASSUME NothingAssumption == Nothing \notin Recorders \cup {Old}

B == Named(<<"b">>)
AB == Named(<<"a", "b">>)
Public == V4("other")
Loopback == V4("loopback")

MCHosts == {B, AB, Named(<<"localhost">>), Literal4("127.0.0.1", Loopback), Literal4("9.9.9.9", Public),
            Literal6("::ffff:10.0.0.1", Embedded("mapped", "private"))}
Loopback6 == V6("loopback")
MCAddresses == {Public, Loopback, Loopback6}

Rules(private, allowed, denied) ==
    [schemes |-> {"https"}, hosts |-> <<>>, allowed |-> allowed, denied |-> denied,
     private |-> private, proxy |-> TRUE, resolve |-> TRUE, connectTo |-> ~private]
MCPolicies ==
    {Rules(private, allowed, {}) : private \in BOOLEAN,
        allowed \in {{}, {[wild |-> TRUE, labels |-> <<"b">>]}}}
    \cup {Rules(FALSE, {[wild |-> TRUE, labels |-> <<>>]}, {[wild |-> FALSE, labels |-> <<"a", "b">>]})}

MCPlans ==
    [follow : BOOLEAN, retries : {0, MaxRetries},
     resolve : {None, Pin(B, Loopback), Pin(B, Public)},
     connectTo : {None, ConnectTo(B, AB)},
     proxy : {None, AB, Literal4("127.0.0.1", Loopback)}]

Base == {<<>>, <<"a">>, <<"b">>}
Tree(d, f, l) == [dirs |-> d, files |-> f, links |-> l]
NoLinks == [p \in {} |-> p]
LinkTo(from, to) == [p \in {from} |-> to]
MCTrees ==
    {Tree(Base, {}, NoLinks), Tree(Base \cup {<<"a", "b">>}, {<<"a", "a">>}, NoLinks),
     Tree({<<>>, <<"b">>, <<"b", "b">>}, {<<"b", "a">>}, LinkTo(<<"a">>, <<"b">>)),
     Tree(Base, {<<"b", "a">>}, LinkTo(<<"a", "b">>, <<"b">>)),
     Tree(Base, {}, LinkTo(<<"a", "b">>, <<"b", "b">>)), Tree(Base, {}, LinkTo(<<"a", "b">>, <<"a">>)),
     Tree(Base \cup {<<"a", "a">>}, {<<"a", "a", "b">>}, LinkTo(<<"a", "b">>, <<"a", "a">>))}
MCRootSets == {{}, {<<"a">>}, {<<"a", "b">>}, {<<"b">>, <<"a", "a">>}}

VARIABLES
    effect,
    bBody, bIgnoring, bKeeping, bFile, bPc, bAt, bUtf8, bMetadata, bResult,
    fOp, fRoots, fAllowed, fPath, fDirs, fFiles, fLinks, fLength, fPc, fBytes, fParent,
    fWritten, fResult, fOthers,
    cConfig, cSource, cManifest, cForce, cRec, cStrict, cRep,
    pPart, pDocuments, pSummary, pEvent_metadata, pLatest

Bodies == INSTANCE ResponseBody WITH
    body <- bBody, ignoring <- bIgnoring, keeping <- bKeeping, file <- bFile, pc <- bPc,
    at <- bAt, utf8 <- bUtf8, metadata <- bMetadata, result <- bResult

Disk == INSTANCE PolicyFiles WITH
    op <- fOp, roots <- fRoots, allowed <- fAllowed, path <- fPath, dirs <- fDirs,
    files <- fFiles, links <- fLinks, length <- fLength, pc <- fPc, bytes <- fBytes,
    parent <- fParent, written <- fWritten, result <- fResult, others <- fOthers

Records == INSTANCE Recording WITH
    config <- cConfig, source <- cSource, manifest <- cManifest, force <- cForce,
    rec <- cRec, strict <- cStrict, rep <- cRep, None <- Nothing

Reports == INSTANCE Report WITH
    part <- pPart, documents <- pDocuments, summary <- pSummary,
    event_metadata <- pEvent_metadata, latest <- pLatest

(* Sequence numbers are u64, and metadata that is set is not empty.          *)
ASSUME ReportAssumption == SequenceNumbers \subseteq Nat /\ Reports!None \notin Notes

(* The bytes of a body are of the classes the validator tells apart.         *)
ASSUME BytesAssumption == Bytes \subseteq Bodies!Classes /\ MaxLen \in Nat /\ MaxPiece \in Nat

(* A file system: every directory lies in directories up to the root, every  *)
(* link in a directory; no name is the word for a missing file.              *)
IsTree(d, f, l) ==
    /\ <<>> \in d /\ d \cup f \cup DOMAIN l \subseteq Seq(Names \cup {Disk!Unsafe})
    /\ \A p \in d : Prefixes(p) \subseteq d
    /\ \A p \in DOMAIN l : p # <<>> /\ Front(p) \in d
ASSUME TreesAssumption ==
    /\ "missing" \notin Names /\ MaxBytes \in Nat
    /\ \A rs \in RootSets : rs \subseteq Seq(Names \cup {Disk!Unsafe})
    /\ \A t \in Trees : IsTree(t.dirs, t.files, t.links)

bodiesVars == <<bBody, bIgnoring, bKeeping, bFile, bPc, bAt, bUtf8, bMetadata, bResult>>
diskVars == <<fOp, fRoots, fAllowed, fPath, fDirs, fFiles, fLinks, fLength, fPc, fBytes,
              fParent, fWritten, fResult, fOthers>>
recordsVars == <<cConfig, cSource, cManifest, cForce, cRec, cStrict, cRep>>
reportsVars == <<pPart, pDocuments, pSummary, pEvent_metadata, pLatest>>
allVars == <<effect, vars, bodiesVars, diskVars, recordsVars, reportsVars>>

(* A component that is not the one of the behaviour keeps one initial state. *)
Resting ==
    /\ mode = "fetch" /\ policy = (CHOOSE p \in Policies : TRUE)
    /\ target = (CHOOSE u \in Urls : TRUE)
    /\ Init
BodiesRests ==
    /\ bBody = <<>> /\ bFile = <<>> /\ bIgnoring = FALSE /\ bKeeping = FALSE /\ bPc = "drain"
    /\ bAt = 0 /\ bUtf8 = Bodies!Start /\ bMetadata = Bodies!None /\ bResult = Bodies!None
DiskRests ==
    /\ fOp = "read" /\ fAllowed = FALSE /\ fRoots = {} /\ fPath = <<"a">>
    /\ fDirs = Base /\ fFiles = {} /\ fLinks = NoLinks
    /\ Disk!Init
RecordsRests ==
    /\ cConfig = (CHOOSE c \in Configs : TRUE) /\ cSource = Nothing /\ cManifest = Nothing
    /\ cForce = [w \in Recorders |-> FALSE] /\ cStrict = [r \in Replayers |-> FALSE]
    /\ Records!Init
ReportsRests ==
    /\ pPart = "events" /\ Reports!Init

MCInit ==
    \/ effect = "egress" /\ Init /\ BodiesRests /\ DiskRests /\ RecordsRests /\ ReportsRests
    \/ effect = "body" /\ Resting /\ Bodies!Init /\ DiskRests /\ RecordsRests /\ ReportsRests
    \/ effect = "files" /\ Resting /\ BodiesRests /\ Disk!Init /\ RecordsRests /\ ReportsRests
    \/ effect = "record" /\ Resting /\ BodiesRests /\ DiskRests /\ Records!Init /\ ReportsRests
    \/ effect = "report" /\ Resting /\ BodiesRests /\ DiskRests /\ RecordsRests /\ Reports!Init

MCNext ==
    \/ effect = "egress" /\ Next /\ UNCHANGED <<effect, bodiesVars, diskVars, recordsVars, reportsVars>>
    \/ effect = "body" /\ Bodies!Next /\ UNCHANGED <<effect, vars, diskVars, recordsVars, reportsVars>>
    \/ effect = "files" /\ Disk!Next /\ UNCHANGED <<effect, vars, bodiesVars, recordsVars, reportsVars>>
    \/ effect = "record" /\ Records!Next /\ UNCHANGED <<effect, vars, bodiesVars, diskVars, reportsVars>>
    \/ effect = "report" /\ Reports!Next /\ UNCHANGED <<effect, vars, bodiesVars, diskVars, recordsVars>>

MCSpec == MCInit /\ [][MCNext]_allVars

-----------------------------------------------------------------------------
(* ResponseBody: however the reads cut a body, it is classified as the whole *)
(* body is, and shown as that.                                               *)
BodyKindRight == Bodies!BodyKindRight

(* PolicyFiles: files are only written under a root of the policy and bodies *)
(* never over anything, whatever links are on the way; a body read from a    *)
(* file is complete or refused.                                              *)
FilesConfined == Disk!FilesConfined

(* Recording: without --force a recording that was reported as written       *)
(* stays.                                                                    *)
RecordingsSurvive == Records!RecordingsSurvive

(* Recording: a strict replay runs only a source whose recording was         *)
(* completed.                                                                *)
StrictReplayRunsRecorded == Records!StrictReplayRunsRecorded

(* Report: the JUnit form and the summary agree on failures.                 *)
JunitAgrees == Reports!JunitAgrees

(* Report: an event shows the metadata that was last set for it.             *)
MetadataFollowsEvent == Reports!MetadataFollowsEvent
=============================================================================
