SPECIFICATION MCSpec
CONSTANTS
    Hosts <- MCHosts
    Addresses <- MCAddresses
    Policies <- MCPolicies
    Plans <- MCPlans
    MaxRedirs = 1
    MaxRetries = 1
    MaxLen = 4
    Bytes = {"ascii", "c2", "e0", "ed", "f0", "f4", "80", "90", "a0"}
    Names = {"a", "b"}
    MaxDepth = 3
    Trees <- MCTrees
    RootSets <- MCRootSets
    MaxBytes = 2
    MaxGrowth = 3
    MaxOthers = 1
    MaxPiece = 2
    Recorders = {w1, w2}
    Replayers = {r1}
    Configs = {c1, c2}
    Old = Old
    Nothing = Nothing
    MaxDocuments = 2
    MaxSteps = 1
    MaxChecks = 1
    SequenceNumbers = {1, 2, 3}
    Notes = {"m", "n"}
    MaxRecords = 4
INVARIANTS
    EgressConfined
    BodyKindRight
    FilesConfined
    RecordingsSurvive
    StrictReplayRunsRecorded
    JunitAgrees
    MetadataFollowsEvent
