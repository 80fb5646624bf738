SPECIFICATION MCSpec
CONSTANTS
    Keys = {"token", "b", "c"}
    SecretNames = {"token"}
    Values = {"", "s1", "s2", "s3"}
    EmptyText = ""
    Others = {"a number", "an object"}
    Inside <- MCInside
    Documents <- MCDocuments
    Configs <- MCConfigs
    Options <- MCOptions
    Files <- MCFiles
    Markdown = {"x"}
    Pruned = {"v"}
    Inputs <- MCArguments
    IgnoreFiles <- MCIgnoreFiles
    Names = {login, list}
    MaxLines = 6
    MaxSteps = 2
    MaxArgs = 4
    MaxBody = 3
    Overhead = 1
    Lengths = {1, 3}
SYMMETRY NameSymmetry
INVARIANTS
    SecretsCollected
    DiscoveryExact
    ReadersAgreeOnPlain
    BodyLimitExact
    PlansAgree
