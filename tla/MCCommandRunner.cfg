SPECIFICATION FairSpec
CONSTANTS
    Limit = 2
    Deadline = 1
    MaxWrite = 2
    Buffer = 2
INVARIANTS
    SuccessIsComplete
    UnflaggedIsWhole
    CutoffKillsGroup
PROPERTIES
    BudgetSpec
    AlwaysReturns
