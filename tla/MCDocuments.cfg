SPECIFICATION MCSpec
CONSTANTS
    Names = {"base", "token", "a", "b", "c", "x y"}
    InvalidNames = {"x y"}
    SecretNames = {"token"}
    InitialNames = {"base"}
    Objects <- MCObjects
    StepPlans <- MCStepPlans
    MaxSteps = 3
    CaptureBudget = 4
    Paths = 2
    MaxItems = 4
    Keys = {"a"}
    BadKey = "1x"
    JsonValues = {1, 2}
    MaxChecks = 2
    MaxCaptures = 2
INVARIANTS
    CapturesAllOrNothing
    ExitZeroMeansVerified
    PassedMeansVerified
    ContextIsCurrent
