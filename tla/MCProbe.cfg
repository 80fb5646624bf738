SPECIFICATION Spec
CONSTANTS
    MaxSends = 2
    MaxJobs = 1
    TimerIds = {1, 2}
    MaxLogs = 1
INVARIANTS
    VerdictIsFinal
PROPERTY
    ProbeEnds
