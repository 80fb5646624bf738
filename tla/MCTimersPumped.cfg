SPECIFICATION Spec
CONSTANTS
    MaxSends = 2
    MaxJobs = 1
    TimerIds = {1, 2}
    MaxLogs = 1
CHECK_DEADLOCK FALSE
INVARIANTS
    TimersPumped
