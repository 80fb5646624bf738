SPECIFICATION MCSpec
CONSTANTS
    MaxRetries = 2
    MaxRedirs = 1
    Threshold = 1
    MaxBody = 3
    MaxChunk = 2
    MaxCalls = 3
    MaxHeader = 1
INVARIANTS
    SinkHoldsBody
    CancelStopsRetrying
    AttemptsAreFresh
    DeadlineStopsRetrying
    SessionReusable
    ResultIsOwn
PROPERTIES
    RetrySpec
    CallsReturn
