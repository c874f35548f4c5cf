SPECIFICATION Spec
CONSTANTS
    Window = 8
    Parents <- Timeouts
    RetryAfters <- Intervals
    MaxLatency = 2
    DialTimeout = 4
    Second = 1
    HalfRange = 16
    Fallback = TRUE
INVARIANTS
    TypeOK
    EndsInTime
    NamesTheDeadline
    ReadyIsReported
    FollowsRetryInterval
