\* The liveness instance with one worker that may be killed once and is restarted.
SPECIFICATION FairSpec
CONSTANTS
    k1 = k1
    Messages = {m1, m2}
    Workers = {w1}
    NoKey = NoKey
    NoMessage = NoMessage
    Jobs <- RetryJobs
    Registered <- Topics
    BatchSize = 2
    RetryBase = 1
    MaxSignals = 0
    MaxCrashes = 1
PROPERTY
    AtLeastOnce
CHECK_DEADLOCK FALSE
