\* Every outcome of three requests and two workers, one of which may
\* be killed.
SPECIFICATION Spec
CONSTANTS
    k1 = k1
    Messages = {m1, m2, m3}
    Workers = {w1, w2}
    NoKey = NoKey
    NoMessage = NoMessage
    Jobs <- MixedJobs
    Registered <- Topics
    BatchSize = 2
    RetryBase = 1
    MaxSignals = 0
    MaxCrashes = 1
SYMMETRY Symmetry
INVARIANTS
    TypeOK
    ExclusiveClaim
    OneMessagePerKey
    CommittedWorkIsQueued
    RunsWithinAttempts
PROPERTIES
    ImplementsDelivery
\* An outbox with nothing left to do rests: polling changes no state.
CHECK_DEADLOCK FALSE
