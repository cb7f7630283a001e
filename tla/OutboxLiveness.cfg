\* Two requests and two workers that are signalled but never killed, with the
\* fairness of supervised workers: liveness, and the growing backoff.
SPECIFICATION FairSpec
CONSTANTS
    k1 = k1
    Messages = {m1, m2}
    Workers = {w1, w2}
    NoKey = NoKey
    NoMessage = NoMessage
    Jobs <- RetryJobs
    Registered <- Topics
    BatchSize = 2
    RetryBase = 1
    MaxSignals = 1
    MaxCrashes = 0
INVARIANTS
    NothingStranded
PROPERTIES
    RetrySpacing
    AtLeastOnce
    ImplementsFairDelivery
\* An outbox with nothing left to do rests: polling changes no state.
CHECK_DEADLOCK FALSE
