\* One relay, every fault: per-order ordering, and liveness while publishing may
\* fail for ever.
CONSTANTS
    a1 = a1
    a2 = a2
    Aggregates = {a1, a2}
    NumRows = 3
    AggregateOf <- MCAggregateOf
    Replicas = {r1}
    BatchSize = 2
    MaxAttempts = 2
    RelayFaults = {"publish", "unseen", "rollback", "requeue"}
    MaxSends = 3
SPECIFICATION FairSpec
INVARIANTS PublishedInOrder
PROPERTIES Drains
CHECK_DEADLOCK FALSE
