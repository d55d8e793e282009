\* Two relays and every fault.
CONSTANTS
    a1 = a1
    a2 = a2
    Aggregates = {a1, a2}
    NumRows = 3
    AggregateOf <- MCAggregateOf
    Replicas = {r1, r2}
    BatchSize = 2
    MaxAttempts = 2
    RelayFaults = {"publish", "unseen", "rollback", "requeue"}
    MaxSends = 2
SPECIFICATION Spec
INVARIANTS TypeOK ProcessedIsPublished BatchesDisjoint
CHECK_DEADLOCK FALSE
