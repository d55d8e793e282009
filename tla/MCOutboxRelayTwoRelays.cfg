\* Two relays: per-order ordering is lost.
CONSTANTS
    a1 = a1
    a2 = a2
    Aggregates = {a1, a2}
    NumRows = 3
    AggregateOf <- MCAggregateOf
    Replicas = {r1, r2}
    BatchSize = 2
    MaxAttempts = 2
    RelayFaults = {"publish"}
    MaxSends = 3
SPECIFICATION Spec
INVARIANTS PublishedInOrder
CHECK_DEADLOCK FALSE
