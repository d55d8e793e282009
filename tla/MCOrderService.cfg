\* Every fault, two orders that compete for one key, two concurrent requests.
CONSTANTS
    Orders = {o1, o2}
    Keys = {k1}
    Handlers = {h1, h2}
    PatchTargets = {"PENDING", "PROCESSING", "EXECUTED", "FAILED"}
    Faults = {"db", "redis", "crash", "expiry"}
    MaxEvents = 4
    NoOrder = NoOrder
    NoKey = NoKey
SPECIFICATION Spec
INVARIANTS
    TypeOK
    EventsMatchOrder
    NoSplitDecision
    OneExecutionPerKey
    ProcessedMeansExecuted
PROPERTIES
    ImplementsLifecycle
CHECK_DEADLOCK FALSE
