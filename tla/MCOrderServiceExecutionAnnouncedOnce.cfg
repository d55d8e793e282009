\* No faults are needed: the interleaving of requests and workers alone.
CONSTANTS
    Orders = {o1}
    Keys = {k1}
    Handlers = {h1, h2}
    PatchTargets = {"PENDING", "PROCESSING", "EXECUTED", "FAILED"}
    Faults = {}
    MaxEvents = 4
    NoOrder = NoOrder
    NoKey = NoKey
SPECIFICATION Spec
INVARIANT ExecutionAnnouncedOnce
CHECK_DEADLOCK FALSE
