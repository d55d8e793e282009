\* No store faults, but every budget of the shutdown can run out.  PROCESSING is
\* left out of PatchTargets: SettlesUnlessCutOff is stated for that case.
CONSTANTS
    Orders = {o1, o2}
    Keys = {k1}
    Handlers = {h1, h2}
    PatchTargets = {"EXECUTED", "FAILED"}
    Faults = {}
    MaxEvents = 3
    NoOrder = NoOrder
    NoKey = NoKey
    RelayBatch = 2
    Budgets = {"requests", "flush", "broker"}
SPECIFICATION FairProcessSpec
INVARIANTS
    RedisAgreesWithOrders
    NothingLeftBehind
    OnlyLateRequestsAreCut
PROPERTIES
    SettlesUnlessCutOff
    ShutdownEnds
CHECK_DEADLOCK FALSE
