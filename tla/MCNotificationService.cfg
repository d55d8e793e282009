\* Every fault of the consumer, and a provider that can fail on one delivery.
CONSTANTS
    processing = processing
    executed = executed
    failed = failed
    other = other
    alien = alien
    email = email
    sms = sms
    Events = {processing, executed, failed, other, alien}
    EventAt <- MCEventAt
    Terminal = {executed, failed}
    Unrelated = {other}
    Invalid = {alien}
    Channels <- MCChannels
    Reachable <- MCReachable
    SeenCap = 3
    SendFaults <- MCSendFaults
    NumEvents = 7
    Garbage = {4}
    MaxTries = 2
    CloseFirst = FALSE
    ConsumerFaults = {"dlq", "commit", "crash", "rebalance", "signal"}
    MaxRestarts = 2
SPECIFICATION Spec
INVARIANTS NotifierTypeOK SentOncePerProcess PassedMeansDelivered
CHECK_DEADLOCK FALSE
