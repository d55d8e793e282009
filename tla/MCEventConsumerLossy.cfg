\* A failing dead-letter topic is enough: no crash, no shutdown.
CONSTANTS
    NumEvents = 2
    Garbage = {}
    MaxTries = 2
    CloseFirst = FALSE
    ConsumerFaults = {"transient", "dlq"}
    MaxRestarts = 2
SPECIFICATION ConsumerSpec
INVARIANT ParkFailureIsSafe
CHECK_DEADLOCK FALSE
