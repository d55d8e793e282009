---------------------------- MODULE EventConsumer ----------------------------
(***************************************************************************)
(* The Kafka consumer loop that portfolio-service and notification-service *)
(* share in all but names: fetch an event, hand it to the service with    *)
(* bounded retries, park it on the dead-letter topic when it cannot be    *)
(* handled, and commit its offset only after one or the other.             *)
(*                                                                         *)
(* One partition of order_events, with the group member that owns it.  The *)
(* events are all on the log from the start: a reader that has caught up   *)
(* only waits.  A restart is a new process, or the group's rebalance to    *)
(* another one: it resumes at the committed offset.  There is one from the *)
(* start: before a group's first commit a reader begins at StartOffset     *)
(* instead, the end of the log by default, which is left out here.  What    *)
(* handling an event does is left to the modules that extend this one.     *)
(***************************************************************************)
EXTENDS Naturals, FiniteSets

CONSTANTS
    NumEvents,      \* events on the partition, at offsets 1..NumEvents
    Garbage,        \* offsets whose payload does not parse
    MaxTries,       \* handler attempts per delivery
    CloseFirst,     \* whether shutdown closes the reader before the loop ends
    ConsumerFaults, \* the faults of this environment
    MaxRestarts     \* bound: shutdowns, crashes and rebalances

Offsets == 1..NumEvents

ConsumerFaultKinds ==
    {"transient", "permanent", "dlq", "commit", "crash", "rebalance", "signal"}

ASSUME ConsumerAssumption ==
    /\ NumEvents \in Nat
    /\ Garbage \subseteq Offsets
    /\ MaxTries \in Nat \ {0}
    /\ CloseFirst \in BOOLEAN
    /\ ConsumerFaults \subseteq ConsumerFaultKinds
    /\ MaxRestarts \in Nat

VARIABLES
    committed,   \* the group's offset: the next event a restart would read
    position,    \* the next event this reader will fetch
    pc,          \* where the loop is
    current,     \* the event being processed
    attempt,     \* the attempt it is on
    stopping,    \* the process has had SIGTERM: its context is cancelled
    closed,      \* its reader is closed
    restarts,    \* shutdowns, crashes and rebalances so far
    handled,     \* history: the events the service has handled successfully
    parked,      \* the events on the dead-letter topic
    parkFailed   \* history: the events whose park has returned an error

loopVars == <<committed, position, pc, current, attempt>>
processVars == <<stopping, closed, restarts>>
historyVars == <<handled, parked, parkFailed>>
consumerVars == <<loopVars, processVars, historyVars>>

Pc == {"fetch", "apply", "backoff", "park", "commit", "stopped"}

ConsumerInit ==
    /\ committed = 1
    /\ position = 1
    /\ pc = "fetch"
    /\ current = 1
    /\ attempt = 1
    /\ stopping = FALSE
    /\ closed = FALSE
    /\ restarts = 0
    /\ handled = {}
    /\ parked = {}
    /\ parkFailed = {}

------------------------------------------------------------------------------
(* The loop *)

\* FetchMessage may still return a buffered event after the cancellation.
Fetch ==
    /\ pc = "fetch"
    /\ ~closed
    /\ position \in Offsets
    /\ current' = position
    /\ position' = position + 1
    /\ attempt' = 1
    /\ pc' = IF position \in Garbage THEN "park" ELSE "apply"
    /\ UNCHANGED <<committed, processVars, historyVars>>

\* The handler returned nil.
Succeed ==
    /\ pc = "apply"
    /\ handled' = handled \cup {current}
    /\ pc' = "commit"
    /\ UNCHANGED <<committed, position, current, attempt, processVars,
                   parked, parkFailed>>

\* A bug: a permanent error is taken for a skip, and the offset moves on.
RefuseUnparked ==
    /\ pc = "apply"
    /\ pc' = "commit"
    /\ UNCHANGED <<committed, position, current, attempt, processVars,
                   historyVars>>

\* The handler's error wraps ErrPermanent: no retry.
Refuse ==
    /\ pc = "apply"
    /\ pc' = "park"
    /\ UNCHANGED <<committed, position, current, attempt, processVars,
                   historyVars>>

\* A bug: one attempt too many.
FailLate ==
    /\ pc = "apply"
    /\ pc' = IF attempt > MaxTries THEN "park" ELSE "backoff"
    /\ UNCHANGED <<committed, position, current, attempt, processVars,
                   historyVars>>

\* A bug: after the last attempt the loop goes on to the next event.
FailAbandons ==
    /\ pc = "apply"
    /\ pc' = IF attempt = MaxTries THEN "fetch" ELSE "backoff"
    /\ UNCHANGED <<committed, position, current, attempt, processVars,
                   historyVars>>

\* Any other error: back off, or park after the last attempt.
Fail ==
    /\ pc = "apply"
    /\ pc' = IF attempt = MaxTries THEN "park" ELSE "backoff"
    /\ UNCHANGED <<committed, position, current, attempt, processVars,
                   historyVars>>

\* A bug: the attempt is not counted, so the event is retried for ever.
RetryUncounted ==
    /\ pc = "backoff"
    /\ pc' = "apply"
    /\ UNCHANGED <<committed, position, current, attempt, processVars,
                   historyVars>>

Retry ==
    /\ pc = "backoff"
    /\ attempt' = attempt + 1
    /\ pc' = "apply"
    /\ UNCHANGED <<committed, position, current, processVars, historyVars>>

\* The wait ends early on shutdown.  The retry loop returns its error, and the
\* caller treats it as any other: it goes on to park the event.
Interrupt ==
    /\ pc = "backoff"
    /\ stopping
    /\ pc' = "park"
    /\ UNCHANGED <<committed, position, current, attempt, processVars,
                   historyVars>>

\* The publish to the dead-letter topic runs on a detached context, so it goes
\* through during a shutdown too.
Park ==
    /\ pc = "park"
    /\ parked' = parked \cup {current}
    /\ pc' = "commit"
    /\ UNCHANGED <<committed, position, current, attempt, processVars,
                   handled, parkFailed>>

\* It fails, with or without the record on the topic: no commit, next event.
ParkFails ==
    /\ "dlq" \in ConsumerFaults
    /\ pc = "park"
    /\ parkFailed' = parkFailed \cup {current}
    /\ parked' \in {parked, parked \cup {current}}
    /\ pc' = "fetch"
    /\ UNCHANGED <<committed, position, current, attempt, processVars, handled>>

\* The group's offset becomes the one after current, whatever it was.
Commit ==
    /\ pc = "commit"
    /\ ~closed
    /\ committed' = current + 1
    /\ pc' = "fetch"
    /\ UNCHANGED <<position, current, attempt, processVars, historyVars>>

\* A failed commit is only logged.
CommitFails ==
    /\ pc = "commit"
    /\ closed \/ "commit" \in ConsumerFaults
    /\ pc' = "fetch"
    /\ UNCHANGED <<committed, position, current, attempt, processVars,
                   historyVars>>

------------------------------------------------------------------------------
(* The process *)

Signal ==
    /\ "signal" \in ConsumerFaults
    /\ ~stopping
    /\ restarts < MaxRestarts
    /\ restarts' = restarts + 1
    /\ stopping' = TRUE
    /\ UNCHANGED <<loopVars, closed, historyVars>>

\* The fetch returns the cancellation, or the reader is closed under it.
Stop ==
    /\ pc = "fetch"
    /\ stopping
    /\ pc' = "stopped"
    /\ UNCHANGED <<committed, position, current, attempt, processVars,
                   historyVars>>

\* main closes the reader: portfolio-service at once, notification-service
\* after its loop has ended.
Close ==
    /\ stopping
    /\ ~closed
    /\ CloseFirst \/ pc = "stopped"
    /\ closed' = TRUE
    /\ UNCHANGED <<loopVars, stopping, restarts, historyVars>>

\* A new process takes over at the committed offset: after a shutdown has run
\* out (its budget does not wait for the loop), or after a crash, or when the
\* group moves the partition to another replica.
Restart ==
    /\ \/ closed /\ UNCHANGED restarts
       \/ /\ "crash" \in ConsumerFaults
          /\ restarts < MaxRestarts
          /\ restarts' = restarts + 1
    /\ position' = committed
    /\ pc' = "fetch"
    /\ stopping' = FALSE
    /\ closed' = FALSE
    /\ UNCHANGED <<committed, current, attempt, historyVars>>

\* The group rebalances and this process keeps the partition: the event being
\* processed goes on, and what is fetched next is the committed offset again.
Rejoin ==
    /\ "rebalance" \in ConsumerFaults
    /\ restarts < MaxRestarts
    /\ ~closed
    /\ restarts' = restarts + 1
    /\ position' = committed
    /\ UNCHANGED <<committed, pc, current, attempt, stopping, closed,
                   historyVars>>

------------------------------------------------------------------------------
LoopStep ==
    \/ Fetch \/ Retry \/ Interrupt \/ Park \/ ParkFails
    \/ Commit \/ CommitFails \/ Stop

ProcessStep == Signal \/ Close \/ Restart \/ Rejoin

\* A handler about which nothing is known.
HandlerStep ==
    \/ Succeed
    \/ "permanent" \in ConsumerFaults /\ Refuse
    \/ "transient" \in ConsumerFaults /\ Fail

ConsumerNext == LoopStep \/ HandlerStep \/ ProcessStep

ConsumerSpec == ConsumerInit /\ [][ConsumerNext]_consumerVars

\* The loop runs on, and a service that was stopped is started again.
ConsumerFairness ==
    /\ WF_consumerVars(LoopStep \/ HandlerStep)
    /\ WF_consumerVars(Close)
    /\ WF_consumerVars(closed /\ Restart)

FairConsumerSpec == ConsumerSpec /\ ConsumerFairness

------------------------------------------------------------------------------
(* Properties *)

TypeOK ==
    /\ committed \in 1..(NumEvents + 1)
    /\ position \in 1..(NumEvents + 1)
    /\ pc \in Pc
    /\ current \in 1..(NumEvents + 1)
    /\ attempt \in 1..MaxTries
    /\ stopping \in BOOLEAN
    /\ closed \in BOOLEAN
    /\ restarts \in 0..MaxRestarts
    /\ handled \subseteq Offsets
    /\ parked \subseteq Offsets
    /\ parkFailed \subseteq Offsets

\* The header's promise, with the exception the code makes: the offset moves
\* past an event only once it is handled or parked, or its park has failed and
\* been reported.  Crashes, lost commits and shutdowns do not break it.
NothingSkippedSilently ==
    \A i \in Offsets :
        i < committed => i \in handled \cup parked \cup parkFailed

\* Events take effect in log order: none is handled for the first time before
\* every earlier one has been handled, parked, or has failed to park.
HandledInOrder ==
    \A i \in handled, j \in Offsets :
        j < i => j \in handled \cup parked \cup parkFailed

\* A poison event does not hold up the partition: every event is reached.
EveryEventReached ==
    \A i \in Offsets : <>(i \in handled \cup parked \cup parkFailed)

\* deadLetter's comment: "If the park fails the offset is left alone, so the
\* event is still on the source topic and will be redelivered".
ParkFailureIsSafe ==
    \A i \in Offsets : i < committed => i \in handled \cup parked
==============================================================================
