------------------------- MODULE NotificationService -------------------------
(***************************************************************************)
(* notification-service: the consumer loop with the notifier as its        *)
(* handler.  The notifier suppresses events whose id it has seen, ignores  *)
(* intermediate statuses, and sends a terminal one over every channel in   *)
(* turn.  The relay is at-least-once, so one event may be on the log at    *)
(* several offsets.                                                         *)
(***************************************************************************)
EXTENDS EventConsumer, Sequences

CONSTANTS
    Events,     \* event ids
    EventAt,    \* the event at each offset
    Terminal,   \* events whose order is EXECUTED or FAILED
    Unrelated,  \* events of another event type
    Invalid,    \* events Validate rejects: wrong version, no order id
    Channels,   \* the configured channels, in order
    Reachable,  \* the <<event, channel>> pairs with an address on file
    SeenCap,
    SendFaults  \* the deliveries a provider can fail

ASSUME NotifierAssumption ==
    /\ EventAt \in [Offsets -> Events]
    /\ Len(Channels) \in Nat
    /\ Terminal \subseteq Events
    /\ Unrelated \subseteq Events
    /\ Invalid \subseteq Events \ Unrelated
    /\ Reachable \subseteq Events \X {Channels[i] : i \in 1..Len(Channels)}
    /\ SendFaults \subseteq Reachable
    /\ SeenCap \in Nat

VARIABLES
    seen,       \* the ids in this process's seen-set
    sending,    \* the next channel of the event being handled; 0 when none
    sent,       \* per event and channel, messages sent by this process
    delivered   \* history: the <<event, channel>> pairs ever delivered

vars == <<consumerVars, seen, sending, sent, delivered>>
notifierVars == <<seen, sending, sent, delivered>>

ChannelNames == {Channels[i] : i \in 1..Len(Channels)}
Deliveries == Events \X ChannelNames

Init ==
    /\ ConsumerInit
    /\ seen = {}
    /\ sending = 0
    /\ sent = [d \in Deliveries |-> 0]
    /\ delivered = {}

Event == EventAt[current]

\* A bug: the id is never remembered.
MarkNothing(e) == UNCHANGED seen

\* alreadyHandled's write: a full set is emptied before the id goes in.
MarkSeen(e) ==
    seen' = (IF Cardinality(seen) >= SeenCap THEN {} ELSE seen) \cup {e}

------------------------------------------------------------------------------
(* Handle, from the check of the envelope to the last channel *)

Entering == pc = "apply" /\ sending = 0

IgnoreUnrelated ==
    /\ Entering
    /\ Event \in Unrelated
    /\ Succeed
    /\ UNCHANGED notifierVars

Reject ==
    /\ Entering
    /\ Event \in Invalid
    /\ Refuse
    /\ UNCHANGED notifierVars

SuppressDuplicate ==
    /\ Entering
    /\ Event \in seen
    /\ Succeed
    /\ UNCHANGED notifierVars

IgnoreProgress ==
    /\ Entering
    /\ Event \notin Unrelated \cup Invalid \cup seen \cup Terminal
    /\ MarkSeen(Event)
    /\ Succeed
    /\ UNCHANGED <<sending, sent, delivered>>

StartSending ==
    /\ Entering
    /\ Event \in Terminal \ (Unrelated \cup Invalid \cup seen)
    /\ MarkSeen(Event)
    /\ sending' = 1
    /\ UNCHANGED <<consumerVars, sent, delivered>>

Sending == sending \in 1..Len(Channels)
Delivery == <<Event, Channels[sending]>>

Send ==
    /\ Sending
    /\ Delivery \in Reachable
    /\ sent' = [sent EXCEPT ![Delivery] = @ + 1]
    /\ delivered' = delivered \cup {Delivery}
    /\ sending' = sending + 1
    /\ UNCHANGED <<consumerVars, seen>>

\* A bug: a channel without an address ends the loop.
SkipRest ==
    /\ Sending
    /\ Delivery \notin Reachable
    /\ sending' = Len(Channels) + 1
    /\ UNCHANGED <<consumerVars, seen, sent, delivered>>

\* ErrNoAddress: the channel is skipped.
SkipChannel ==
    /\ Sending
    /\ Delivery \notin Reachable
    /\ sending' = sending + 1
    /\ UNCHANGED <<consumerVars, seen, sent, delivered>>

\* A provider failure ends Handle with a retryable error.  The id stays in the
\* seen-set, so the retry finds a duplicate and succeeds without sending.
SendFails ==
    /\ Sending
    /\ Delivery \in SendFaults
    /\ sending' = 0
    /\ Fail
    /\ UNCHANGED <<seen, sent, delivered>>

\* A bug: the channel counter is not reset.
FinishUnreset ==
    /\ sending = Len(Channels) + 1
    /\ Succeed
    /\ UNCHANGED notifierVars

FinishSending ==
    /\ sending = Len(Channels) + 1
    /\ sending' = 0
    /\ Succeed
    /\ UNCHANGED <<seen, sent, delivered>>

Handle ==
    \/ IgnoreUnrelated \/ Reject \/ SuppressDuplicate \/ IgnoreProgress
    \/ StartSending
    \/ Send \/ SkipChannel \/ SendFails \/ FinishSending

\* The partition's next owner is a new process, with an empty seen-set.
RestartEmpty ==
    /\ Restart
    /\ seen' = {}
    /\ sending' = 0
    /\ sent' = [d \in Deliveries |-> 0]
    /\ UNCHANGED delivered

\* This service's own loop and process.
ConsumerLoop == LoopStep /\ UNCHANGED notifierVars
Process == (Signal \/ Close \/ Rejoin) /\ UNCHANGED notifierVars

Next ==
    \/ ConsumerLoop
    \/ Handle
    \/ Process
    \/ RestartEmpty

Spec == Init /\ [][Next]_vars

------------------------------------------------------------------------------
(* Properties *)

NotifierTypeOK ==
    /\ TypeOK
    /\ seen \subseteq Events
    /\ sending \in 0..(Len(Channels) + 1)
    /\ sending # 0 => pc = "apply"
    /\ sent \in [Deliveries -> Nat]
    /\ delivered \subseteq Deliveries

\* One process never sends one event twice over one channel: not on a retry
\* after a later channel failed, not when the relay published the event twice,
\* not when the group rebalances.  It holds until the seen-set is full.
SentOncePerProcess == \A d \in Deliveries : sent[d] <= 1

\* kafka.go: "In every one of those the offset moves only after the message is
\* durable somewhere. Nothing in this file drops a message": once the offset
\* has passed a terminal event, every channel with an address has delivered it,
\* unless the event was dead-lettered or failed to be parked, or a provider that
\* can fail stands at that channel or before it in the list.
PassedMeansDelivered ==
    \A i \in Offsets \ (Garbage \cup parked \cup parkFailed) :
        i < committed /\ EventAt[i] \in Terminal \ (Unrelated \cup Invalid) =>
            \A j \in 1..Len(Channels) :
                <<EventAt[i], Channels[j]>> \in Reachable =>
                    \/ <<EventAt[i], Channels[j]>> \in delivered
                    \/ \E k \in 1..j : <<EventAt[i], Channels[k]>> \in SendFaults
==============================================================================
