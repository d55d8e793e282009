----------------------- MODULE NotificationServiceProofs ---------------------
(***************************************************************************)
(* What notification-service guarantees for any log, any channels, and any *)
(* faults, shutdowns, restarts and rebalances.                             *)
(*                                                                         *)
(* Every step of the service takes the consumer loop through one of its    *)
(* own steps, so EventConsumerProofs' invariant carries over.  What the      *)
(* notifier adds turns on the seen-set: an event in it has been delivered    *)
(* over every channel as far as the providers allow, or is being delivered     *)
(* (SeenInv), and one outside it has not been sent by this process (OnceInv).   *)
(***************************************************************************)
EXTENDS NotificationService, EventConsumerProofs, FiniteSetTheorems

\* A step of the loop, with whatever answer the handler gives.
LoopMoves ==
    LoopStep \/ Succeed \/ Refuse \/ Fail \/ Signal \/ Close \/ Rejoin

LEMMA StepMoves == Next => LoopMoves \/ UNCHANGED consumerVars \/ RestartEmpty
  BY DEF Next, ConsumerLoop, Handle, Process, IgnoreUnrelated, Reject,
         SuppressDuplicate, IgnoreProgress, StartSending, Send, SkipChannel,
         SendFails, FinishSending, LoopMoves

LEMMA ConsumerInvNext == Inv /\ [Next]_vars => Inv'
  <1>1. Inv /\ (UNCHANGED vars \/ UNCHANGED consumerVars) => Inv'
    BY NextInv DEF vars
  <1>2. Inv /\ LoopMoves => Inv'
    BY FetchInv, AttemptInv, ParkInv, CommitInv, ProcessInv
       DEF LoopMoves, LoopStep, ProcessStep
  <1>3. Inv /\ RestartEmpty => Inv'
    BY ProcessInv DEF RestartEmpty, ProcessStep
  <1>. QED
    BY <1>1, <1>2, <1>3, StepMoves

LEMMA ConsumerInvHolds == Spec => []Inv
  <1>1. Init => Inv
    BY InitInv DEF Init
  <1>. QED
    BY <1>1, ConsumerInvNext, PTL DEF Spec

\* The offset never passes an event that was not handled, parked, or reported
\* as not parked, with the notifier as the handler.
THEOREM NotifierSkipsNone == Spec => []NothingSkippedSilently
  BY ConsumerInvHolds, PTL DEF Inv

\* notification-service is the consumer loop as well: what happens between an event's
\* first channel and its last does not move the loop.
THEOREM NotifierConsumes == Spec => Consumer!ConsumerSpec
  <1>1. Init => Consumer!ConsumerInit
    BY SameStart DEF Init
  <1>2. [Next]_vars => [Consumer!ConsumerNext]_(Consumer!consumerVars)
    <2>1. Next => Consumer!ConsumerNext \/ UNCHANGED consumerVars
      BY StepMoves, AnyAnswer DEF LoopMoves, ProcessStep, RestartEmpty
    <2>. QED
      BY <2>1, SameState DEF vars
  <1>. QED
    BY <1>1, <1>2, PTL DEF Spec, Consumer!ConsumerSpec

------------------------------------------------------------------------------
(* Types *)

Considered == Events \ (Unrelated \cup Invalid)

NotifierTypes ==
    /\ seen \subseteq Considered
    /\ sending \in 0..(Len(Channels) + 1)
    /\ sending # 0 => pc = "apply"
    /\ sent \in [Deliveries -> Nat]
    /\ delivered \subseteq Deliveries

LEMMA ReachableDeliveries == Reachable \subseteq Deliveries
  BY NotifierAssumption DEF Deliveries, ChannelNames

LEMMA NotifierTypesNext ==
  Inv /\ NotifierTypes /\ [Next]_vars => NotifierTypes'
  <1>. SUFFICES ASSUME Inv, NotifierTypes, [Next]_vars PROVE NotifierTypes'
    OBVIOUS
  <1>1. pc = "apply" => Event \in Events
    BY NotifierAssumption DEF Event, Inv, LoopInv, Working
  <1>2. CASE UNCHANGED vars
    BY <1>2 DEF vars, consumerVars, loopVars, NotifierTypes
  <1>3. CASE ConsumerLoop \/ Process
    BY <1>3 DEF ConsumerLoop, Process, LoopStep, Fetch, Retry, Interrupt, Park,
                ParkFails, Commit, CommitFails, Stop, Signal, Close, Rejoin,
                notifierVars, loopVars, NotifierTypes
  <1>4. CASE IgnoreUnrelated \/ Reject \/ SuppressDuplicate
    BY <1>4 DEF IgnoreUnrelated, Reject, SuppressDuplicate, Entering,
                notifierVars, NotifierTypes
  <1>5. CASE IgnoreProgress \/ StartSending
    BY <1>1, <1>5, NotifierAssumption
       DEF IgnoreProgress, StartSending, Entering, MarkSeen, Succeed,
           consumerVars, loopVars, NotifierTypes, Considered
  <1>6. CASE Send
    <2>1. Delivery \in Deliveries /\ sending + 1 \in 0..(Len(Channels) + 1)
      BY <1>6, ReachableDeliveries, NotifierAssumption DEF Send, Sending
    <2>. QED
      BY <1>6, <2>1 DEF Send, Sending, consumerVars, loopVars, NotifierTypes
  <1>7. CASE SkipChannel \/ SendFails \/ FinishSending
    BY <1>7, NotifierAssumption
       DEF SkipChannel, SendFails, FinishSending, Sending, consumerVars, loopVars,
           NotifierTypes
  <1>8. CASE RestartEmpty
    BY <1>8, NotifierAssumption DEF RestartEmpty, NotifierTypes
  <1>. QED
    BY <1>2, <1>3, <1>4, <1>5, <1>6, <1>7, <1>8 DEF Next, Handle

LEMMA NotifierTypesHold == Spec => []NotifierTypes
  <1>1. Init => NotifierTypes
    BY NotifierAssumption DEF Init, NotifierTypes
  <1>. QED
    BY <1>1, NotifierTypesNext, ConsumerInvHolds, PTL DEF Spec

\* Every variable keeps its type; in particular a retry, a shutdown or a
\* rebalance never finds the loop elsewhere while an event is being sent.
THEOREM NotifierTyped == Spec => []NotifierTypeOK
  <1>1. Inv /\ NotifierTypes => NotifierTypeOK
    BY DEF Inv, NotifierTypes, NotifierTypeOK, Considered
  <1>. QED
    BY <1>1, ConsumerInvHolds, NotifierTypesHold, PTL

------------------------------------------------------------------------------
(* What a passed offset means *)

\* The event has gone out over the j-th channel, or need not, or a provider that
\* can fail stands in the way.
Out(e, j) ==
    <<e, Channels[j]>> \in Reachable =>
        \/ <<e, Channels[j]>> \in delivered
        \/ \E k \in 1..j : <<e, Channels[k]>> \in SendFaults

OutOnAll(e) == \A j \in 1..Len(Channels) : Out(e, j)

SeenInv ==
    /\ \A e \in seen \cap Terminal : OutOnAll(e) \/ (sending # 0 /\ e = Event)
    /\ sending # 0 => \A j \in 1..Len(Channels) : j < sending => Out(Event, j)

Settled(i) ==
    i \notin Garbage /\ EventAt[i] \in Terminal \cap Considered =>
        OutOnAll(EventAt[i]) \/ i \in parked \cup parkFailed

PassedInv ==
    /\ Working \/ pc = "commit" =>
           \A i \in Offsets : i < current => Settled(i)
    /\ pc = "commit" => Settled(current)
    /\ \A i \in Offsets : i < position => Settled(i) \/ (Working /\ i = current)
    /\ \A i \in Offsets : i < committed => Settled(i)

LEMMA SeenInvNext ==
  Inv /\ NotifierTypes /\ SeenInv /\ [Next]_vars => SeenInv'
  <1>. SUFFICES ASSUME Inv, NotifierTypes, SeenInv, [Next]_vars PROVE SeenInv'
    OBVIOUS
  <1>1. CASE UNCHANGED vars
    BY <1>1 DEF vars, consumerVars, loopVars, SeenInv, OutOnAll, Out, Event
  <1>2. CASE ConsumerLoop \/ Process
    <2>1. current' = current \/ sending = 0
      BY <1>2 DEF ConsumerLoop, Process, LoopStep, Fetch, Retry, Interrupt, Park,
                  ParkFails, Commit, CommitFails, Stop, Signal, Close, Rejoin,
                  loopVars, NotifierTypes
    <2>. QED
      BY <1>2, <2>1 DEF ConsumerLoop, Process, notifierVars, SeenInv, OutOnAll,
                        Out, Event
  <1>3. CASE IgnoreUnrelated \/ Reject \/ SuppressDuplicate
    BY <1>3 DEF IgnoreUnrelated, Reject, SuppressDuplicate, Entering,
                notifierVars, SeenInv, OutOnAll, Out
  <1>4. CASE IgnoreProgress
    BY <1>4 DEF IgnoreProgress, Entering, MarkSeen, SeenInv, OutOnAll, Out
  <1>5. CASE StartSending
    <2>1. Event' = Event /\ sending' = 1 /\ delivered' = delivered
      BY <1>5 DEF StartSending, consumerVars, loopVars, Event
    <2>2. seen' \subseteq seen \cup {Event}
      BY <1>5 DEF StartSending, MarkSeen
    <2>. QED
      BY <1>5, <2>1, <2>2 DEF StartSending, Entering, SeenInv, OutOnAll, Out
  <1>6. CASE Send \/ SkipChannel
    <2>1. /\ Event' = Event /\ seen' = seen /\ sending' = sending + 1
          /\ delivered \subseteq delivered'
      BY <1>6 DEF Send, SkipChannel, consumerVars, loopVars, Event
    <2>2. \A j : j = sending => Out(Event, j)'
      BY <1>6, <2>1 DEF Send, SkipChannel, Sending, Delivery, Out
    <2>3. \A e, j : Out(e, j) => Out(e, j)'
      BY <2>1 DEF Out
    <2>4. \A j \in 1..Len(Channels) : j < sending' => Out(Event, j)'
      <3>1. sending \in Nat /\ sending # 0
        BY <1>6 DEF Send, SkipChannel, Sending, NotifierTypes
      <3>2. \A j \in 1..Len(Channels) : j < sending + 1 => j < sending \/ j = sending
        BY <3>1
      <3>. QED
        BY <2>1, <2>2, <2>3, <3>1, <3>2 DEF SeenInv
    <2>. QED
      BY <2>1, <2>3, <2>4 DEF SeenInv, OutOnAll, NotifierTypes
  <1>7. CASE SendFails
    <2>1. sending \in 1..Len(Channels) /\ <<Event, Channels[sending]>> \in SendFaults
      BY <1>7 DEF SendFails, Sending, Delivery
    <2>2. \A j \in 1..Len(Channels) : j < sending \/ sending \in 1..j
      BY <2>1, NotifierAssumption
    <2>3. OutOnAll(Event)
      BY <2>1, <2>2 DEF SeenInv, OutOnAll, Out
    <2>. QED
      BY <1>7, <2>3 DEF SendFails, SeenInv, OutOnAll, Out
  <1>8. CASE FinishSending
    <2>1. OutOnAll(Event)
      BY <1>8, NotifierAssumption DEF FinishSending, SeenInv, OutOnAll
    <2>. QED
      BY <1>8, <2>1 DEF FinishSending, SeenInv, OutOnAll, Out
  <1>9. CASE RestartEmpty
    BY <1>9 DEF RestartEmpty, SeenInv
  <1>. QED
    BY <1>1, <1>2, <1>3, <1>4, <1>5, <1>6, <1>7, <1>8, <1>9 DEF Next, Handle

\* A step that forgets no delivery keeps the history of the offset, if an event
\* that is handled has gone out.
LEMMA PassedInvStep ==
  ASSUME Inv, PassedInv, delivered \subseteq delivered',
         \/ LoopStep \/ Refuse \/ Fail \/ Signal \/ Close \/ Rejoin \/ Restart
         \/ Succeed /\ Settled(current)
         \/ UNCHANGED consumerVars
  PROVE  PassedInv'
  <1>1. \A i : Settled(i) => Settled(i)' \/ ~(parked \cup parkFailed
                                               \subseteq (parked \cup parkFailed)')
    BY DEF Settled, OutOnAll, Out
  <1>2. CASE Fetch
    BY <1>1, <1>2 DEF Fetch, Inv, TypeOK, PassedInv, Working, Offsets, historyVars
  <1>3. CASE Succeed /\ Settled(current)
    BY <1>1, <1>3 DEF Succeed, PassedInv, Working
  <1>4. CASE Refuse \/ Fail \/ Retry \/ Interrupt \/ CommitFails
    BY <1>1, <1>4 DEF Refuse, Fail, Retry, Interrupt, CommitFails, PassedInv,
                      Working, historyVars
  <1>5. CASE Park \/ ParkFails
    <2>1. Settled(current)'
      BY <1>5 DEF Park, ParkFails, Settled
    <2>. QED
      BY <1>1, <1>5, <2>1 DEF Park, ParkFails, PassedInv, Working
  <1>6. CASE Commit
    <2>1. \A i \in Offsets : i < current + 1 => i < current \/ i = current
      BY DEF Inv, TypeOK, Offsets
    <2>. QED
      BY <1>1, <1>6, <2>1 DEF Commit, PassedInv, Working, historyVars
  <1>7. CASE Stop \/ Signal \/ Close \/ Rejoin \/ Restart
    BY <1>1, <1>7 DEF Stop, Signal, Close, Rejoin, Restart, PassedInv, Working,
                      loopVars, historyVars
  <1>8. CASE UNCHANGED consumerVars
    BY <1>1, <1>8 DEF PassedInv, Working, consumerVars, loopVars, historyVars
  <1>. QED
    BY <1>2, <1>3, <1>4, <1>5, <1>6, <1>7, <1>8 DEF LoopStep

LEMMA PassedInvNext ==
  Inv /\ NotifierTypes /\ SeenInv /\ PassedInv /\ [Next]_vars => PassedInv'
  <1>. SUFFICES ASSUME Inv, NotifierTypes, SeenInv, PassedInv, [Next]_vars
                PROVE  PassedInv'
    OBVIOUS
  <1>1. delivered \subseteq delivered'
    BY DEF Next, ConsumerLoop, Handle, Process, IgnoreUnrelated, Reject,
           SuppressDuplicate, IgnoreProgress, StartSending, Send, SkipChannel,
           SendFails, FinishSending, RestartEmpty, notifierVars, vars
  <1>2. IgnoreUnrelated \/ IgnoreProgress \/ SuppressDuplicate \/ FinishSending
            => Settled(current)
    <2>1. CASE IgnoreUnrelated \/ IgnoreProgress
      BY <2>1 DEF IgnoreUnrelated, IgnoreProgress, Settled, Event, Considered
    <2>2. CASE SuppressDuplicate
      BY <2>2 DEF SuppressDuplicate, Entering, SeenInv, Settled, Event
    <2>3. CASE FinishSending
      <3>1. OutOnAll(Event)
        BY <2>3, NotifierAssumption DEF FinishSending, SeenInv, OutOnAll
      <3>. QED
        BY <3>1 DEF Settled, Event
    <2>. QED
      BY <2>1, <2>2, <2>3
  <1>. QED
    BY <1>1, <1>2, PassedInvStep
       DEF Next, ConsumerLoop, Handle, Process, IgnoreUnrelated, Reject,
           SuppressDuplicate, IgnoreProgress, StartSending, Send, SkipChannel,
           SendFails, FinishSending, RestartEmpty, vars

LEMMA PassedInvHolds == Spec => []PassedInv
  <1>1. Init => SeenInv /\ PassedInv
    BY DEF Init, ConsumerInit, SeenInv, PassedInv, Working, Offsets
  <1>. QED
    BY <1>1, SeenInvNext, PassedInvNext, ConsumerInvHolds, NotifierTypesHold, PTL
       DEF Spec

\* Once the offset has passed a terminal event, every channel with an address has
\* delivered it, unless it was parked or failed to be parked, or a provider that
\* can fail stands at the channel or before it.
THEOREM PassedIsDelivered == Spec => []PassedMeansDelivered
  <1>1. PassedInv => PassedMeansDelivered
    BY NotifierAssumption
       DEF PassedInv, PassedMeansDelivered, Settled, OutOnAll, Out, Considered
  <1>. QED
    BY <1>1, PassedInvHolds, PTL

------------------------------------------------------------------------------
(* One message per event and channel *)

ChannelsDiffer ==
    \A i, j \in 1..Len(Channels) : Channels[i] = Channels[j] => i = j

\* The seen-set has room for every event that enters it.
RoomForAll == IsFiniteSet(Considered) /\ Cardinality(Considered) <= SeenCap

OnceInv ==
    /\ \A d \in Deliveries : sent[d] <= 1
    /\ \A d \in Deliveries : d[1] \notin seen => sent[d] = 0
    /\ sending # 0 =>
           /\ Event \in seen
           /\ \A j \in 1..Len(Channels) : sending <= j => sent[<<Event, Channels[j]>>] = 0

\* With that room the seen-set is never emptied.
LEMMA SeenGrows ==
  ASSUME RoomForAll, seen \subseteq Considered, NEW e \in Considered \ seen, MarkSeen(e)
  PROVE  seen' = seen \cup {e}
  <1>1. seen # Considered
    OBVIOUS
  <1>2. IsFiniteSet(Considered) /\ seen \in SUBSET Considered
    BY DEF RoomForAll
  <1>3. /\ IsFiniteSet(seen)
        /\ Cardinality(seen) <= Cardinality(Considered)
        /\ Cardinality(seen) # Cardinality(Considered)
    BY <1>1, <1>2, FS_Subset
  <1>4. ~(Cardinality(seen) >= SeenCap)
    <2>1. Cardinality(seen) \in Nat /\ Cardinality(Considered) \in Nat
      BY <1>2, <1>3, FS_CardinalityType
    <2>. QED
      BY <1>3, <2>1, NotifierAssumption DEF RoomForAll
  <1>. QED
    BY <1>4 DEF MarkSeen

LEMMA OnceInvNext ==
  ASSUME ChannelsDiffer, RoomForAll, Inv, NotifierTypes, OnceInv, [Next]_vars
  PROVE  OnceInv'
  <1>1. CASE UNCHANGED vars
    BY <1>1 DEF vars, consumerVars, loopVars, OnceInv, Event
  <1>2. CASE ConsumerLoop \/ Process
    <2>1. current' = current \/ sending = 0
      BY <1>2 DEF ConsumerLoop, Process, LoopStep, Fetch, Retry, Interrupt, Park,
                  ParkFails, Commit, CommitFails, Stop, Signal, Close, Rejoin,
                  loopVars, NotifierTypes
    <2>. QED
      BY <1>2, <2>1 DEF ConsumerLoop, Process, notifierVars, OnceInv, Event
  <1>3. CASE IgnoreUnrelated \/ Reject \/ SuppressDuplicate
    BY <1>3 DEF IgnoreUnrelated, Reject, SuppressDuplicate, Entering,
                notifierVars, OnceInv
  <1>4. CASE IgnoreProgress \/ StartSending
    <2>1. Event \in Considered \ seen
      BY <1>4, NotifierAssumption
         DEF IgnoreProgress, StartSending, Entering, Considered, Event, Inv, LoopInv,
             Working
    <2>2. seen' = seen \cup {Event} /\ sent' = sent
      BY <1>4, <2>1, SeenGrows DEF IgnoreProgress, StartSending, NotifierTypes
    <2>3. CASE IgnoreProgress
      BY <2>2, <2>3 DEF IgnoreProgress, Entering, OnceInv
    <2>4. CASE StartSending
      <3>1. \A j \in 1..Len(Channels) : <<Event, Channels[j]>> \in Deliveries
        BY <2>1 DEF Deliveries, ChannelNames, Considered
      <3>. QED
        BY <2>1, <2>2, <2>4, <3>1
           DEF StartSending, consumerVars, loopVars, OnceInv, Event
    <2>. QED
      BY <1>4, <2>3, <2>4
  <1>5. CASE Send
    <2>1. /\ Event' = Event /\ seen' = seen /\ sending' = sending + 1
          /\ sending \in 1..Len(Channels)
          /\ sent' = [sent EXCEPT ![Delivery] = @ + 1]
      BY <1>5 DEF Send, Sending, consumerVars, loopVars, Event
    <2>2. Delivery \in Deliveries /\ Event \in seen /\ sent[Delivery] = 0
      BY <1>5, <2>1, ReachableDeliveries, NotifierAssumption
         DEF Send, OnceInv, Delivery
    <2>3. \A d \in Deliveries : sent'[d] = IF d = Delivery THEN 1 ELSE sent[d]
      BY <2>1, <2>2 DEF NotifierTypes
    <2>4. \A j \in 1..Len(Channels) : sending + 1 <= j =>
              /\ <<Event, Channels[j]>> # Delivery
              /\ <<Event, Channels[j]>> \in Deliveries
              /\ sent[<<Event, Channels[j]>>] = 0
      <3>1. \A j \in 1..Len(Channels) : sending + 1 <= j => sending <= j /\ sending # j
        BY <2>1
      <3>2. \A j \in 1..Len(Channels) : <<Event, Channels[j]>> \in Deliveries
        BY <2>2 DEF Deliveries, ChannelNames, NotifierTypes, Considered
      <3>. QED
        BY <2>1, <3>1, <3>2 DEF OnceInv, ChannelsDiffer, Delivery
    <2>. QED
      BY <2>1, <2>2, <2>3, <2>4 DEF OnceInv, Delivery
  <1>6. CASE SkipChannel
    BY <1>6, NotifierAssumption
       DEF SkipChannel, Sending, consumerVars, loopVars, OnceInv, Event
  <1>7. CASE SendFails \/ FinishSending
    BY <1>7 DEF SendFails, FinishSending, OnceInv
  <1>8. CASE RestartEmpty
    BY <1>8 DEF RestartEmpty, OnceInv
  <1>. QED
    BY <1>1, <1>2, <1>3, <1>4, <1>5, <1>6, <1>7, <1>8 DEF Next, Handle

\* While the seen-set has room, one process sends an event at most once over each
\* of its channels: whatever is retried, published twice or fetched again.
THEOREM SentOnce ==
  ASSUME ChannelsDiffer, RoomForAll
  PROVE  Spec => []SentOncePerProcess
  <1>1. Init => OnceInv
    BY DEF Init, OnceInv
  <1>2. OnceInv => SentOncePerProcess
    BY DEF OnceInv, SentOncePerProcess
  <1>3. Inv /\ NotifierTypes /\ OnceInv /\ [Next]_vars => OnceInv'
    BY OnceInvNext
  <1>. QED
    BY <1>1, <1>2, <1>3, ConsumerInvHolds, NotifierTypesHold, PTL DEF Spec
==============================================================================
