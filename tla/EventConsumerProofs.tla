-------------------------- MODULE EventConsumerProofs -------------------------
(***************************************************************************)
(* What EventConsumer guarantees for any number of events, any retry       *)
(* budget, and any faults, shutdowns, restarts and rebalances.             *)
(*                                                                         *)
(* The offset is only ever set to the one after the event being processed, *)
(* so the argument is about what is true when the loop takes an event up:  *)
(* every earlier one has been accounted for (LoopInv).  The last section is *)
(* what the modules that put a service's handler into the loop rest on.     *)
(***************************************************************************)
EXTENDS EventConsumer, TLAPS

\* The event at offset i has been handled, parked, or reported as not parked.
Accounted(i) == i \in handled \cup parked \cup parkFailed

Working == pc \in {"apply", "backoff", "park"}

LoopInv ==
    /\ Working \/ pc = "commit" => current \in Offsets
    /\ Working \/ pc = "commit" =>
           \A i \in Offsets : i < current => Accounted(i)
    /\ pc = "commit" => Accounted(current)
    /\ pc = "backoff" => attempt < MaxTries
    /\ \A i \in Offsets :
           i < position => Accounted(i) \/ (Working /\ i = current)

Inv == TypeOK /\ LoopInv /\ NothingSkippedSilently /\ HandledInOrder

------------------------------------------------------------------------------
LEMMA InitInv == ConsumerInit => Inv
  <1>. SUFFICES ASSUME ConsumerInit PROVE Inv
    OBVIOUS
  <1>1. \A i \in Offsets : ~(i < 1)
    BY DEF Offsets
  <1>2. 1 \in 1..(NumEvents + 1) /\ 1 \in 1..MaxTries /\ 0 \in 0..MaxRestarts
    BY ConsumerAssumption
  <1>3. TypeOK
    BY <1>2 DEF ConsumerInit, TypeOK, Pc
  <1>4. LoopInv /\ NothingSkippedSilently /\ HandledInOrder
    BY <1>1 DEF ConsumerInit, LoopInv, NothingSkippedSilently, HandledInOrder,
                Working
  <1>. QED
    BY <1>3, <1>4 DEF Inv

LEMMA FetchInv == Inv /\ Fetch => Inv'
  <1>. SUFFICES ASSUME Inv, Fetch PROVE Inv'
    OBVIOUS
  <1>1. TypeOK'
    BY ConsumerAssumption DEF Fetch, Inv, TypeOK, Pc, Offsets, processVars, historyVars
  <1>2. LoopInv'
    BY DEF Fetch, Inv, TypeOK, LoopInv, Working, Accounted, Offsets,
           processVars, historyVars
  <1>3. NothingSkippedSilently' /\ HandledInOrder'
    BY DEF Fetch, Inv, NothingSkippedSilently, HandledInOrder, historyVars
  <1>. QED
    BY <1>1, <1>2, <1>3 DEF Inv

\* The handler's three answers, and the waits between attempts.
LEMMA AttemptInv ==
    Inv /\ (Succeed \/ Refuse \/ Fail \/ Retry \/ Interrupt) => Inv'
  <1>. SUFFICES ASSUME Inv, Succeed \/ Refuse \/ Fail \/ Retry \/ Interrupt
                PROVE  Inv'
    OBVIOUS
  <1>1. CASE Succeed
    <2>1. TypeOK'
      BY <1>1 DEF Succeed, Inv, TypeOK, Pc, LoopInv, Working, Offsets, processVars
    <2>2. LoopInv' /\ NothingSkippedSilently'
      BY <1>1 DEF Succeed, Inv, LoopInv, Working, Accounted,
                  NothingSkippedSilently
    <2>3. HandledInOrder'
      BY <1>1 DEF Succeed, Inv, LoopInv, Working, Accounted, HandledInOrder
    <2>. QED
      BY <2>1, <2>2, <2>3 DEF Inv
  <1>2. CASE Refuse \/ Fail \/ Retry \/ Interrupt
    <2>1. TypeOK'
      BY <1>2, ConsumerAssumption
         DEF Refuse, Fail, Retry, Interrupt, Inv, TypeOK, Pc, LoopInv,
             processVars, historyVars
    <2>2. LoopInv'
      BY <1>2, ConsumerAssumption
         DEF Refuse, Fail, Retry, Interrupt, Inv, TypeOK, LoopInv, Working,
             Accounted, historyVars
    <2>3. NothingSkippedSilently' /\ HandledInOrder'
      BY <1>2 DEF Refuse, Fail, Retry, Interrupt, Inv, NothingSkippedSilently,
                  HandledInOrder, historyVars
    <2>. QED
      BY <2>1, <2>2, <2>3 DEF Inv
  <1>. QED
    BY <1>1, <1>2

LEMMA ParkInv == Inv /\ (Park \/ ParkFails) => Inv'
  <1>. SUFFICES ASSUME Inv, Park \/ ParkFails PROVE Inv'
    OBVIOUS
  <1>1. TypeOK'
    BY DEF Park, ParkFails, Inv, TypeOK, Pc, LoopInv, Working, Offsets, processVars
  <1>2. LoopInv'
    BY DEF Park, ParkFails, Inv, LoopInv, Working, Accounted
  <1>3. NothingSkippedSilently' /\ HandledInOrder'
    BY DEF Park, ParkFails, Inv, NothingSkippedSilently, HandledInOrder
  <1>. QED
    BY <1>1, <1>2, <1>3 DEF Inv

\* The commit is where an event that was never accounted for would be lost.
LEMMA CommitInv == Inv /\ (Commit \/ CommitFails) => Inv'
  <1>. SUFFICES ASSUME Inv, Commit \/ CommitFails PROVE Inv'
    OBVIOUS
  <1>1. TypeOK'
    <2>1. current \in Offsets
      BY DEF Commit, CommitFails, Inv, LoopInv
    <2>2. current + 1 \in 1..(NumEvents + 1)
      BY <2>1, ConsumerAssumption DEF Offsets
    <2>. QED
      BY <2>2 DEF Commit, CommitFails, Inv, TypeOK, Pc, processVars, historyVars
  <1>2. LoopInv' /\ HandledInOrder'
    BY DEF Commit, CommitFails, Inv, LoopInv, Working, Accounted,
           HandledInOrder, historyVars
  <1>3. NothingSkippedSilently'
    <2>1. CASE Commit
      <3>. SUFFICES ASSUME NEW i \in Offsets, i < current + 1
                    PROVE  Accounted(i)
        BY <2>1 DEF Commit, NothingSkippedSilently, Accounted, historyVars
      <3>1. i < current \/ i = current
        BY DEF Inv, TypeOK, Offsets
      <3>. QED
        BY <2>1, <3>1 DEF Commit, Inv, LoopInv
    <2>2. CASE CommitFails
      BY <2>2 DEF CommitFails, Inv, NothingSkippedSilently, historyVars
    <2>. QED
      BY <2>1, <2>2
  <1>. QED
    BY <1>1, <1>2, <1>3 DEF Inv

LEMMA ProcessInv == Inv /\ (Stop \/ ProcessStep) => Inv'
  <1>. SUFFICES ASSUME Inv, Stop \/ ProcessStep PROVE Inv'
    OBVIOUS
  <1>1. TypeOK'
    <2>1. CASE Stop \/ Close
      BY <2>1 DEF Stop, Close, Inv, TypeOK, Pc, loopVars, processVars, historyVars
    <2>2. CASE Signal \/ Restart \/ Rejoin
      <3>1. restarts' \in 0..MaxRestarts
        <4>1. restarts < MaxRestarts => restarts + 1 \in 0..MaxRestarts
          BY ConsumerAssumption DEF Inv, TypeOK
        <4>. QED
          BY <2>2, <4>1 DEF Signal, Restart, Rejoin, Inv, TypeOK
      <3>. QED
        BY <2>2, <3>1
           DEF Signal, Restart, Rejoin, Inv, TypeOK, Pc, loopVars, historyVars
    <2>. QED
      BY <2>1, <2>2 DEF ProcessStep
  <1>2. LoopInv'
    BY DEF Stop, ProcessStep, Signal, Close, Restart, Rejoin, Inv, LoopInv,
           NothingSkippedSilently, Working, Accounted, loopVars, historyVars
  <1>3. NothingSkippedSilently' /\ HandledInOrder'
    BY DEF Stop, ProcessStep, Signal, Close, Restart, Rejoin, Inv,
           NothingSkippedSilently, HandledInOrder, loopVars, historyVars
  <1>. QED
    BY <1>1, <1>2, <1>3 DEF Inv

LEMMA NextInv == Inv /\ [ConsumerNext]_consumerVars => Inv'
  <1>1. Inv /\ UNCHANGED consumerVars => Inv'
    BY DEF consumerVars, loopVars, processVars, historyVars, Inv, TypeOK,
           LoopInv, Working, Accounted, NothingSkippedSilently, HandledInOrder
  <1>2. Inv /\ ConsumerNext => Inv'
    BY FetchInv, AttemptInv, ParkInv, CommitInv, ProcessInv
       DEF ConsumerNext, LoopStep, HandlerStep
  <1>. QED
    BY <1>1, <1>2

LEMMA InvHolds == ConsumerSpec => []Inv
  BY InitInv, NextInv, PTL DEF ConsumerSpec

\* Every variable keeps its type; in particular no event is tried more than
\* MaxTries times.
THEOREM Typed == ConsumerSpec => []TypeOK
  BY InvHolds, PTL DEF Inv

\* The offset never passes an event that was not handled, parked, or reported
\* as not parked.
THEOREM NoneSkipped == ConsumerSpec => []NothingSkippedSilently
  BY InvHolds, PTL DEF Inv

\* Events take effect in log order.
THEOREM InOrder == ConsumerSpec => []HandledInOrder
  BY InvHolds, PTL DEF Inv

------------------------------------------------------------------------------
(* The loop around a service's own handler *)

\* The loop around a handler that can fail in both ways.
Consumer == INSTANCE EventConsumer
    WITH ConsumerFaults <- ConsumerFaults \cup {"transient", "permanent"}

\* Whatever the handler answers, and whenever the process is stopped or restarted,
\* the step is one the loop takes with such a handler.
LEMMA AnyAnswer ==
  LoopStep \/ Succeed \/ Refuse \/ Fail \/ ProcessStep => Consumer!ConsumerNext
  <1>1. LoopStep => Consumer!LoopStep
    BY DEF LoopStep, Consumer!LoopStep, Fetch, Consumer!Fetch, Retry, Consumer!Retry,
           Interrupt, Consumer!Interrupt, Park, Consumer!Park, ParkFails,
           Consumer!ParkFails, Commit, Consumer!Commit, CommitFails,
           Consumer!CommitFails, Stop, Consumer!Stop, Offsets, Consumer!Offsets,
           processVars, Consumer!processVars, historyVars, Consumer!historyVars
  <1>2. Succeed \/ Refuse \/ Fail => Consumer!HandlerStep
    BY DEF Consumer!HandlerStep, Succeed, Consumer!Succeed, Refuse, Consumer!Refuse,
           Fail, Consumer!Fail, processVars, Consumer!processVars, historyVars,
           Consumer!historyVars
  <1>3. ProcessStep => Consumer!ProcessStep
    BY DEF ProcessStep, Consumer!ProcessStep, Signal, Consumer!Signal, Close,
           Consumer!Close, Restart, Consumer!Restart, Rejoin, Consumer!Rejoin,
           loopVars, Consumer!loopVars, historyVars, Consumer!historyVars
  <1>. QED
    BY <1>1, <1>2, <1>3 DEF Consumer!ConsumerNext

LEMMA SameStart == ConsumerInit => Consumer!ConsumerInit
  BY DEF ConsumerInit, Consumer!ConsumerInit

LEMMA SameState == UNCHANGED consumerVars => UNCHANGED Consumer!consumerVars
  BY DEF consumerVars, Consumer!consumerVars, loopVars, Consumer!loopVars,
         processVars, Consumer!processVars, historyVars, Consumer!historyVars

==============================================================================
