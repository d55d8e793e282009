--------------------------- MODULE PortfolioService --------------------------
(***************************************************************************)
(* portfolio-service's write half: the consumer loop with the projection   *)
(* onto the in-memory holdings ledger as its handler.  One customer and    *)
(* one fund: positions of different customers and funds share nothing but  *)
(* the deduplication set, which the events of this model fill.             *)
(*                                                                         *)
(* Units are whole numbers of the smallest allotment, amounts are paise.    *)
(* The code prices a fill when it consumes it; here an event has the units    *)
(* it moves.                                                                  *)
(***************************************************************************)
EXTENDS EventConsumer, Position, Sequences, FiniteSetsExt

CONSTANTS
    Fills,             \* event ids
    FillAt,            \* the event at each offset
    Units,             \* units an event moves: bought > 0, sold < 0; 0 for an
                       \* event that is not EXECUTED
    Amount,            \* what they cost, in paise
    Invalid,           \* events Validate or Side rejects
    MaxAppliedEvents,  \* maxAppliedEvents
    LedgerFaults       \* "restart": the process can lose its memory;
                       \* "feed": the NAV feed can fail

ASSUME LedgerAssumption ==
    /\ FillAt \in [Offsets -> Fills]
    /\ Units \in [Fills -> Int]
    /\ Amount \in [Fills -> Nat]
    /\ Invalid \subseteq Fills
    /\ MaxAppliedEvents \in Nat \ {0}
    /\ LedgerFaults \subseteq {"restart", "feed"}

VARIABLES
    holding,  \* units held and their cost; no units when there is no position
    applied,  \* appliedOrder: the ids in the deduplication set, oldest first
    fills,    \* history: the events this process has applied
    released, \* history: the cost released by this process's sales
    since     \* history: the group's offset when this process started

ledgerVars == <<holding, applied, fills, released, since>>
vars == <<consumerVars, ledgerVars>>

Init ==
    /\ ConsumerInit
    /\ holding = NoHolding
    /\ applied = <<>>
    /\ fills = {}
    /\ released = 0
    /\ since = 1

Fill == FillAt[current]
Executed(e) == Units[e] # 0 /\ e \notin Invalid

AlreadyApplied(e) == \E i \in 1..Len(applied) : applied[i] = e

\* A bug: the set is trimmed one id too early.
MarkAppliedShort(e) ==
    applied' = LET all == Append(applied, e)
               IN  IF Len(all) >= MaxAppliedEvents THEN Tail(all) ELSE all

\* markApplied: the oldest ids go once the set is over its cap.
MarkApplied(e) ==
    applied' = LET all == Append(applied, e)
               IN  IF Len(all) > MaxAppliedEvents THEN Tail(all) ELSE all

------------------------------------------------------------------------------
(* ApplyOrderEvent *)

\* An envelope of another version, or an executed order of no known type.
RejectEvent ==
    /\ pc = "apply"
    /\ Fill \in Invalid
    /\ Refuse
    /\ UNCHANGED ledgerVars

SkipEvent ==
    /\ pc = "apply"
    /\ ~Executed(Fill)
    /\ Fill \notin Invalid
    /\ Succeed
    /\ UNCHANGED ledgerVars

\* No price for the fill: an error worth retrying, raised before the ledger is
\* consulted at all.
FeedFails ==
    /\ "feed" \in LedgerFaults
    /\ pc = "apply"
    /\ Executed(Fill)
    /\ Fail
    /\ UNCHANGED ledgerVars

SkipDuplicate ==
    /\ pc = "apply"
    /\ Executed(Fill)
    /\ AlreadyApplied(Fill)
    /\ Succeed
    /\ UNCHANGED ledgerVars

\* Check, mutation and mark, under one lock.
NewFill ==
    /\ pc = "apply"
    /\ Executed(Fill)
    /\ ~AlreadyApplied(Fill)

ApplyFill ==
    /\ NewFill
    /\ MarkApplied(Fill)
    /\ fills' = fills \cup {Fill}
    /\ Succeed
    /\ UNCHANGED since

Buy ==
    /\ Units[Fill] > 0
    /\ holding' = ApplyBuy(holding, Units[Fill], Amount[Fill])
    /\ UNCHANGED released
    /\ ApplyFill

Sell ==
    /\ Units[Fill] < 0
    /\ Covers(holding, -Units[Fill])
    /\ holding' = ApplySell(holding, -Units[Fill])
    /\ released' = released + Released(holding, -Units[Fill])
    /\ ApplyFill

\* A bug: a sale that cannot be applied is taken for an event to skip.
SkipSale ==
    /\ NewFill
    /\ Units[Fill] < 0
    /\ ~Covers(holding, -Units[Fill])
    /\ Succeed
    /\ UNCHANGED ledgerVars

\* A sale of more than is held: permanent, and not marked as applied.
RefuseSale ==
    /\ NewFill
    /\ Units[Fill] < 0
    /\ ~Covers(holding, -Units[Fill])
    /\ Refuse
    /\ UNCHANGED ledgerVars

ApplyOrderEvent ==
    \/ RejectEvent \/ SkipEvent \/ FeedFails
    \/ SkipDuplicate \/ Buy \/ Sell \/ RefuseSale

\* A new process starts with an empty ledger.
RestartEmpty ==
    /\ "restart" \in LedgerFaults
    /\ Restart
    /\ holding' = NoHolding
    /\ applied' = <<>>
    /\ fills' = {}
    /\ released' = 0
    /\ since' = committed

\* This service's own loop and process.
ConsumerLoop == LoopStep /\ UNCHANGED ledgerVars
Process == (Signal \/ Close \/ Rejoin) /\ UNCHANGED ledgerVars

Next ==
    \/ ConsumerLoop
    \/ ApplyOrderEvent
    \/ Process
    \/ RestartEmpty

Spec == Init /\ [][Next]_vars

\* The loop runs on, and a service that was stopped is started again.
Fairness ==
    /\ WF_vars(ConsumerLoop \/ ApplyOrderEvent)
    /\ WF_vars(Close /\ UNCHANGED ledgerVars)
    /\ WF_vars(closed /\ RestartEmpty)

FairSpec == Spec /\ Fairness

------------------------------------------------------------------------------
(* Properties *)

LedgerTypeOK ==
    /\ TypeOK
    /\ holding \in [units : Nat, invested : Nat]
    /\ applied \in Seq(Fills)
    /\ fills \subseteq Fills
    /\ released \in Nat
    /\ since \in 1..(NumEvents + 1)

\* A redelivery never moves a position twice: the position is the sum of the
\* distinct fills this process has applied.  It holds while a redelivery comes
\* within the last maxAppliedEvents fills.
PositionIsSumOfFills == holding.units = MapThenSumSet(LAMBDA e : Units[e], fills)

\* Every paisa invested is accounted for: it is the cost of what is still held
\* or has been released by a sale, whatever the rounding of the partial sales,
\* and a closed position has no cost left.
CostConserved ==
    /\ holding.invested + released =
           MapThenSumSet(LAMBDA e : Amount[e], {e \in fills : Units[e] > 0})
    /\ 0 <= holding.invested
    /\ holding.units = 0 => holding.invested = 0

\* The consumer's header: "An offset moves only after the fill is in the ledger
\* or durable on the DLQ, so a crash costs a redelivery ... rather than a lost
\* position."  Every executed event the offset has passed since this process
\* started is in the ledger, parked, or was reported as not parked.
PassedMeansApplied ==
    \A i \in Offsets \ Garbage :
        since <= i /\ i < committed /\ Executed(FillAt[i]) =>
            FillAt[i] \in fills \/ i \in parked \cup parkFailed
==============================================================================
