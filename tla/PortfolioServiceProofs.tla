------------------------ MODULE PortfolioServiceProofs -----------------------
(***************************************************************************)
(* What portfolio-service's write half guarantees for any log, any         *)
(* deduplication cap, and any faults, shutdowns, restarts and rebalances.  *)
(*                                                                         *)
(* Every step of the service takes the consumer loop through one of its    *)
(* own steps, so EventConsumerProofs' invariant carries over.  The ledger   *)
(* adds to it what a passed offset means: LedgerInv says of each event      *)
(* since this process started what LoopInv says of it, with "in the         *)
(* ledger" for "handled".                                                    *)
(*                                                                         *)
(* What the position amounts to is a sum over the fills (SumInv).  Adding a  *)
(* fill adds its units once if its id was still known, which is what        *)
(* RedeliveredInTime says and KnownInv proves while the deduplication set    *)
(* has not been full.                                                        *)
(***************************************************************************)
EXTENDS PortfolioService, EventConsumerProofs, FiniteSetTheorems, WellFoundedInduction

\* A step of the loop, with whatever answer the handler gives.
LoopMoves ==
    LoopStep \/ Succeed \/ Refuse \/ Fail \/ Signal \/ Close \/ Rejoin

LEMMA StepMoves ==
  Next => \/ LoopMoves /\ since' = since /\ fills \subseteq fills'
          \/ RestartEmpty
  BY DEF Next, ConsumerLoop, ApplyOrderEvent, Process, RejectEvent, SkipEvent,
         FeedFails, SkipDuplicate, Buy, Sell, RefuseSale, ApplyFill, LoopMoves,
         ledgerVars

LEMMA ConsumerInvNext == Inv /\ [Next]_vars => Inv'
  <1>1. Inv /\ UNCHANGED vars => Inv'
    BY NextInv DEF vars
  <1>2. Inv /\ LoopMoves => Inv'
    BY FetchInv, AttemptInv, ParkInv, CommitInv, ProcessInv
       DEF LoopMoves, LoopStep, ProcessStep
  <1>3. Inv /\ RestartEmpty => Inv'
    BY ProcessInv DEF RestartEmpty, ProcessStep
  <1>. QED
    BY <1>1, <1>2, <1>3, StepMoves

LEMMA ConsumerInvHolds == Spec => []Inv
  <1>1. Init => Inv
    BY InitInv DEF Init
  <1>. QED
    BY <1>1, ConsumerInvNext, PTL DEF Spec

\* The offset never passes an event that was not handled, parked, or reported
\* as not parked, with the ledger as the handler.
THEOREM LedgerSkipsNone == Spec => []NothingSkippedSilently
  BY ConsumerInvHolds, PTL DEF Inv

\* portfolio-service is the consumer loop: pricing, deduplicating and applying fills
\* is one way of handling events, and nothing in it moves the loop otherwise.
THEOREM LedgerConsumes == Spec => Consumer!ConsumerSpec
  <1>1. Init => Consumer!ConsumerInit
    BY SameStart DEF Init
  <1>2. [Next]_vars => [Consumer!ConsumerNext]_(Consumer!consumerVars)
    <2>1. Next => Consumer!ConsumerNext
      BY StepMoves, AnyAnswer DEF LoopMoves, ProcessStep, RestartEmpty
    <2>. QED
      BY <2>1, SameState DEF vars
  <1>. QED
    BY <1>1, <1>2, PTL DEF Spec, Consumer!ConsumerSpec

\* Fills enter the ledger in log order.
THEOREM LedgerInOrder == Spec => []HandledInOrder
  BY ConsumerInvHolds, PTL DEF Inv

------------------------------------------------------------------------------
(* What a passed offset means *)

\* If the event at offset i moves the ledger, it has, or it was not possible.
Settled(i) ==
    i \notin Garbage /\ Executed(FillAt[i]) =>
        FillAt[i] \in fills \/ i \in parked \cup parkFailed

LedgerInv ==
    /\ \A j \in 1..Len(applied) : applied[j] \in fills
    /\ Working \/ pc = "commit" =>
           \A i \in Offsets : since <= i /\ i < current => Settled(i)
    /\ pc = "commit" => Settled(current)
    /\ \A i \in Offsets :
           since <= i /\ i < position => Settled(i) \/ (Working /\ i = current)
    /\ \A i \in Offsets : since <= i /\ i < committed => Settled(i)

AppliedType == applied \in Seq(Fills)

LEMMA LedgerInit == Init => AppliedType /\ LedgerInv
  BY DEF Init, ConsumerInit, AppliedType, LedgerInv, Working, Offsets

\* Marking one more id keeps no id that is not marked already, or it.
LEMMA MarkedOnly ==
  ASSUME AppliedType, NEW e \in Fills, MarkApplied(e)
  PROVE  /\ AppliedType'
         /\ \A j \in 1..Len(applied') :
               applied'[j] = e \/ \E k \in 1..Len(applied) : applied'[j] = applied[k]
  <1>. DEFINE all == Append(applied, e)
  <1>1. all \in Seq(Fills) /\ Len(all) = Len(applied) + 1
    BY DEF AppliedType
  <1>2. \A j \in 1..Len(all) :
            all[j] = e \/ \E k \in 1..Len(applied) : all[j] = applied[k]
    BY DEF AppliedType
  <1>3. /\ Tail(all) \in Seq(Fills)
        /\ Len(Tail(all)) = Len(all) - 1
        /\ \A j \in 1..Len(Tail(all)) : j + 1 \in 1..Len(all) /\ Tail(all)[j] = all[j + 1]
    BY <1>1
  <1>. QED
    BY <1>1, <1>2, <1>3 DEF MarkApplied, AppliedType

\* A step of the loop that leaves the ledger alone.
LEMMA LoopKeepsLedger ==
  ASSUME Inv, LedgerInv, UNCHANGED ledgerVars,
         \/ LoopStep \/ Refuse \/ Fail \/ Signal \/ Close \/ Rejoin
         \/ Succeed /\ Settled(current)
  PROVE  LedgerInv'
  <1>1. CASE Fetch
    BY <1>1 DEF Fetch, ledgerVars, Inv, TypeOK, LedgerInv, Settled, Working, Offsets,
                processVars, historyVars
  <1>2. CASE Succeed /\ Settled(current)
    BY <1>2 DEF Succeed, ledgerVars, LedgerInv, Settled, Working
  <1>3. CASE Refuse \/ Fail \/ Retry \/ Interrupt \/ CommitFails
    <2>1. parked' = parked /\ parkFailed' = parkFailed
      BY <1>3 DEF Refuse, Fail, Retry, Interrupt, CommitFails, historyVars
    <2>2. \A i : Settled(i) = Settled(i)'
      BY <2>1 DEF ledgerVars, Settled
    <2>. QED
      BY <1>3, <2>1 DEF Refuse, Fail, Retry, Interrupt, CommitFails, ledgerVars,
           LedgerInv, Settled, Working
  <1>4. CASE Park \/ ParkFails
    BY <1>4 DEF Park, ParkFails, ledgerVars, LedgerInv, Settled, Working
  <1>5. CASE Commit
    <2>1. \A i \in Offsets : i < current + 1 => i < current \/ i = current
      BY DEF Inv, TypeOK, Offsets
    <2>. QED
      BY <1>5, <2>1 DEF Commit, ledgerVars, LedgerInv, Settled, Working, historyVars
  <1>6. CASE Stop \/ Signal \/ Close \/ Rejoin
    BY <1>6 DEF Stop, Signal, Close, Rejoin, ledgerVars, LedgerInv, Settled,
                Working, loopVars, historyVars
  <1>. QED
    BY <1>1, <1>2, <1>3, <1>4, <1>5, <1>6 DEF LoopStep

\* Buy and Sell: the fill is in the ledger when the handler returns.
LEMMA FillKeepsLedger ==
  ASSUME Inv, AppliedType, LedgerInv, ApplyFill
  PROVE  AppliedType' /\ LedgerInv'
  <1>1. Fill \in Fills
    BY LedgerAssumption DEF Fill, ApplyFill, NewFill, Inv, LoopInv, Working
  <1>2. fills' = fills \cup {Fill} /\ since' = since /\ Succeed
    BY DEF ApplyFill
  <1>3. AppliedType' /\ \A j \in 1..Len(applied') : applied'[j] \in fills'
    BY <1>1, <1>2, MarkedOnly DEF ApplyFill, LedgerInv
  <1>4. \A i : Settled(i) => Settled(i)'
    BY <1>2 DEF Settled, Succeed
  <1>5. Settled(current)'
    BY <1>2 DEF Settled, Fill, Succeed
  <1>. QED
    BY <1>2, <1>3, <1>4, <1>5 DEF Succeed, LedgerInv, Working

LEMMA LedgerNext ==
  Inv /\ AppliedType /\ LedgerInv /\ [Next]_vars => AppliedType' /\ LedgerInv'
  <1>. SUFFICES ASSUME Inv, AppliedType, LedgerInv, [Next]_vars
                PROVE  AppliedType' /\ LedgerInv'
    OBVIOUS
  <1>1. CASE UNCHANGED vars
    BY <1>1 DEF vars, consumerVars, loopVars, processVars, historyVars, ledgerVars,
                AppliedType, LedgerInv, Settled, Working
  <1>2. CASE ConsumerLoop \/ RejectEvent \/ FeedFails \/ RefuseSale \/ Process
    BY <1>2, LoopKeepsLedger
       DEF ConsumerLoop, RejectEvent, FeedFails, RefuseSale, Process, ledgerVars,
           AppliedType
  <1>3. CASE SkipEvent \/ SkipDuplicate
    <2>1. Settled(current)
      BY <1>3 DEF SkipEvent, SkipDuplicate, AlreadyApplied, LedgerInv, Settled, Fill
    <2>. QED
      BY <1>3, <2>1, LoopKeepsLedger
         DEF SkipEvent, SkipDuplicate, ledgerVars, AppliedType
  <1>4. CASE Buy \/ Sell
    BY <1>4, FillKeepsLedger DEF Buy, Sell
  <1>5. CASE RestartEmpty
    BY <1>5 DEF RestartEmpty, Restart, Inv, TypeOK, AppliedType, LedgerInv, Settled,
                Working, Offsets
  <1>. QED
    BY <1>1, <1>2, <1>3, <1>4, <1>5 DEF Next, ApplyOrderEvent

LEMMA LedgerInvHolds == Spec => [](AppliedType /\ LedgerInv)
  BY LedgerInit, LedgerNext, ConsumerInvHolds, PTL DEF Spec

\* Every executed event the offset has passed since the process started is in
\* the ledger, parked, or was reported as not parked: no crash, refused sale,
\* price outage or lost commit makes a fill disappear behind the offset.
THEOREM PassedIsApplied == Spec => []PassedMeansApplied
  <1>1. LedgerInv => PassedMeansApplied
    BY DEF LedgerInv, PassedMeansApplied, Settled
  <1>. QED
    BY <1>1, LedgerInvHolds, PTL

------------------------------------------------------------------------------
(* Types, and the cost of a position *)

\* What part of a position cost is at least nothing and at most all it cost.
LEMMA CostOfPart ==
  ASSUME NEW h \in [units : Nat, invested : Nat], NEW units \in 1..h.units
  PROVE  CostOf(h, units) \in 0..h.invested
  <1>. DEFINE num == 2 * h.invested * units + h.units
              den == 2 * h.units
  <1>1. h.units \in Nat \ {0} /\ h.invested \in Nat /\ units \in Nat
    OBVIOUS
  <1>2. h.invested * units \in Nat /\ h.invested * units <= h.invested * h.units
    BY <1>1
  <1>3. num \in Nat /\ den \in Nat \ {0} /\ num < den * (h.invested + 1)
    BY <1>1, <1>2
  <1>4. num \div den \in Nat /\ den * (num \div den) <= num
    BY <1>3
  <1>5. num \div den < h.invested + 1
    BY <1>1, <1>3, <1>4
  <1>. QED
    BY <1>1, <1>4, <1>5 DEF CostOf

PositionType ==
    /\ holding \in [units : Nat, invested : Nat]
    /\ released \in Nat
    /\ IsClosed(holding) => holding.invested = 0

LEMMA BuyKeepsPosition ==
  ASSUME PositionType, Inv, Buy
  PROVE  PositionType'
  <1>1. Fill \in Fills
    BY LedgerAssumption DEF Fill, Buy, ApplyFill, NewFill, Inv, LoopInv, Working
  <1>2. Units[Fill] \in Int /\ Units[Fill] > 0 /\ Amount[Fill] \in Nat
    BY <1>1, LedgerAssumption DEF Buy
  <1>3. holding.units \in Nat /\ holding.invested \in Nat
    BY DEF PositionType
  <1>. QED
    BY <1>2, <1>3 DEF Buy, ApplyBuy, PositionType, IsClosed

LEMMA SellKeepsPosition ==
  ASSUME PositionType, Inv, Sell
  PROVE  PositionType'
  <1>. DEFINE units == -Units[Fill]
  <1>1. Fill \in Fills
    BY LedgerAssumption DEF Fill, Sell, ApplyFill, NewFill, Inv, LoopInv, Working
  <1>2. units \in 1..holding.units
    BY <1>1, LedgerAssumption DEF Sell, Covers, PositionType
  <1>3. Released(holding, units) \in 0..holding.invested
    BY <1>2, CostOfPart DEF Released, PositionType
  <1>4. units = holding.units => Released(holding, units) = holding.invested
    BY DEF Released
  <1>5. holding.units \in Nat /\ holding.invested \in Nat /\ released \in Nat
    BY DEF PositionType
  <1>6. /\ holding' = [units |-> holding.units - units,
                      invested |-> holding.invested - Released(holding, units)]
        /\ released' = released + Released(holding, units)
    BY DEF Sell, ApplySell
  <1>. HIDE DEF units
  <1>. QED
    BY <1>2, <1>3, <1>4, <1>5, <1>6 DEF PositionType, IsClosed

LEMMA PositionNext == Inv /\ PositionType /\ [Next]_vars => PositionType'
  <1>1. UNCHANGED <<holding, released>> => (PositionType => PositionType')
    BY DEF PositionType
  <1>2. RestartEmpty => PositionType'
    BY DEF RestartEmpty, PositionType, NoHolding
  <1>. QED
    BY <1>1, <1>2, BuyKeepsPosition, SellKeepsPosition
       DEF Next, ConsumerLoop, ApplyOrderEvent, Process, RejectEvent, SkipEvent,
           FeedFails, SkipDuplicate, RefuseSale, vars, ledgerVars

HistoryType == fills \subseteq Fills /\ since \in 1..(NumEvents + 1)

LEMMA HistoryTypeNext == Inv /\ HistoryType /\ [Next]_vars => HistoryType'
  <1>1. ASSUME Inv, HistoryType, ApplyFill PROVE HistoryType'
    BY <1>1, LedgerAssumption
       DEF ApplyFill, NewFill, Fill, HistoryType, Inv, LoopInv, Working
  <1>2. Inv /\ RestartEmpty => HistoryType'
    BY DEF RestartEmpty, HistoryType, Inv, TypeOK
  <1>3. UNCHANGED <<fills, since>> => (HistoryType => HistoryType')
    BY DEF HistoryType
  <1>. QED
    BY <1>1, <1>2, <1>3
       DEF Next, ConsumerLoop, ApplyOrderEvent, Process, RejectEvent, SkipEvent,
           FeedFails, SkipDuplicate, Buy, Sell, RefuseSale, vars, ledgerVars

LEMMA TypesHold == Spec => [](PositionType /\ HistoryType)
  <1>1. Init => PositionType /\ HistoryType
    BY ConsumerAssumption DEF Init, PositionType, HistoryType, NoHolding, IsClosed
  <1>. QED
    BY <1>1, PositionNext, HistoryTypeNext, ConsumerInvHolds, PTL DEF Spec

\* Every variable keeps its type; in particular a sale never takes a position's
\* units or its cost below nothing, however its share is rounded.
THEOREM LedgerTyped == Spec => []LedgerTypeOK
  <1>1. Inv /\ AppliedType /\ PositionType /\ HistoryType => LedgerTypeOK
    BY DEF Inv, AppliedType, PositionType, HistoryType, LedgerTypeOK
  <1>. QED
    BY <1>1, ConsumerInvHolds, LedgerInvHolds, TypesHold, PTL

\* A position that is sold out has no cost left, whatever the partial sales
\* before have rounded: the rounding is made up for by the last of them.
THEOREM ClosedAtNoCost == Spec => [](IsClosed(holding) => holding.invested = 0)
  <1>1. PositionType => (IsClosed(holding) => holding.invested = 0)
    BY DEF PositionType
  <1>. QED
    BY <1>1, TypesHold, PTL

------------------------------------------------------------------------------
(* Sums over finite sets.  SmallestSet stands in for induction on the set.       *)

SumOf(f, S) == MapThenSumSet(LAMBDA e : f[e], S)

Pick(s) == CHOOSE x \in s : TRUE
Rest(s) == s \ {Pick(s)}

\* g is the recursion that defines a sum, on the subsets of S.
Adds(g, f, S) ==
    g = [s \in SUBSET S |-> IF s = {} THEN 0 ELSE f[Pick(s)] + g[Rest(s)]]

LEMMA SumByRecursion ==
  ASSUME NEW f, NEW S
  PROVE  SumOf(f, S) = (CHOOSE g : Adds(g, f, S))[S]
  BY DEF SumOf, MapThenSumSet, MapThenFoldSet, Adds, Pick, Rest

\* Among finite sets there is one none of the others is part of: this stands in for
\* induction over finite sets.
LEMMA SmallestSet ==
  ASSUME NEW S, NEW B \in SUBSET FiniteSubsetsOf(S), B # {}
  PROVE  \E T \in B : \A U \in B : ~(U \subseteq T /\ U # T)
  <1>1. \E T \in B : \A U \in B : <<U, T>> \notin StrictSubsetOrdering(S)
    BY FS_StrictSubsetOrderingWellFounded, WFMin
  <1>. QED
    BY <1>1 DEF StrictSubsetOrdering, FiniteSubsetsOf

LEMMA RestIsSmaller ==
  ASSUME NEW S, S # {}
  PROVE  Pick(S) \in S /\ Rest(S) \subseteq S /\ Rest(S) # S
  BY DEF Pick, Rest

LEMMA SumUnique ==
  ASSUME NEW f, NEW S, NEW T, IsFiniteSet(S), S \subseteq T,
         NEW g, Adds(g, f, S), NEW h, Adds(h, f, T)
  PROVE  \A r \in SUBSET S : g[r] = h[r]
  <1>. DEFINE B == {r \in FiniteSubsetsOf(S) : g[r] # h[r]}
  <1>1. \A r \in SUBSET S : r \in FiniteSubsetsOf(S)
    BY FS_Subset DEF FiniteSubsetsOf
  <1>2. SUFFICES ASSUME B # {} PROVE FALSE
    BY <1>1
  <1>3. PICK r \in B : \A q \in B : ~(q \subseteq r /\ q # r)
    <2>1. B \subseteq FiniteSubsetsOf(S)
      OBVIOUS
    <2>. HIDE DEF B
    <2>. QED
      BY <1>2, <2>1, SmallestSet
  <1>4. r \in SUBSET S /\ r \in SUBSET T
    BY DEF FiniteSubsetsOf
  <1>5. r # {}
    BY <1>4 DEF Adds
  <1>6. Rest(r) \subseteq r /\ Rest(r) # r
    BY <1>5, RestIsSmaller
  <1>7. g[Rest(r)] = h[Rest(r)]
    BY <1>1, <1>3, <1>4, <1>6
  <1>. QED
    BY <1>4, <1>5, <1>7 DEF Adds

LEMMA SumExists ==
  ASSUME NEW f, NEW S, IsFiniteSet(S)
  PROVE  \E g : Adds(g, f, S)
  <1>. DEFINE B == {T \in FiniteSubsetsOf(S) : ~ \E g : Adds(g, f, T)}
              h(r) == (CHOOSE g : Adds(g, f, r))[r]
  <1>1. SUFFICES ASSUME B # {} PROVE FALSE
    BY FS_Subset DEF FiniteSubsetsOf
  <1>2. PICK T \in B : \A U \in B : ~(U \subseteq T /\ U # T)
    <2>1. B \subseteq FiniteSubsetsOf(S)
      OBVIOUS
    <2>. HIDE DEF B
    <2>. QED
      BY <1>1, <2>1, SmallestSet
  <1>3. T \subseteq S /\ IsFiniteSet(T)
    BY DEF FiniteSubsetsOf
  <1>4. ASSUME NEW r \in SUBSET T, r # T
        PROVE  IsFiniteSet(r) /\ Adds(CHOOSE g : Adds(g, f, r), f, r)
    <2>1. r \in FiniteSubsetsOf(S)
      BY <1>3, FS_Subset DEF FiniteSubsetsOf
    <2>2. \E g : Adds(g, f, r)
      BY <1>2, <1>4, <2>1
    <2>. QED
      BY <2>1, <2>2 DEF FiniteSubsetsOf
  <1>5. ASSUME NEW r \in SUBSET T, r # T
        PROVE  h(r) = IF r = {} THEN 0 ELSE f[Pick(r)] + h(Rest(r))
    <2>. DEFINE g == CHOOSE g : Adds(g, f, r)
                k == CHOOSE k : Adds(k, f, Rest(r))
    <2>1. Adds(g, f, r)
      BY <1>4, <1>5
    <2>2. ASSUME r # {}
          PROVE  k[Rest(r)] = g[Rest(r)]
      <3>1. Rest(r) \subseteq r /\ Rest(r) \subseteq T /\ Rest(r) # T
        BY <1>5, <2>2, RestIsSmaller
      <3>2. Adds(k, f, Rest(r)) /\ IsFiniteSet(Rest(r))
        BY <1>4, <3>1
      <3>. HIDE DEF g, k
      <3>. QED
        BY <2>1, <3>1, <3>2, SumUnique
    <2>3. g[r] = IF r = {} THEN 0 ELSE f[Pick(r)] + g[Rest(r)]
      <3>. HIDE DEF g
      <3>. QED
        BY <2>1 DEF Adds
    <2>. QED
      BY <2>2, <2>3
  <1>. DEFINE g == [r \in SUBSET T |-> IF r = {} THEN 0 ELSE f[Pick(r)] + h(Rest(r))]
  <1>. HIDE DEF h
  <1>6. ASSUME NEW r \in SUBSET T, r # {}
        PROVE  h(Rest(r)) = g[Rest(r)]
    <2>1. Rest(r) \subseteq T /\ Rest(r) # T
      BY <1>6, RestIsSmaller
    <2>. QED
      BY <1>5, <2>1
  <1>7. Adds(g, f, T)
    BY <1>6 DEF Adds
  <1>. QED
    BY <1>2, <1>7

\* A sum is what its recursion says.
LEMMA SumStep ==
  ASSUME NEW f, NEW S, IsFiniteSet(S)
  PROVE  SumOf(f, S) = IF S = {} THEN 0 ELSE f[Pick(S)] + SumOf(f, Rest(S))
  <1>. DEFINE g == CHOOSE g : Adds(g, f, S)
              h == CHOOSE h : Adds(h, f, Rest(S))
  <1>1. Rest(S) \subseteq S /\ IsFiniteSet(Rest(S))
    BY FS_Subset DEF Rest
  <1>2. Adds(g, f, S)
    BY SumExists
  <1>3. Adds(h, f, Rest(S))
    BY <1>1, SumExists
  <1>4. SumOf(f, S) = g[S] /\ SumOf(f, Rest(S)) = h[Rest(S)]
    BY SumByRecursion
  <1>. HIDE DEF g, h
  <1>5. h[Rest(S)] = g[Rest(S)]
    BY <1>1, <1>2, <1>3, SumUnique
  <1>. QED
    BY <1>2, <1>4, <1>5 DEF Adds

LEMMA SumType ==
  ASSUME NEW D, NEW f \in [D -> Int], NEW S \in SUBSET D, IsFiniteSet(S)
  PROVE  SumOf(f, S) \in Int
  <1>. DEFINE B == {T \in FiniteSubsetsOf(S) : SumOf(f, T) \notin Int}
  <1>1. SUFFICES ASSUME B # {} PROVE FALSE
    BY FS_Subset DEF FiniteSubsetsOf
  <1>2. PICK T \in B : \A U \in B : ~(U \subseteq T /\ U # T)
    <2>1. B \subseteq FiniteSubsetsOf(S)
      OBVIOUS
    <2>. HIDE DEF B
    <2>. QED
      BY <1>1, <2>1, SmallestSet
  <1>3. T \subseteq S /\ IsFiniteSet(T)
    BY DEF FiniteSubsetsOf
  <1>4. T # {}
    <2>1. SumOf(f, T) \notin Int
      BY <1>2
    <2>2. T = {} => SumOf(f, T) = 0
      BY <1>3, SumStep
    <2>. QED
      BY <2>1, <2>2
  <1>5. Pick(T) \in T /\ Rest(T) \subseteq T /\ Rest(T) # T
    BY <1>4, RestIsSmaller
  <1>6. Rest(T) \in FiniteSubsetsOf(S)
    BY <1>3, <1>5, FS_Subset DEF FiniteSubsetsOf
  <1>7. SumOf(f, Rest(T)) \in Int
    BY <1>2, <1>5, <1>6
  <1>8. f[Pick(T)] \in Int
    BY <1>3, <1>5
  <1>. QED
    BY <1>2, <1>3, <1>4, <1>7, <1>8, SumStep

LEMMA SumRemove ==
  ASSUME NEW D, NEW f \in [D -> Int], NEW S \in SUBSET D, IsFiniteSet(S), NEW x \in S
  PROVE  SumOf(f, S) = f[x] + SumOf(f, S \ {x})
  <1>. DEFINE Splits(T) == \A y \in T : SumOf(f, T) = f[y] + SumOf(f, T \ {y})
              B == {T \in FiniteSubsetsOf(S) : ~Splits(T)}
  <1>1. SUFFICES ASSUME B # {} PROVE FALSE
    BY FS_Subset DEF FiniteSubsetsOf
  <1>2. PICK T \in B : \A U \in B : ~(U \subseteq T /\ U # T)
    <2>1. B \subseteq FiniteSubsetsOf(S)
      OBVIOUS
    <2>. HIDE DEF B
    <2>. QED
      BY <1>1, <2>1, SmallestSet
  <1>3. T \subseteq S /\ IsFiniteSet(T)
    BY DEF FiniteSubsetsOf
  <1>4. PICK y \in T : SumOf(f, T) # f[y] + SumOf(f, T \ {y})
    BY <1>2
  <1>. DEFINE p == Pick(T)
              U == T \ {p}
              V == T \ {y}
              W == T \ {p, y}
  <1>5. p \in T
    BY <1>4, RestIsSmaller
  <1>6. /\ SumOf(f, T) = f[p] + SumOf(f, U)
        /\ p # y
    <2>1. SumOf(f, T) = f[p] + SumOf(f, U)
      BY <1>3, <1>4, SumStep DEF Rest
    <2>. QED
      BY <1>4, <2>1
  <1>7. /\ U \in FiniteSubsetsOf(S) /\ V \in FiniteSubsetsOf(S) /\ W \in FiniteSubsetsOf(S)
    BY <1>3, FS_Subset DEF FiniteSubsetsOf
  <1>8. Splits(U) /\ Splits(V)
    BY <1>2, <1>4, <1>5, <1>7
  <1>9. SumOf(f, U) = f[y] + SumOf(f, W)
    <2>1. y \in U /\ U \ {y} = W
      BY <1>6
    <2>. QED
      BY <1>8, <2>1
  <1>10. SumOf(f, V) = f[p] + SumOf(f, W)
    <2>1. p \in V /\ V \ {p} = W
      BY <1>5, <1>6
    <2>. QED
      BY <1>8, <2>1
  <1>11. SumOf(f, W) \in Int /\ f[p] \in Int /\ f[y] \in Int
    <2>1. W \in SUBSET D /\ IsFiniteSet(W)
      BY <1>3, <1>7 DEF FiniteSubsetsOf
    <2>. QED
      BY <1>3, <1>5, <2>1, SumType
  <1>. QED
    BY <1>4, <1>6, <1>9, <1>10, <1>11

LEMMA SumOfNothing ==
  ASSUME NEW f PROVE SumOf(f, {}) = 0
  BY FS_EmptySet, SumStep

\* One element more.
LEMMA SumAdd ==
  ASSUME NEW D, NEW f \in [D -> Int], NEW S \in SUBSET D, IsFiniteSet(S),
         NEW x \in D, x \notin S
  PROVE  SumOf(f, S \cup {x}) = SumOf(f, S) + f[x] /\ SumOf(f, S) \in Int
  <1>. DEFINE T == S \cup {x}
  <1>1. T \in SUBSET D /\ IsFiniteSet(T) /\ x \in T /\ T \ {x} = S
    BY FS_AddElement
  <1>. HIDE DEF T
  <1>2. SumOf(f, T) = f[x] + SumOf(f, S)
    BY <1>1, SumRemove
  <1>3. SumOf(f, S) \in Int /\ f[x] \in Int
    BY SumType
  <1>. QED
    BY <1>2, <1>3 DEF T

------------------------------------------------------------------------------
(* A position and the fills behind it *)

Bought == {e \in fills : Units[e] > 0}

SumInv ==
    /\ IsFiniteSet(fills)
    /\ holding.units = SumOf(Units, fills)
    /\ holding.invested + released = SumOf(Amount, Bought)

\* A redelivery comes while its id is still in the deduplication set.
RedeliveredInTime == NewFill => Fill \notin fills

LEMMA SumInit == Init => SumInv
  <1>1. Init => fills = {} /\ Bought = {}
    BY DEF Init, Bought
  <1>. QED
    BY <1>1, FS_EmptySet, SumOfNothing DEF Init, SumInv, NoHolding

\* A fill that was not applied before adds its units to the position; bought, it
\* adds its cost, and sold, it turns cost held into cost released.
LEMMA FillKeepsSum ==
  ASSUME Inv, PositionType, HistoryType, SumInv, RedeliveredInTime, Buy \/ Sell
  PROVE  SumInv'
  <1>1. Fill \in Fills /\ Fill \notin fills /\ fills' = fills \cup {Fill}
    BY LedgerAssumption DEF Buy, Sell, ApplyFill, NewFill, Fill, Inv, LoopInv, Working,
       RedeliveredInTime
  <1>2. /\ Units \in [Fills -> Int] /\ Amount \in [Fills -> Int]
        /\ fills \in SUBSET Fills /\ IsFiniteSet(fills)
        /\ Bought \in SUBSET Fills /\ IsFiniteSet(Bought)
    BY LedgerAssumption, FS_Subset DEF HistoryType, SumInv, Bought
  <1>3. /\ IsFiniteSet(fills')
        /\ SumOf(Units, fills') = holding.units + Units[Fill]
    <2>1. SumOf(Units, fills \cup {Fill}) = SumOf(Units, fills) + Units[Fill]
      BY <1>1, <1>2, SumAdd
    <2>. QED
      BY <1>1, <1>2, <2>1, FS_AddElement DEF SumInv
  <1>4. holding.units \in Nat /\ holding.invested \in Nat /\ released \in Nat
    BY DEF PositionType
  <1>5. CASE Buy
    <2>1. Bought' = Bought \cup {Fill} /\ Fill \notin Bought
      BY <1>1, <1>5 DEF Bought, Buy
    <2>2. SumOf(Amount, Bought') = holding.invested + released + Amount[Fill]
      BY <1>1, <1>2, <2>1, SumAdd DEF SumInv
    <2>3. /\ holding' = [units |-> holding.units + Units[Fill],
                        invested |-> holding.invested + Amount[Fill]]
          /\ released' = released
      BY <1>5 DEF Buy, ApplyBuy
    <2>. QED
      BY <1>1, <1>2, <1>3, <1>4, <2>2, <2>3 DEF SumInv
  <1>6. CASE Sell
    <2>. DEFINE units == -Units[Fill]
    <2>1. Bought' = Bought
      BY <1>1, <1>2, <1>6 DEF Bought, Sell
    <2>2. units \in 1..holding.units /\ Units[Fill] \in Int
      BY <1>1, <1>2, <1>4, <1>6 DEF Sell, Covers
    <2>3. Released(holding, units) \in Int
      BY <1>4, <2>2, CostOfPart DEF Released, PositionType
    <2>4. /\ holding' = [units |-> holding.units - units,
                        invested |-> holding.invested - Released(holding, units)]
          /\ released' = released + Released(holding, units)
      BY <1>6 DEF Sell, ApplySell
    <2>5. holding.units - units = holding.units + Units[Fill]
      BY <1>4, <2>2
    <2>. HIDE DEF units
    <2>6. holding'.units = SumOf(Units, fills')
      BY <1>3, <2>4, <2>5
    <2>7. holding'.invested + released' = holding.invested + released
      BY <1>4, <2>3, <2>4
    <2>. QED
      BY <1>3, <2>1, <2>6, <2>7 DEF SumInv
  <1>. QED
    BY <1>5, <1>6

LEMMA SumNext ==
  Inv /\ PositionType /\ HistoryType /\ SumInv /\ RedeliveredInTime /\ [Next]_vars => SumInv'
  <1>1. UNCHANGED <<holding, fills, released>> => (SumInv => SumInv')
    BY DEF SumInv, Bought
  <1>2. ASSUME RestartEmpty PROVE SumInv'
    <2>1. fills' = {} /\ Bought' = {}
      BY <1>2 DEF RestartEmpty, Bought
    <2>. QED
      BY <1>2, <2>1, FS_EmptySet, SumOfNothing DEF RestartEmpty, SumInv, NoHolding
  <1>. QED
    BY <1>1, <1>2, FillKeepsSum
       DEF Next, ConsumerLoop, ApplyOrderEvent, Process, RejectEvent, SkipEvent,
           FeedFails, SkipDuplicate, RefuseSale, vars, ledgerVars

LEMMA SumMeans ==
  ASSUME PositionType, SumInv
  PROVE  PositionIsSumOfFills /\ CostConserved
  <1>1. PositionIsSumOfFills
    BY DEF SumInv, SumOf, PositionIsSumOfFills
  <1>2. holding.invested + released = MapThenSumSet(LAMBDA e : Amount[e], Bought)
    BY DEF SumInv, SumOf
  <1>3. 0 <= holding.invested /\ (holding.units = 0 => holding.invested = 0)
    BY DEF PositionType, IsClosed
  <1>. QED
    BY <1>1, <1>2, <1>3 DEF CostConserved, Bought

\* The position is the sum of the distinct fills this process has applied as long as
\* no redelivery comes too late for the deduplication set to know it, whatever
\* crashes, rebalances, retries and duplicates on the log there are.
THEOREM PositionSummed == Spec /\ []RedeliveredInTime => []PositionIsSumOfFills
  BY SumInit, SumNext, SumMeans, ConsumerInvHolds, TypesHold, PTL DEF Spec

\* Under the same condition every paisa invested is held or was released by a sale.
THEOREM CostSummed == Spec /\ []RedeliveredInTime => []CostConserved
  BY SumInit, SumNext, SumMeans, ConsumerInvHolds, TypesHold, PTL DEF Spec

------------------------------------------------------------------------------
(* The deduplication set below its cap *)

\* Until more fills were applied than the set can hold, it holds them all.
KnownInv ==
    /\ IsFiniteSet(fills)
    /\ Cardinality(fills) <= MaxAppliedEvents =>
           /\ Len(applied) = Cardinality(fills)
           /\ \A e \in fills : AlreadyApplied(e)
           /\ SumInv

LEMMA FillKeepsKnown ==
  ASSUME Inv, AppliedType, LedgerInv, PositionType, HistoryType, KnownInv, Buy \/ Sell
  PROVE  KnownInv'
  <1>1. /\ Fill \in Fills /\ fills' = fills \cup {Fill}
        /\ ~AlreadyApplied(Fill) /\ MarkApplied(Fill)
    BY LedgerAssumption DEF Buy, Sell, ApplyFill, NewFill, Fill, Inv, LoopInv, Working
  <1>2. /\ IsFiniteSet(fills) /\ IsFiniteSet(fills')
        /\ Cardinality(fills) \in Nat
        /\ Cardinality(fills') = IF Fill \in fills THEN Cardinality(fills)
                                 ELSE Cardinality(fills) + 1
    BY <1>1, FS_AddElement, FS_CardinalityType DEF KnownInv
  <1>3. SUFFICES ASSUME Cardinality(fills') <= MaxAppliedEvents
                 PROVE  /\ Len(applied') = Cardinality(fills')
                        /\ \A e \in fills' : AlreadyApplied(e)'
                        /\ SumInv'
    BY <1>2 DEF KnownInv
  <1>4. Cardinality(fills) <= MaxAppliedEvents
    BY <1>2, <1>3, LedgerAssumption
  <1>5. Fill \notin fills /\ Cardinality(fills') = Cardinality(fills) + 1
    BY <1>1, <1>2, <1>4 DEF KnownInv
  <1>. DEFINE all == Append(applied, Fill)
  <1>6. /\ all \in Seq(Fills) /\ Len(all) = Len(applied) + 1
        /\ all[Len(applied) + 1] = Fill
        /\ \A i \in 1..Len(applied) : all[i] = applied[i]
    BY <1>1 DEF AppliedType
  <1>7. applied' = all
    <2>1. Len(all) <= MaxAppliedEvents
      BY <1>3, <1>4, <1>5, <1>6 DEF KnownInv
    <2>2. ~(Len(all) > MaxAppliedEvents)
      BY <2>1, <1>6, LedgerAssumption
    <2>. QED
      BY <1>1, <2>2 DEF MarkApplied
  <1>. HIDE DEF all
  <1>8. Len(applied) \in Nat
    BY DEF AppliedType
  <1>9. ASSUME NEW e \in fills' PROVE AlreadyApplied(e)'
    <2>1. CASE e = Fill
      BY <1>6, <1>7, <1>8, <2>1 DEF AlreadyApplied
    <2>2. CASE e \in fills
      BY <1>4, <1>6, <1>7, <1>8, <2>2 DEF AlreadyApplied, KnownInv
    <2>. QED
      BY <1>1, <2>1, <2>2
  <1>10. SumInv'
    BY <1>4, <1>5, FillKeepsSum DEF KnownInv, RedeliveredInTime
  <1>. QED
    BY <1>4, <1>5, <1>6, <1>7, <1>9, <1>10 DEF KnownInv

LEMMA KnownNext ==
  /\ Inv /\ AppliedType /\ LedgerInv /\ PositionType /\ HistoryType
  /\ KnownInv /\ [Next]_vars
  => KnownInv'
  <1>1. UNCHANGED <<holding, applied, fills, released>> => (KnownInv => KnownInv')
    BY DEF KnownInv, SumInv, Bought, AlreadyApplied
  <1>2. ASSUME RestartEmpty PROVE KnownInv'
    <2>1. fills' = {} /\ Bought' = {} /\ applied' = <<>>
      BY <1>2 DEF RestartEmpty, Bought
    <2>. QED
      BY <1>2, <2>1, FS_EmptySet, SumOfNothing
         DEF RestartEmpty, KnownInv, SumInv, NoHolding
  <1>. QED
    BY <1>1, <1>2, FillKeepsKnown
       DEF Next, ConsumerLoop, ApplyOrderEvent, Process, RejectEvent, SkipEvent,
           FeedFails, SkipDuplicate, RefuseSale, vars, ledgerVars

\* No condition on redeliveries is needed until a process has applied more fills than
\* its deduplication set holds: the position is their sum and its cost is accounted for.
THEOREM SummedBelowCap ==
  Spec => [](Cardinality(fills) <= MaxAppliedEvents =>
                 PositionIsSumOfFills /\ CostConserved)
  <1>1. Init => KnownInv
    BY SumInit, FS_EmptySet DEF Init, KnownInv, SumInv
  <1>2. PositionType /\ KnownInv =>
            (Cardinality(fills) <= MaxAppliedEvents =>
                 PositionIsSumOfFills /\ CostConserved)
    BY SumMeans DEF KnownInv
  <1>. QED
    BY <1>1, <1>2, KnownNext, ConsumerInvHolds, LedgerInvHolds, TypesHold, PTL DEF Spec
==============================================================================
