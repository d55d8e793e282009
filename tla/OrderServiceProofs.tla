-------------------------- MODULE OrderServiceProofs --------------------------
(***************************************************************************)
(* What OrderService guarantees for any number of orders, keys and        *)
(* concurrent requests, any length of the outbox and any combination of   *)
(* faults.                                                                 *)
(*                                                                         *)
(* The argument: a request that is about to write carries a legal          *)
(* transition from the status it read (RequestsLegal); the conditional     *)
(* UPDATE writes only if that status is still the row's; hence every step  *)
(* is a step of OrderLifecycle on the tables, and the histories            *)
(* OrderLifecycle builds are legal (HistoryInv).                           *)
(*                                                                         *)
(* The last sections are about keys without faults (GuardInv) and about    *)
(* the process that serves and shuts down, which takes the service through *)
(* its own steps: what it has waited for is over (DrainInv), its final      *)
(* flush leaves no row behind, and its orders have settled (WorkInv).       *)
(***************************************************************************)
EXTENDS OrderProcess, FiniteSetTheorems, TLAPS

\* What a request has checked before it writes.
RequestsLegal ==
    \A h \in Handlers :
        /\ handler[h].pc \in {"insert", "update", "delete"}
               => handler[h].order \in Orders
        /\ handler[h].pc = "insert" => handler[h].key \in Keys
        /\ handler[h].pc = "update" =>
               /\ handler[h].cur \in OrderStatus
               /\ handler[h].next \in OrderStatus
               /\ CanTransitionStatus(handler[h].cur, handler[h].next)

Inv == TypeOK /\ RequestsLegal

------------------------------------------------------------------------------
(* Type correctness and legal requests *)

LEMMA InitInv == Init => Inv
  BY ServiceAssumption
     DEF Init, Inv, TypeOK, RequestsLegal, RowState, HandlerState, HandlerPc,
         WorkerPc, Idle

\* Appending a status to one order's rows keeps the tables typed.
LEMMA RecordType ==
    ASSUME TypeOK, NEW o \in Orders, NEW s \in OrderStatus, Record(o, s)
    PROVE  /\ orders' \in [Orders -> RowState]
           /\ outbox' \in [Orders -> Seq(OrderStatus)]
  <1>1. outbox[o] \in Seq(OrderStatus)
    BY DEF TypeOK
  <1>2. Append(outbox[o], s) \in Seq(OrderStatus)
    BY <1>1
  <1>. QED
    BY <1>2 DEF TypeOK, Record, RowState

\* A step of a request moves no other request, and the one it moves to one of
\* three places.
LEMMA HandlerMoves ==
    ASSUME Inv, NEW h \in Handlers,
           \/ Return(h)
           \/ Goto(h, "release")
    PROVE  /\ handler' \in [Handlers -> HandlerState]
           /\ RequestsLegal'
  <1>. TypeOK /\ RequestsLegal
    BY DEF Inv
  <1>1. Idle \in HandlerState /\ Idle.pc = "idle"
    BY DEF Idle, HandlerState, HandlerPc, RowState
  <1>2. CASE Return(h)
    BY <1>1, <1>2 DEF Return, TypeOK, RequestsLegal
  <1>3. CASE Goto(h, "release")
    <2>1. [handler[h] EXCEPT !.pc = "release"] \in HandlerState
      BY DEF TypeOK, HandlerState, HandlerPc
    <2>2. handler' = [handler EXCEPT ![h] = [handler[h] EXCEPT !.pc = "release"]]
      BY <1>3 DEF Goto
    <2>3. handler'[h].pc = "release"
      BY <2>2 DEF TypeOK, HandlerState
    <2>4. \A g \in Handlers \ {h} : handler'[g] = handler[g]
      BY <2>2 DEF TypeOK
    <2>. QED
      BY <2>1, <2>2, <2>3, <2>4 DEF TypeOK, RequestsLegal
  <1>. QED
    BY <1>2, <1>3

LEMMA RequestInv ==
    ASSUME Inv, NEW h \in Handlers, Request(h)
    PROVE  Inv'
  <1>1. ASSUME NEW k \in Keys, NEW o \in Orders, Claim(h, k, o)
        PROVE  Inv'
    BY <1>1 DEF Claim, Inv, TypeOK, RequestsLegal, SetKey, tables,
                HandlerState, HandlerPc, Idle, RowState, OrderStatus
  <1>2. ASSUME NEW k \in Keys, ClaimUnseen(h, k)
        PROVE  Inv'
    BY <1>2 DEF ClaimUnseen, Inv, TypeOK, RequestsLegal, SetKey, tables
  <1>3. ASSUME NEW o \in Orders, NEW next \in PatchTargets,
               ReadForUpdate(h, o, next)
        PROVE  Inv'
    <2>1. next \in OrderStatus /\ orders[o] \in OrderStatus
      BY <1>3, ServiceAssumption DEF ReadForUpdate, Live
    <2>. QED
      BY <1>3, <2>1 DEF ReadForUpdate, Inv, TypeOK, RequestsLegal, tables,
                        HandlerState, HandlerPc, Idle, RowState
  <1>4. ASSUME NEW o \in Orders, ReadForDelete(h, o)
        PROVE  Inv'
    BY <1>4 DEF ReadForDelete, Inv, TypeOK, RequestsLegal, tables,
                HandlerState, HandlerPc, Idle, RowState, OrderStatus
  <1>. QED
    BY <1>1, <1>2, <1>3, <1>4 DEF Request

LEMMA PlaceInv ==
    ASSUME Inv, NEW h \in Handlers, PlaceStep(h)
    PROVE  Inv'
  <1>. /\ "PENDING" \in OrderStatus
       /\ TypeOK /\ RequestsLegal
    BY DEF Inv, OrderStatus
  <1>1. CASE InsertCommits(h)
    <2>1. handler[h].order \in Orders /\ handler[h].key \in Keys
      BY <1>1 DEF InsertCommits, RequestsLegal
    <2>2. /\ orders' \in [Orders -> RowState]
          /\ outbox' \in [Orders -> Seq(OrderStatus)]
      BY <1>1, <2>1, RecordType DEF InsertCommits, CreateWithOutbox
    <2>3. handler' \in [Handlers -> HandlerState] /\ RequestsLegal'
      BY <1>1, HandlerMoves DEF InsertCommits
    <2>. QED
      BY <1>1, <2>1, <2>2, <2>3
         DEF InsertCommits, CreateWithOutbox, Inv, TypeOK, WorkerPc
  <1>2. CASE InsertUnseen(h)
    <2>1. handler[h].order \in Orders /\ handler[h].key \in Keys
      BY <1>2 DEF InsertUnseen, RequestsLegal
    <2>2. /\ orders' \in [Orders -> RowState]
          /\ outbox' \in [Orders -> Seq(OrderStatus)]
      BY <1>2, <2>1, RecordType DEF InsertUnseen, CreateWithOutbox
    <2>3. handler' \in [Handlers -> HandlerState] /\ RequestsLegal'
      BY <1>2, HandlerMoves DEF InsertUnseen
    <2>. QED
      BY <1>2, <2>1, <2>2, <2>3 DEF InsertUnseen, CreateWithOutbox, Inv, TypeOK
  <1>3. CASE InsertFails(h)
    BY <1>3, HandlerMoves DEF InsertFails, Inv, TypeOK, tables
  <1>4. CASE Release(h)
    BY <1>4, HandlerMoves DEF Release, Inv, TypeOK, tables, SetKey
  <1>5. CASE ReleaseFails(h)
    BY <1>5, HandlerMoves DEF ReleaseFails, Inv, TypeOK, tables
  <1>. QED
    BY <1>1, <1>2, <1>3, <1>4, <1>5 DEF PlaceStep

LEMMA UpdateInv ==
    ASSUME Inv, NEW h \in Handlers, UpdateStep(h)
    PROVE  Inv'
  <1>. TypeOK /\ RequestsLegal
    BY DEF Inv
  <1>1. CASE UpdateCommits(h)
    <2>1. handler[h].order \in Orders /\ handler[h].next \in OrderStatus
      BY <1>1 DEF UpdateCommits, RequestsLegal
    <2>2. /\ orders' \in [Orders -> RowState]
          /\ outbox' \in [Orders -> Seq(OrderStatus)]
      BY <1>1, <2>1, RecordType DEF UpdateCommits, UpdateStatusWithOutbox
    <2>3. handler' \in [Handlers -> HandlerState] /\ RequestsLegal'
      BY <1>1, HandlerMoves DEF UpdateCommits
    <2>. QED
      BY <1>1, <2>2, <2>3
         DEF UpdateCommits, UpdateStatusWithOutbox, Inv, TypeOK
  <1>2. CASE UpdateFails(h)
    BY <1>2, HandlerMoves DEF UpdateFails, Inv, TypeOK, tables
  <1>. QED
    BY <1>1, <1>2 DEF UpdateStep

LEMMA DeleteInv ==
    ASSUME Inv, NEW h \in Handlers, DeleteStep(h)
    PROVE  Inv'
  <1>1. CASE DeleteCommits(h)
    BY <1>1, HandlerMoves DEF DeleteCommits, DeleteRow, Inv, TypeOK, RowState
  <1>2. CASE DeleteUnseen(h)
    BY <1>2, HandlerMoves DEF DeleteUnseen, DeleteRow, Inv, TypeOK, RowState
  <1>3. CASE DeleteFails(h)
    BY <1>3, HandlerMoves DEF DeleteFails, Inv, TypeOK, tables
  <1>. QED
    BY <1>1, <1>2, <1>3 DEF DeleteStep

LEMMA WorkerInv ==
    ASSUME Inv, NEW o \in Orders, WorkerStep(o)
    PROVE  Inv'
  <1>. /\ TypeOK /\ RequestsLegal
       /\ {"PROCESSING", "EXECUTED"} \subseteq OrderStatus
    BY DEF Inv, OrderStatus
  <1>1. CASE Load(o) \/ Yield(o) \/ Confirm(o) \/ WorkerFails(o)
    BY <1>1 DEF Load, Yield, Confirm, WorkerFails, WorkerGoto, SetKey, Inv,
                TypeOK, RequestsLegal, tables, WorkerPc
  <1>2. ASSUME NEW cur, NEW next \in {"PROCESSING", "EXECUTED"},
               NEW to \in WorkerPc,
               UpdateStatusWithOutbox(o, cur, next), WorkerGoto(o, to),
               UNCHANGED <<redis, handler>>
        PROVE  Inv'
    <2>1. /\ orders' \in [Orders -> RowState]
          /\ outbox' \in [Orders -> Seq(OrderStatus)]
      BY <1>2, RecordType DEF UpdateStatusWithOutbox
    <2>. QED
      BY <1>2, <2>1 DEF UpdateStatusWithOutbox, WorkerGoto, Inv, TypeOK,
                        RequestsLegal
  <1>3. CASE StartProcessing(o)
    BY <1>2, <1>3 DEF StartProcessing, WorkerPc
  <1>4. CASE Finalize(o)
    BY <1>2, <1>4 DEF Finalize, WorkerPc
  <1>5. CASE WorkerUnseen(o)
    BY <1>2, <1>5 DEF WorkerUnseen, WorkerPc
  <1>. QED
    BY <1>1, <1>3, <1>4, <1>5 DEF WorkerStep

LEMMA EnvironmentInv ==
    ASSUME Inv,
           \/ \E H \in SUBSET Handlers, W \in SUBSET Orders : Crash(H, W)
           \/ \E k \in Keys : Expire(k)
    PROVE  Inv'
  <1>1. ASSUME NEW H \in SUBSET Handlers, NEW W \in SUBSET Orders, Crash(H, W)
        PROVE  Inv'
    BY <1>1 DEF Crash, Inv, TypeOK, RequestsLegal, tables, HandlerState,
                HandlerPc, WorkerPc, Idle, RowState
  <1>2. ASSUME NEW k \in Keys, Expire(k)
        PROVE  Inv'
    BY <1>2 DEF Expire, SetKey, Inv, TypeOK, RequestsLegal, tables
  <1>. QED
    BY <1>1, <1>2

LEMMA NextInv == Inv /\ [Next]_vars => Inv'
  <1>. SUFFICES ASSUME Inv, [Next]_vars PROVE Inv'
    OBVIOUS
  <1>1. CASE UNCHANGED vars
    BY <1>1 DEF vars, Inv, TypeOK, RequestsLegal
  <1>2. CASE Next
    BY <1>2, RequestInv, PlaceInv, UpdateInv, DeleteInv, WorkerInv,
       EnvironmentInv DEF Next, HandlerStep
  <1>. QED
    BY <1>1, <1>2

\* Every variable keeps its type, and a request that is about to write carries
\* a legal transition from the status it read.
THEOREM Typed == Spec => [](TypeOK /\ RequestsLegal)
  BY InitInv, NextInv, PTL DEF Spec, Inv

------------------------------------------------------------------------------
(* The three ways the tables change *)

TableChange ==
    \/ \E o \in Orders, k \in Keys : CreateWithOutbox(o, k)
    \/ \E o \in Orders, cur \in OrderStatus, next \in OrderStatus :
           CanTransitionStatus(cur, next) /\ UpdateStatusWithOutbox(o, cur, next)
    \/ \E o \in Orders : DeleteRow(o)

LEMMA HandlerTables ==
    ASSUME Inv, NEW h \in Handlers, Request(h) \/ HandlerStep(h)
    PROVE  TableChange \/ UNCHANGED tables
  <1>. TypeOK /\ RequestsLegal
    BY DEF Inv
  <1>1. CASE Request(h)
    BY <1>1 DEF Request, Claim, ClaimUnseen, ReadForUpdate, ReadForDelete
  <1>2. CASE PlaceStep(h)
    <2>1. CASE InsertCommits(h) \/ InsertUnseen(h)
      BY <2>1 DEF InsertCommits, InsertUnseen, RequestsLegal, TableChange
    <2>2. CASE InsertFails(h) \/ Release(h) \/ ReleaseFails(h)
      BY <2>2 DEF InsertFails, Release, ReleaseFails
    <2>. QED
      BY <1>2, <2>1, <2>2 DEF PlaceStep
  <1>3. CASE UpdateStep(h)
    BY <1>3 DEF UpdateStep, UpdateCommits, UpdateFails, RequestsLegal, TableChange
  <1>4. CASE DeleteStep(h)
    BY <1>4 DEF DeleteStep, DeleteCommits, DeleteUnseen, DeleteFails,
                RequestsLegal, TableChange
  <1>. QED
    BY <1>1, <1>2, <1>3, <1>4 DEF HandlerStep

LEMMA WorkerTables ==
    ASSUME NEW o \in Orders, WorkerStep(o)
    PROVE  TableChange \/ UNCHANGED tables
  <1>. /\ {"PENDING", "PROCESSING", "EXECUTED"} \subseteq OrderStatus
       /\ CanTransitionStatus("PENDING", "PROCESSING")
       /\ CanTransitionStatus("PROCESSING", "EXECUTED")
    BY DEF OrderStatus, CanTransitionStatus
  <1>1. CASE Load(o) \/ Yield(o) \/ Confirm(o) \/ WorkerFails(o)
    BY <1>1 DEF Load, Yield, Confirm, WorkerFails
  <1>2. CASE StartProcessing(o) \/ Finalize(o) \/ WorkerUnseen(o)
    BY <1>2 DEF StartProcessing, Finalize, WorkerUnseen, TableChange
  <1>. QED
    BY <1>1, <1>2 DEF WorkerStep

LEMMA StepTables ==
    ASSUME Inv, [Next]_vars
    PROVE  TableChange \/ UNCHANGED tables
  <1>1. CASE UNCHANGED vars
    BY <1>1 DEF vars, tables
  <1>2. CASE Next
    BY <1>2, HandlerTables, WorkerTables DEF Next, Crash, Expire
  <1>. QED
    BY <1>1, <1>2

------------------------------------------------------------------------------
(* The service implements the abstract lifecycle *)

\* Both modules speak of one state machine.
LEMMA SameStateMachine ==
    /\ Lifecycle!OrderStatus = OrderStatus
    /\ \A a, b : Lifecycle!CanTransitionStatus(a, b) <=> CanTransitionStatus(a, b)
  BY DEF Lifecycle!OrderStatus, OrderStatus, Lifecycle!CanTransitionStatus,
         CanTransitionStatus, Lifecycle!Terminal, Terminal

LEMMA StepRefines ==
    ASSUME Inv, [Next]_vars
    PROVE  [Lifecycle!Next]_(Lifecycle!lifecycleVars)
  <1>1. ASSUME NEW o \in Orders, NEW k \in Keys, CreateWithOutbox(o, k)
        PROVE  Lifecycle!Next
    BY <1>1 DEF CreateWithOutbox, Record, Lifecycle!Next, Lifecycle!Placed,
                Lifecycle!Announce
  <1>2. ASSUME NEW o \in Orders, NEW cur \in OrderStatus,
               NEW next \in OrderStatus, CanTransitionStatus(cur, next),
               UpdateStatusWithOutbox(o, cur, next)
        PROVE  Lifecycle!Next
    BY <1>2, SameStateMachine
       DEF UpdateStatusWithOutbox, Record, Lifecycle!Next, Lifecycle!Moved,
           Lifecycle!Announce
  <1>3. ASSUME NEW o \in Orders, DeleteRow(o)
        PROVE  Lifecycle!Next
    BY <1>3, SameStateMachine
       DEF DeleteRow, Live, Lifecycle!Next, Lifecycle!Removed
  <1>. QED
    BY <1>1, <1>2, <1>3, StepTables
       DEF TableChange, tables, Lifecycle!lifecycleVars

\* Every behaviour of the service, faults and races included, is one of the
\* abstract order lifecycle: no status write is illegal, unannounced, or
\* announced twice, and no announcement lacks its write.
THEOREM Refinement == Spec => ImplementsLifecycle
  <1>1. Init => Lifecycle!Init
    BY DEF Init, Lifecycle!Init
  <1>2. Inv /\ [Next]_vars => [Lifecycle!Next]_(Lifecycle!lifecycleVars)
    BY StepRefines
  <1>. QED
    BY <1>1, <1>2, InitInv, NextInv, PTL
       DEF Spec, ImplementsLifecycle, Lifecycle!Spec

------------------------------------------------------------------------------
(* The histories the lifecycle builds *)

\* The newest event of a history that has a terminal one is that terminal one.
TerminalLast(h) ==
    \A i \in 1..Len(h) : h[i] \in Terminal => h[Len(h)] = h[i]

HistoryInv ==
    /\ EventsMatchOrder
    /\ \A o \in Orders : TerminalLast(outbox[o])

LEMMA LegalAppend ==
    ASSUME NEW h \in Seq(OrderStatus), h # <<>>, LegalHistory(h),
           TerminalLast(h), NEW s \in OrderStatus,
           CanTransitionStatus(h[Len(h)], s)
    PROVE  LegalHistory(Append(h, s)) /\ TerminalLast(Append(h, s))
  <1>. DEFINE g == Append(h, s)
  <1>1. /\ Len(h) \in Nat \ {0}
        /\ Len(g) = Len(h) + 1
        /\ g[Len(g)] = s
        /\ \A i \in 1..Len(h) : g[i] = h[i]
        /\ g # <<>>
    OBVIOUS
  <1>2. LegalHistory(g)
    <2>1. g[1] = "PENDING"
      BY <1>1 DEF LegalHistory
    <2>2. ASSUME NEW i \in 1..(Len(g) - 1)
          PROVE  CanTransitionStatus(g[i], g[i + 1])
      <3>1. CASE i = Len(h)
        BY <1>1, <3>1
      <3>2. CASE i # Len(h)
        <4>1. i \in 1..(Len(h) - 1) /\ i + 1 \in 1..Len(h) /\ i \in 1..Len(h)
          BY <1>1, <3>2
        <4>. QED
          BY <1>1, <4>1 DEF LegalHistory
      <3>. QED
        BY <3>1, <3>2
    <2>. QED
      BY <2>1, <2>2 DEF LegalHistory
  <1>3. TerminalLast(g)
    <2>. SUFFICES ASSUME NEW i \in 1..Len(g), g[i] \in Terminal
                  PROVE  g[Len(g)] = g[i]
      BY DEF TerminalLast
    <2>1. CASE i = Len(g)
      BY <2>1
    <2>2. CASE i # Len(g)
      <3>1. i \in 1..Len(h) /\ h[i] \in Terminal
        BY <1>1, <2>2
      <3>2. h[Len(h)] = h[i]
        BY <3>1 DEF TerminalLast
      <3>. QED
        BY <1>1, <3>1, <3>2 DEF CanTransitionStatus, Terminal
    <2>. QED
      BY <2>1, <2>2
  <1>. QED
    BY <1>2, <1>3

LEMMA FirstEvent ==
    /\ Append(<<>>, "PENDING") # <<>>
    /\ LegalHistory(Append(<<>>, "PENDING"))
    /\ TerminalLast(Append(<<>>, "PENDING"))
    /\ Append(<<>>, "PENDING")[Len(Append(<<>>, "PENDING"))] = "PENDING"
  BY DEF LegalHistory, TerminalLast, Terminal

\* What the invariant says of one order survives any announced change of it.
LEMMA AnnouncedHistory ==
    ASSUME TypeOK, HistoryInv, NEW o \in Orders, NEW s \in OrderStatus,
           Lifecycle!Announce(o, s),
           \/ orders[o] = "none" /\ s = "PENDING"
           \/ Live(o) /\ CanTransitionStatus(orders[o], s)
    PROVE  HistoryInv'
  <1>1. /\ orders'[o] = s
        /\ outbox'[o] = Append(outbox[o], s)
        /\ \A p \in Orders \ {o} : orders'[p] = orders[p] /\ outbox'[p] = outbox[p]
    BY DEF Lifecycle!Announce, TypeOK
  <1>2. /\ outbox'[o] # <<>>
        /\ LegalHistory(outbox'[o])
        /\ TerminalLast(outbox'[o])
        /\ outbox'[o][Len(outbox'[o])] = s
    <2>1. CASE orders[o] = "none" /\ s = "PENDING"
      <3>1. outbox[o] = <<>>
        BY <2>1 DEF HistoryInv, EventsMatchOrder
      <3>. QED
        BY <1>1, <2>1, <3>1, FirstEvent
    <2>2. CASE Live(o) /\ CanTransitionStatus(orders[o], s)
      <3>1. /\ outbox[o] \in Seq(OrderStatus)
            /\ outbox[o] # <<>>
            /\ LegalHistory(outbox[o]) /\ TerminalLast(outbox[o])
            /\ outbox[o][Len(outbox[o])] = orders[o]
        BY <2>2 DEF HistoryInv, EventsMatchOrder, TypeOK, Live, OrderStatus
      <3>2. Append(outbox[o], s) # <<>>
            /\ Append(outbox[o], s)[Len(Append(outbox[o], s))] = s
        BY <3>1
      <3>. QED
        BY <1>1, <2>2, <3>1, <3>2, LegalAppend
    <2>. QED
      BY <2>1, <2>2
  <1>3. orders'[o] # "none"
    BY <1>1 DEF OrderStatus
  <1>. QED
    BY <1>1, <1>2, <1>3 DEF HistoryInv, EventsMatchOrder, Live

LEMMA HistoryNext ==
    ASSUME TypeOK, HistoryInv, [Lifecycle!Next]_(Lifecycle!lifecycleVars)
    PROVE  HistoryInv'
  <1>1. CASE UNCHANGED Lifecycle!lifecycleVars
    BY <1>1 DEF Lifecycle!lifecycleVars, HistoryInv, EventsMatchOrder, Live
  <1>2. ASSUME NEW o \in Orders, Lifecycle!Placed(o)
        PROVE  HistoryInv'
    BY <1>2, AnnouncedHistory DEF Lifecycle!Placed, OrderStatus
  <1>3. ASSUME NEW o \in Orders, NEW next \in OrderStatus,
               Lifecycle!Moved(o, next)
        PROVE  HistoryInv'
    BY <1>3, AnnouncedHistory, SameStateMachine DEF Lifecycle!Moved, Live
  <1>4. ASSUME NEW o \in Orders, Lifecycle!Removed(o)
        PROVE  HistoryInv'
    BY <1>4, SameStateMachine
       DEF Lifecycle!Removed, HistoryInv, EventsMatchOrder, Live, TypeOK,
           OrderStatus
  <1>. QED
    BY <1>1, <1>2, <1>3, <1>4, SameStateMachine DEF Lifecycle!Next

LEMMA HistoryInit == Init => HistoryInv
  BY DEF Init, HistoryInv, EventsMatchOrder, LegalHistory, TerminalLast, Live,
         OrderStatus

LEMMA HistoryHolds == Spec => []HistoryInv
  <1>1. Inv /\ HistoryInv /\ [Next]_vars => HistoryInv'
    BY StepRefines, HistoryNext DEF Inv
  <1>. QED
    BY <1>1, InitInv, NextInv, HistoryInit, PTL DEF Spec

\* The order row and the outbox never disagree.
THEOREM EventsMatch == Spec => []EventsMatchOrder
  BY HistoryHolds, PTL DEF HistoryInv

\* No order is announced both executed and failed.
THEOREM OneDecision == Spec => []NoSplitDecision
  <1>1. TypeOK /\ HistoryInv => NoSplitDecision
    BY DEF HistoryInv, TerminalLast, Terminal, NoSplitDecision, Announced
  <1>. QED
    BY <1>1, Typed, HistoryHolds, PTL

------------------------------------------------------------------------------
(* Idempotency keys *)

\* What the unique index keeps true of the table.
KeysUnique ==
    \A o1, o2 \in Orders :
        o1 # o2 /\ Live(o1) /\ Live(o2) => keyOf[o1] # keyOf[o2]

\* A worker that is about to confirm its key has announced the execution.
ConfirmsExecuted ==
    \A o \in Orders : worker[o] = "confirm" => Announced(o, "EXECUTED")

KeyInv == KeysUnique /\ ConfirmsExecuted /\ ProcessedMeansExecuted

\* Whatever else a step does, an executed order keeps its event and its key.
LEMMA ExecutedStays ==
    ASSUME Inv, HistoryInv, [Next]_vars,
           NEW o \in Orders, Announced(o, "EXECUTED")
    PROVE  Announced(o, "EXECUTED")' /\ keyOf'[o] = keyOf[o]
  <1>. TypeOK /\ EventsMatchOrder
    BY DEF Inv, HistoryInv
  <1>1. outbox[o] \in Seq(OrderStatus) /\ outbox[o] # <<>> /\ orders[o] # "none"
    BY DEF TypeOK, EventsMatchOrder, Announced
  <1>2. ASSUME NEW s \in OrderStatus, outbox'[o] = Append(outbox[o], s)
        PROVE  Announced(o, "EXECUTED")'
    <2>1. PICK i \in 1..Len(outbox[o]) : outbox[o][i] = "EXECUTED"
      BY DEF Announced
    <2>2. i \in 1..Len(outbox'[o]) /\ outbox'[o][i] = "EXECUTED"
      BY <1>1, <1>2, <2>1
    <2>. QED
      BY <2>2 DEF Announced
  <1>3. ASSUME NEW p \in Orders, NEW k \in Keys, CreateWithOutbox(p, k)
        PROVE  p # o /\ outbox'[o] = outbox[o] /\ keyOf'[o] = keyOf[o]
    BY <1>1, <1>3 DEF CreateWithOutbox, Record, TypeOK
  <1>4. ASSUME NEW p \in Orders, NEW cur \in OrderStatus, NEW next \in OrderStatus,
               UpdateStatusWithOutbox(p, cur, next)
        PROVE  Announced(o, "EXECUTED")' /\ keyOf'[o] = keyOf[o]
    <2>1. CASE p = o
      BY <1>2, <1>4, <2>1 DEF UpdateStatusWithOutbox, Record, TypeOK
    <2>2. CASE p # o
      BY <1>4, <2>2 DEF UpdateStatusWithOutbox, Record, TypeOK, Announced
    <2>. QED
      BY <2>1, <2>2
  <1>5. ASSUME NEW p \in Orders, DeleteRow(p)
        PROVE  Announced(o, "EXECUTED")' /\ keyOf'[o] = keyOf[o]
    BY <1>5 DEF DeleteRow, Announced
  <1>6. CASE UNCHANGED tables
    BY <1>6 DEF tables, Announced
  <1>. QED
    BY <1>3, <1>4, <1>5, <1>6, StepTables DEF TableChange, Announced

LEMMA KeysUniqueNext ==
    ASSUME Inv, KeysUnique, [Next]_vars
    PROVE  KeysUnique'
  <1>. TypeOK
    BY DEF Inv
  <1>1. ASSUME NEW p \in Orders, NEW k \in Keys, CreateWithOutbox(p, k)
        PROVE  KeysUnique'
    BY <1>1 DEF CreateWithOutbox, KeyUnused, Record, KeysUnique, Live, TypeOK
  <1>2. ASSUME NEW p \in Orders, NEW cur \in OrderStatus, NEW next \in OrderStatus,
               UpdateStatusWithOutbox(p, cur, next)
        PROVE  KeysUnique'
    BY <1>2 DEF UpdateStatusWithOutbox, Record, KeysUnique, Live, TypeOK
  <1>3. ASSUME NEW p \in Orders, DeleteRow(p)
        PROVE  KeysUnique'
    BY <1>3 DEF DeleteRow, KeysUnique, Live, TypeOK, OrderStatus
  <1>4. CASE UNCHANGED tables
    BY <1>4 DEF tables, KeysUnique, Live
  <1>. QED
    BY <1>1, <1>2, <1>3, <1>4, StepTables DEF TableChange

LEMMA ConfirmsExecutedNext ==
    ASSUME Inv, HistoryInv, ConfirmsExecuted, [Next]_vars
    PROVE  ConfirmsExecuted'
  <1>. SUFFICES ASSUME NEW o \in Orders, worker'[o] = "confirm"
                PROVE  Announced(o, "EXECUTED")'
    BY DEF ConfirmsExecuted
  <1>. TypeOK
    BY DEF Inv
  <1>1. CASE worker[o] = "confirm"
    BY <1>1, ExecutedStays DEF ConfirmsExecuted
  <1>2. CASE Finalize(o)
    <2>1. /\ outbox[o] \in Seq(OrderStatus)
          /\ outbox'[o] = Append(outbox[o], "EXECUTED")
      BY <1>2 DEF Finalize, UpdateStatusWithOutbox, Record, TypeOK
    <2>2. Len(outbox'[o]) \in 1..Len(outbox'[o])
          /\ outbox'[o][Len(outbox'[o])] = "EXECUTED"
      BY <2>1
    <2>. QED
      BY <2>2 DEF Announced
  <1>3. CASE worker[o] # "confirm" /\ ~Finalize(o)
    <2>1. worker' # worker
      BY <1>3
    <2>2. ASSUME NEW h \in Handlers, Request(h) \/ HandlerStep(h)
          PROVE  FALSE
      BY <1>3, <2>2
         DEF Request, HandlerStep, PlaceStep, UpdateStep, DeleteStep, Claim,
             ClaimUnseen, ReadForUpdate, ReadForDelete, InsertCommits,
             InsertUnseen, InsertFails, Release, ReleaseFails, UpdateCommits,
             UpdateFails, DeleteCommits, DeleteUnseen, DeleteFails, TypeOK
    <2>3. ASSUME NEW p \in Orders, WorkerStep(p)
          PROVE  FALSE
      BY <1>3, <2>3
         DEF WorkerStep, Load, StartProcessing, Finalize, Yield, Confirm,
             WorkerFails, WorkerUnseen, WorkerGoto, TypeOK
    <2>4. ~(\E H \in SUBSET Handlers, W \in SUBSET Orders : Crash(H, W))
          /\ ~(\E k \in Keys : Expire(k))
      BY <1>3 DEF Crash, Expire
    <2>. QED
      BY <2>1, <2>2, <2>3, <2>4 DEF Next, vars
  <1>. QED
    BY <1>1, <1>2, <1>3

LEMMA ProcessedNext ==
    ASSUME Inv, HistoryInv, ConfirmsExecuted, ProcessedMeansExecuted, [Next]_vars
    PROVE  ProcessedMeansExecuted'
  <1>. SUFFICES ASSUME NEW k \in Keys, redis'[k] = "processed"
                PROVE  \E o \in Orders : keyOf'[o] = k /\ Announced(o, "EXECUTED")'
    BY DEF ProcessedMeansExecuted
  <1>. TypeOK
    BY DEF Inv
  <1>1. CASE redis[k] = "processed"
    <2>1. PICK o \in Orders : keyOf[o] = k /\ Announced(o, "EXECUTED")
      BY <1>1 DEF ProcessedMeansExecuted
    <2>. QED
      BY <2>1, ExecutedStays
  <1>2. CASE redis[k] # "processed"
    <2>1. PICK o \in Orders : Confirm(o) /\ keyOf[o] = k
      <3>1. ASSUME NEW h \in Handlers, Request(h) \/ HandlerStep(h)
            PROVE  FALSE
        BY <1>2, <3>1
           DEF Request, HandlerStep, PlaceStep, UpdateStep, DeleteStep, Claim,
               ClaimUnseen, ReadForUpdate, ReadForDelete, InsertCommits,
               InsertUnseen, InsertFails, Release, ReleaseFails, UpdateCommits,
               UpdateFails, DeleteCommits, DeleteUnseen, DeleteFails, SetKey,
               TypeOK
      <3>2. ASSUME NEW o \in Orders, WorkerStep(o), ~Confirm(o)
            PROVE  FALSE
        BY <1>2, <3>2
           DEF WorkerStep, Load, StartProcessing, Finalize, Yield, WorkerFails,
               WorkerUnseen
      <3>3. ~(\E H \in SUBSET Handlers, W \in SUBSET Orders : Crash(H, W))
            /\ ~(\E j \in Keys : Expire(j))
        BY <1>2 DEF Crash, Expire, SetKey, TypeOK
      <3>4. \E o \in Orders : Confirm(o)
        BY <1>2, <3>1, <3>2, <3>3 DEF Next, vars
      <3>. QED
        BY <1>2, <3>4 DEF Confirm, SetKey, TypeOK
    <2>2. Announced(o, "EXECUTED")
      BY <2>1 DEF Confirm, ConfirmsExecuted
    <2>. QED
      BY <2>1, <2>2, ExecutedStays
  <1>. QED
    BY <1>1, <1>2

LEMMA KeyInvHolds == Spec => []KeyInv
  <1>1. Init => KeyInv
    BY DEF Init, KeyInv, KeysUnique, ConfirmsExecuted, ProcessedMeansExecuted,
           Live, OrderStatus
  <1>2. Inv /\ HistoryInv /\ KeyInv /\ [Next]_vars => KeyInv'
    BY KeysUniqueNext, ConfirmsExecutedNext, ProcessedNext DEF KeyInv
  <1>. QED
    BY <1>1, <1>2, InitInv, NextInv, HistoryHolds, PTL DEF Spec

\* Whatever Redis forgets, two orders of one idempotency key both execute only
\* if one of their rows has been deleted.
THEOREM KeyExecutesOnce == Spec => []OneExecutionPerKey
  <1>1. TypeOK /\ EventsMatchOrder /\ KeysUnique => OneExecutionPerKey
    BY DEF TypeOK, EventsMatchOrder, KeysUnique, OneExecutionPerKey, Announced,
           Live, RowState
  <1>. QED
    BY <1>1, Typed, EventsMatch, KeyInvHolds, PTL DEF KeyInv

\* A key marked processed is the key of an order that executed.
THEOREM ProcessedIsTrue == Spec => []ProcessedMeansExecuted
  BY KeyInvHolds, PTL DEF KeyInv

------------------------------------------------------------------------------
(* The two guards on a key, without faults *)

\* Request h is about to insert with key k or to release it.
Holds(h, k) == handler[h].key = k /\ handler[h].pc \in {"insert", "release"}

\* One request at a time holds a key, while no live order has it.
HoldersExclude ==
    \A h \in Handlers : handler[h].pc \in {"insert", "release"} =>
        /\ handler[h].key \in Keys
        /\ redis[handler[h].key] # "free"
        /\ KeyUnused(handler[h].key)
        /\ \A g \in Handlers : Holds(g, handler[h].key) => g = h

DeletersKnowKey ==
    \A h \in Handlers : handler[h].pc = "delete" =>
        /\ orders[handler[h].order] # "none"
        /\ handler[h].key = keyOf[handler[h].order]

LiveKeysTaken ==
    \A o \in Orders : Live(o) => keyOf[o] \in Keys /\ redis[keyOf[o]] # "free"

ProcessingAccounted ==
    \A k \in Keys : redis[k] = "processing" =>
        ~KeyUnused(k) \/ \E h \in Handlers : Holds(h, k)

GuardInv ==
    HoldersExclude /\ DeletersKnowKey /\ LiveKeysTaken /\ ProcessingAccounted

LEMMA ClaimKeepsGuards ==
  ASSUME TypeOK, GuardInv, NEW h \in Handlers, NEW k \in Keys, NEW o \in Orders,
         Claim(h, k, o)
  PROVE  GuardInv'
  <1>1. /\ redis' = [redis EXCEPT ![k] = "processing"]
        /\ handler' = [handler EXCEPT ![h] = handler'[h]]
        /\ handler'[h].pc = "insert" /\ handler'[h].key = k
        /\ handler[h].pc = "idle"
        /\ UNCHANGED tables
    BY DEF Claim, SetKey, Idle, TypeOK
  <1>2. KeyUnused(k) /\ \A g \in Handlers : ~Holds(g, k)
    BY DEF Claim, GuardInv, LiveKeysTaken, HoldersExclude, KeyUnused, Holds
  <1>3. \A j : KeyUnused(j)' = KeyUnused(j)
    BY <1>1 DEF KeyUnused, Live, tables
  <1>4. \A g \in Handlers : \A j : Holds(g, j)' <=> (Holds(g, j) \/ (g = h /\ j = k))
    BY <1>1 DEF Holds, TypeOK
  <1>5. HoldersExclude'
    <2>. SUFFICES ASSUME NEW g \in Handlers, NEW j, Holds(g, j)'
                  PROVE  /\ j \in Keys /\ redis'[j] # "free" /\ KeyUnused(j)'
                         /\ \A f \in Handlers : Holds(f, j)' => f = g
      BY DEF HoldersExclude, Holds
    <2>1. CASE g = h
      BY <1>1, <1>2, <1>3, <1>4, <2>1 DEF TypeOK, Holds
    <2>2. CASE g # h
      <3>1. Holds(g, j) /\ j # k
        BY <1>2, <1>4, <2>2
      <3>2. j \in Keys /\ redis[j] # "free" /\ KeyUnused(j)
        BY <3>1 DEF GuardInv, HoldersExclude, Holds
      <3>3. \A f \in Handlers : Holds(f, j) => f = g
        BY <3>1 DEF GuardInv, HoldersExclude, Holds
      <3>. QED
        BY <1>1, <1>3, <1>4, <3>1, <3>2, <3>3 DEF TypeOK
    <2>. QED
      BY <2>1, <2>2
  <1>6. DeletersKnowKey' /\ LiveKeysTaken'
    BY <1>1 DEF GuardInv, DeletersKnowKey, LiveKeysTaken, Live, TypeOK, tables
  <1>7. ProcessingAccounted'
    BY <1>1, <1>3, <1>4 DEF GuardInv, ProcessingAccounted, TypeOK
  <1>. QED
    BY <1>5, <1>6, <1>7 DEF GuardInv

LEMMA InsertKeepsGuards ==
  ASSUME Inv, GuardInv, NEW h \in Handlers, InsertCommits(h)
  PROVE  GuardInv'
  <1>. DEFINE o == handler[h].order
              k == handler[h].key
  <1>1. /\ o \in Orders /\ k \in Keys /\ Holds(h, k)
        /\ orders[o] = "none"
        /\ orders' = [orders EXCEPT ![o] = "PENDING"]
        /\ keyOf' = [keyOf EXCEPT ![o] = k]
        /\ handler' = [handler EXCEPT ![h] = Idle]
        /\ UNCHANGED redis
    BY DEF InsertCommits, CreateWithOutbox, Record, Return, Inv, RequestsLegal, Holds
  <1>. TypeOK
    BY DEF Inv
  <1>. HIDE DEF o, k
  <1>2. \A p \in Orders : Live(p)' <=> Live(p) \/ p = o
    BY <1>1 DEF Live, TypeOK, OrderStatus
  <1>3. \A p \in Orders : p # o => keyOf'[p] = keyOf[p]
    BY <1>1 DEF TypeOK
  <1>4. keyOf'[o] = k
    BY <1>1 DEF TypeOK
  <1>5. \A j : KeyUnused(j)' <=> (KeyUnused(j) /\ j # k)
    BY <1>1, <1>2, <1>3, <1>4 DEF KeyUnused, Live, OrderStatus
  <1>6. \A g \in Handlers : \A j : Holds(g, j)' <=> (Holds(g, j) /\ g # h)
    BY <1>1 DEF Holds, TypeOK, Idle
  <1>7. HoldersExclude'
    BY <1>1, <1>5, <1>6 DEF GuardInv, HoldersExclude, Holds, TypeOK, Idle
  <1>8. DeletersKnowKey'
    BY <1>1, <1>3 DEF GuardInv, DeletersKnowKey, TypeOK, Idle, Inv, RequestsLegal
  <1>9. LiveKeysTaken'
    BY <1>1, <1>2, <1>3, <1>4 DEF GuardInv, LiveKeysTaken, HoldersExclude, Holds, k
  <1>10. ProcessingAccounted'
    BY <1>1, <1>5, <1>6 DEF GuardInv, ProcessingAccounted, Holds
  <1>. QED
    BY <1>7, <1>8, <1>9, <1>10 DEF GuardInv

LEMMA ReleaseKeepsGuards ==
  ASSUME TypeOK, GuardInv, NEW h \in Handlers, Release(h)
  PROVE  GuardInv'
  <1>. DEFINE k == handler[h].key
  <1>1. /\ redis' = [redis EXCEPT ![k] = "free"]
        /\ handler' = [handler EXCEPT ![h] = Idle]
        /\ UNCHANGED tables
    BY DEF Release, SetKey, Return
  <1>2. k \in Keys /\ KeyUnused(k) /\ \A g \in Handlers : Holds(g, k) => g = h
    BY DEF Release, GuardInv, HoldersExclude
  <1>. HIDE DEF k
  <1>3. \A j : KeyUnused(j)' = KeyUnused(j)
    BY <1>1 DEF KeyUnused, Live, tables
  <1>4. \A g \in Handlers : \A j : Holds(g, j)' <=> (Holds(g, j) /\ g # h)
    BY <1>1 DEF Holds, TypeOK, Idle
  <1>5. \A g \in Handlers : g # h => handler'[g] = handler[g]
    BY <1>1 DEF TypeOK
  <1>6. handler'[h].pc = "idle"
    BY <1>1 DEF TypeOK, Idle
  <1>7. HoldersExclude'
    BY <1>1, <1>2, <1>3, <1>4, <1>5, <1>6 DEF GuardInv, HoldersExclude, Holds, TypeOK
  <1>8. DeletersKnowKey'
    BY <1>1, <1>5, <1>6 DEF GuardInv, DeletersKnowKey, tables
  <1>9. LiveKeysTaken'
    BY <1>1, <1>2 DEF GuardInv, LiveKeysTaken, KeyUnused, Live, TypeOK, tables
  <1>10. ProcessingAccounted'
    BY <1>1, <1>2, <1>3, <1>4 DEF GuardInv, ProcessingAccounted, Holds, TypeOK, k
  <1>. QED
    BY <1>7, <1>8, <1>9, <1>10 DEF GuardInv

LEMMA DeleteKeepsGuards ==
  ASSUME Inv, KeysUnique, GuardInv, NEW h \in Handlers, DeleteCommits(h)
  PROVE  GuardInv'
  <1>. DEFINE o == handler[h].order
              k == handler[h].key
  <1>. TypeOK
    BY DEF Inv
  <1>1. /\ o \in Orders /\ Live(o) /\ handler[h].pc = "delete"
        /\ orders' = [orders EXCEPT ![o] = "deleted"]
        /\ handler' = [handler EXCEPT ![h].pc = "release"]
        /\ UNCHANGED <<keyOf, redis>>
    BY DEF DeleteCommits, DeleteRow, Goto, Inv, RequestsLegal
  <1>2. k = keyOf[o] /\ k \in Keys /\ redis[k] # "free" /\ ~KeyUnused(k)
    BY <1>1 DEF GuardInv, DeletersKnowKey, LiveKeysTaken, KeyUnused
  <1>3. \A g \in Handlers : ~Holds(g, k)
    BY <1>2 DEF GuardInv, HoldersExclude, Holds
  <1>. HIDE DEF o
  <1>4. \A p \in Orders : Live(p)' <=> Live(p) /\ p # o
    BY <1>1 DEF Live, TypeOK, OrderStatus
  <1>5. \A j : KeyUnused(j)' <=> (KeyUnused(j) \/ j = k)
    <2>1. \A p \in Orders : Live(p) /\ p # o => keyOf[p] # k
      BY <1>1, <1>2 DEF KeysUnique
    <2>. QED
      BY <1>1, <1>2, <1>4, <2>1 DEF KeyUnused
  <1>6. handler'[h].pc = "release" /\ handler'[h].key = k
    BY <1>1 DEF TypeOK, HandlerState
  <1>. HIDE DEF k
  <1>7. \A g \in Handlers : g # h => handler'[g] = handler[g]
    BY <1>1 DEF TypeOK
  <1>8. \A g \in Handlers : \A j : Holds(g, j)' <=> (Holds(g, j) \/ (g = h /\ j = k))
    BY <1>1, <1>6, <1>7 DEF Holds
  <1>9. HoldersExclude'
    <2>. SUFFICES ASSUME NEW g \in Handlers, NEW j, Holds(g, j)'
                  PROVE  /\ j \in Keys /\ redis'[j] # "free" /\ KeyUnused(j)'
                         /\ \A f \in Handlers : Holds(f, j)' => f = g
      BY DEF HoldersExclude, Holds
    <2>1. CASE g = h
      BY <1>1, <1>2, <1>3, <1>5, <1>6, <1>8, <2>1 DEF Holds
    <2>2. CASE g # h
      <3>1. Holds(g, j) /\ j # k
        BY <1>3, <1>8, <2>2
      <3>2. /\ j \in Keys /\ redis[j] # "free" /\ KeyUnused(j)
            /\ \A f \in Handlers : Holds(f, j) => f = g
        BY <3>1 DEF GuardInv, HoldersExclude, Holds
      <3>. QED
        BY <1>1, <1>5, <1>8, <3>1, <3>2
    <2>. QED
      BY <2>1, <2>2
  <1>10. DeletersKnowKey'
    BY <1>1, <1>6, <1>7 DEF GuardInv, DeletersKnowKey, TypeOK
  <1>11. LiveKeysTaken'
    BY <1>1, <1>4 DEF GuardInv, LiveKeysTaken
  <1>12. ProcessingAccounted'
    BY <1>1, <1>5, <1>8 DEF GuardInv, ProcessingAccounted
  <1>. QED
    BY <1>9, <1>10, <1>11, <1>12 DEF GuardInv

\* The other steps there are without faults move no key away from "free", no row
\* into or out of existence, and no request to a place where it holds a key.
LEMMA OthersKeepGuards ==
  ASSUME Inv, GuardInv,
         \A o \in Orders : Live(o)' <=> Live(o),
         \A o \in Orders : orders[o] # "none" => orders'[o] # "none",
         UNCHANGED keyOf,
         redis' \in [Keys -> {"free", "processing", "processed"}],
         \A k \in Keys : redis'[k] = redis[k] \/ redis'[k] = "processed",
         \A h \in Handlers :
             \/ handler'[h] = handler[h]
             \/ /\ handler[h].pc \notin {"insert", "release"}
                /\ handler'[h].pc \in {"idle", "update"}
             \/ /\ handler[h].pc \notin {"insert", "release"}
                /\ handler'[h].pc = "delete"
                /\ orders'[handler'[h].order] # "none"
                /\ handler'[h].key = keyOf[handler'[h].order]
  PROVE  GuardInv'
  <1>1. \A k : KeyUnused(k)' <=> KeyUnused(k)
    BY DEF KeyUnused
  <1>2. \A h \in Handlers : \A k : Holds(h, k)' <=> Holds(h, k)
    BY DEF Holds
  <1>3. HoldersExclude'
    <2>. SUFFICES ASSUME NEW g \in Handlers, NEW j, Holds(g, j)'
                  PROVE  /\ j \in Keys /\ redis'[j] # "free" /\ KeyUnused(j)'
                         /\ \A f \in Handlers : Holds(f, j)' => f = g
      BY DEF HoldersExclude, Holds
    <2>. QED
      BY <1>1, <1>2 DEF GuardInv, HoldersExclude, Holds
  <1>4. DeletersKnowKey'
    BY DEF GuardInv, DeletersKnowKey, Inv, RequestsLegal
  <1>5. LiveKeysTaken'
    BY DEF GuardInv, LiveKeysTaken
  <1>6. ProcessingAccounted'
    BY <1>1, <1>2 DEF GuardInv, ProcessingAccounted
  <1>. QED
    BY <1>3, <1>4, <1>5, <1>6 DEF GuardInv

LEMMA GuardsNext ==
  ASSUME Faults = {}, Inv, KeysUnique, GuardInv, [Next]_vars
  PROVE  GuardInv'
  <1>. TypeOK
    BY DEF Inv
  <1>1. ASSUME NEW h \in Handlers, Request(h) PROVE GuardInv'
    <2>1. CASE \E k \in Keys, o \in Orders : Claim(h, k, o)
      BY <2>1, ClaimKeepsGuards
    <2>2. ~\E k \in Keys : ClaimUnseen(h, k)
      BY DEF ClaimUnseen
    <2>3. ASSUME NEW o \in Orders, NEW next \in PatchTargets, ReadForUpdate(h, o, next)
          PROVE  GuardInv'
      BY <2>3, OthersKeepGuards DEF ReadForUpdate, Idle, TypeOK, tables, Live
    <2>4. ASSUME NEW o \in Orders, ReadForDelete(h, o) PROVE GuardInv'
      BY <2>4, OthersKeepGuards DEF ReadForDelete, Idle, TypeOK, tables, Live
    <2>. QED
      BY <1>1, <2>1, <2>2, <2>3, <2>4 DEF Request
  <1>2. ASSUME NEW h \in Handlers, HandlerStep(h) PROVE GuardInv'
    <2>1. CASE InsertCommits(h)
      BY <2>1, InsertKeepsGuards
    <2>2. CASE Release(h)
      BY <2>2, ReleaseKeepsGuards
    <2>3. CASE DeleteCommits(h)
      BY <2>3, DeleteKeepsGuards
    <2>4. ~InsertFails(h)
      BY DEF InsertFails, GuardInv, HoldersExclude
    <2>5. CASE UpdateCommits(h)
      <3>1. /\ handler[h].order \in Orders /\ handler[h].cur \in OrderStatus
            /\ handler[h].next \in OrderStatus /\ handler[h].pc = "update"
            /\ orders[handler[h].order] = handler[h].cur
            /\ orders' = [orders EXCEPT ![handler[h].order] = handler[h].next]
            /\ handler' = [handler EXCEPT ![h] = Idle]
            /\ UNCHANGED <<keyOf, redis>>
        BY <2>5 DEF UpdateCommits, UpdateStatusWithOutbox, Record, Return, Inv,
                    RequestsLegal
      <3>2. \A o \in Orders : Live(o)' <=> Live(o)
        BY <3>1 DEF Live, TypeOK
      <3>3. \A o \in Orders : orders[o] # "none" => orders'[o] # "none"
        BY <3>1 DEF TypeOK, OrderStatus
      <3>4. \A g \in Handlers : g = h \/ handler'[g] = handler[g]
        BY <3>1 DEF TypeOK
      <3>5. handler'[h].pc = "idle"
        BY <3>1 DEF TypeOK, Idle
      <3>. QED
        BY <3>1, <3>2, <3>3, <3>4, <3>5, OthersKeepGuards DEF TypeOK
    <2>6. CASE UpdateFails(h) \/ DeleteFails(h)
      BY <2>6, OthersKeepGuards
         DEF UpdateFails, DeleteFails, Return, Idle, TypeOK, tables, Live
    <2>. QED
      BY <1>2, <2>1, <2>2, <2>3, <2>4, <2>5, <2>6
         DEF HandlerStep, PlaceStep, UpdateStep, DeleteStep, InsertUnseen,
             ReleaseFails, DeleteUnseen
  <1>3. ASSUME NEW o \in Orders, WorkerStep(o) PROVE GuardInv'
    <2>1. CASE StartProcessing(o) \/ Finalize(o)
      <3>1. PICK s \in OrderStatus : /\ orders[o] \in OrderStatus
                                     /\ orders' = [orders EXCEPT ![o] = s]
                                     /\ UNCHANGED <<keyOf, redis, handler>>
        BY <2>1 DEF StartProcessing, Finalize, UpdateStatusWithOutbox, Record,
                    OrderStatus
      <3>2. \A p \in Orders : Live(p)' <=> Live(p)
        BY <3>1 DEF Live, TypeOK
      <3>3. \A p \in Orders : orders[p] # "none" => orders'[p] # "none"
        BY <3>1 DEF TypeOK, OrderStatus
      <3>. QED
        BY <3>1, <3>2, <3>3, OthersKeepGuards DEF TypeOK
    <2>2. CASE Load(o) \/ Yield(o)
      BY <2>2, OthersKeepGuards DEF Load, Yield, TypeOK, tables, Live
    <2>3. CASE Confirm(o)
      BY <2>3, OthersKeepGuards DEF Confirm, SetKey, TypeOK, tables, Live
    <2>. QED
      BY <1>3, <2>1, <2>2, <2>3 DEF WorkerStep, WorkerFails, WorkerUnseen
  <1>4. CASE UNCHANGED vars
    BY <1>4, OthersKeepGuards DEF vars, TypeOK, Live
  <1>. QED
    BY <1>1, <1>2, <1>3, <1>4 DEF Next, Crash, Expire

\* Without faults the guard in Redis and the index in Postgres agree, whatever
\* requests, deletes and workers interleave: a live order's key is taken, and a
\* key being processed is accounted for.
THEOREM GuardsAgree == ASSUME Faults = {} PROVE Spec => []RedisAgreesWithOrders
  <1>1. Init => GuardInv
    BY DEF Init, GuardInv, HoldersExclude, DeletersKnowKey, LiveKeysTaken,
           ProcessingAccounted, Idle, Live, OrderStatus
  <1>2. GuardInv => RedisAgreesWithOrders
    BY DEF GuardInv, LiveKeysTaken, ProcessingAccounted, RedisAgreesWithOrders, Holds
  <1>3. Inv /\ KeysUnique /\ GuardInv /\ [Next]_vars => GuardInv'
    BY GuardsNext
  <1>. QED
    BY <1>1, <1>2, <1>3, InitInv, NextInv, KeyInvHolds, PTL DEF Spec, KeyInv

------------------------------------------------------------------------------
(* The process around the service: OrderProcess *)

LEMMA ProcessStepsServe == [ProcessNext]_allVars => [Next]_vars
  BY DEF ProcessNext, Accept, Serve, Work, Signal, Shutdown, RequestsDrained,
         RequestsOverdue, StopRelay, Flush, FlushOverdue, Next, allVars

\* A shutting-down process is a behaviour of the service: whatever holds of every
\* run of the service holds up to and past its exit.
THEOREM ProcessServes == ProcessSpec => Spec
  <1>1. ProcessInit => Init
    BY DEF ProcessInit
  <1>. QED
    BY <1>1, ProcessStepsServe, PTL DEF ProcessSpec, Spec

\* The two guards on a key agree through a shutdown as well.
THEOREM GuardsAgreeInProcess ==
  ASSUME Faults = {}
  PROVE  ProcessSpec => []RedisAgreesWithOrders
  BY GuardsAgree, ProcessServes, PTL

\* What main has waited for is over, and does not start again.
DrainInv ==
    "requests" \notin cutOff =>
        /\ phase \in {"waiting", "flushing", "exited"} => ~RequestsInFlight
        /\ phase \in {"flushing", "exited"} => ~WorkersInFlight

LEMMA StepNeedsRequest ==
  ASSUME NEW h \in Handlers, HandlerStep(h)
  PROVE  RequestsInFlight
  BY DEF HandlerStep, PlaceStep, UpdateStep, DeleteStep, InsertCommits, InsertUnseen,
         InsertFails, Release, ReleaseFails, UpdateCommits, UpdateFails,
         DeleteCommits, DeleteUnseen, DeleteFails, RequestsInFlight

LEMMA StepNeedsWorker ==
  ASSUME NEW o \in Orders, WorkerStep(o)
  PROVE  WorkersInFlight /\ UNCHANGED handler
  BY DEF WorkerStep, Load, StartProcessing, Finalize, Yield, Confirm, WorkerFails,
         WorkerUnseen, WorkersInFlight

LEMMA DrainNext == DrainInv /\ [ProcessNext]_allVars => DrainInv'
  <1>. SUFFICES ASSUME DrainInv, [ProcessNext]_allVars PROVE DrainInv'
    OBVIOUS
  <1>1. CASE Accept
    BY <1>1 DEF Accept, processVars, DrainInv
  <1>2. ASSUME NEW h \in Handlers, Serve(h) PROVE DrainInv'
    BY <1>2, StepNeedsRequest DEF Serve, processVars, DrainInv
  <1>3. ASSUME NEW o \in Orders, Work(o) PROVE DrainInv'
    BY <1>3, StepNeedsWorker DEF Work, processVars, DrainInv, RequestsInFlight
  <1>4. CASE Signal \/ RequestsDrained \/ RequestsOverdue \/ StopRelay
    BY <1>4 DEF Signal, RequestsDrained, RequestsOverdue, StopRelay, vars, DrainInv,
                RequestsInFlight, WorkersInFlight
  <1>5. CASE Flush \/ FlushOverdue
    <2>1. UNCHANGED vars /\ phase = "flushing"
      BY <1>5 DEF Flush, FlushOverdue
    <2>2. "requests" \notin cutOff' => "requests" \notin cutOff
      BY <1>5 DEF Flush, FlushOverdue
    <2>. QED
      BY <2>1, <2>2 DEF vars, DrainInv, RequestsInFlight, WorkersInFlight
  <1>6. CASE UNCHANGED allVars
    BY <1>6 DEF allVars, vars, processVars, DrainInv, RequestsInFlight,
                WorkersInFlight
  <1>. QED
    BY <1>1, <1>2, <1>3, <1>4, <1>5, <1>6 DEF ProcessNext, Shutdown

\* An exit cuts off a request or a worker only when the wait for requests has
\* given up: no worker is started behind the drain otherwise.
THEOREM OnlyLateAreCut == ProcessSpec => []OnlyLateRequestsAreCut
  <1>1. ProcessInit => DrainInv
    BY DEF ProcessInit, DrainInv
  <1>2. DrainInv => OnlyLateRequestsAreCut
    BY DEF DrainInv, OnlyLateRequestsAreCut, Exited
  <1>. QED
    BY <1>1, <1>2, DrainNext, PTL DEF ProcessSpec

\* The outbox is finite, whatever the number of orders there could be.
LEMMA RowsNext ==
  ASSUME Inv, [Next]_vars, IsFiniteSet(Rows)
  PROVE  IsFiniteSet(Rows')
  <1>. TypeOK
    BY DEF Inv
  <1>1. CASE UNCHANGED outbox
    BY <1>1 DEF Rows
  <1>2. ASSUME NEW o \in Orders, NEW s \in OrderStatus, Record(o, s)
        PROVE  IsFiniteSet(Rows')
    <2>1. outbox[o] \in Seq(OrderStatus) /\ Len(outbox[o]) \in Nat
      BY DEF TypeOK
    <2>2. /\ Len(outbox'[o]) = Len(outbox[o]) + 1
          /\ \A p \in Orders : p # o => outbox'[p] = outbox[p]
      BY <1>2, <2>1 DEF Record, TypeOK
    <2>3. Rows' \subseteq Rows \cup {<<o, Len(outbox[o]) + 1>>}
      BY <2>1, <2>2 DEF Rows
    <2>. QED
      BY <2>3, FS_AddElement, FS_Subset
  <1>3. TableChange => UNCHANGED outbox \/ \E o \in Orders, s \in OrderStatus : Record(o, s)
    BY DEF TableChange, CreateWithOutbox, UpdateStatusWithOutbox, DeleteRow, OrderStatus
  <1>. QED
    BY <1>1, <1>2, <1>3, StepTables DEF tables

\* The loop ends where it claimed nothing or less than a full batch.  If all it
\* claimed went out, that was everything there was.
LEMMA FlushLeavesNothing ==
  ASSUME IsFiniteSet(Rows), Flush, Exited', cutOff' = {}
  PROVE  Rows' \subseteq settled'
  <1>1. PICK R \in Publishable :
            /\ \E F \in Retirable(R) : settled' = settled \cup R \cup F
            /\ Cardinality(R) = Claimed
            /\ ~GoesOn(Claimed, Cardinality(R))
    BY DEF Flush, Exited
  <1>2. R \subseteq Pending /\ IsFiniteSet(Pending) /\ IsFiniteSet(R)
    BY <1>1, FS_Subset DEF Publishable, Pending
  <1>3. Cardinality(Pending) \in Nat /\ Cardinality(R) \in Nat /\ RelayBatch \in Nat \ {0}
    BY <1>2, FS_CardinalityType, ProcessAssumption
  <1>4. Cardinality(R) = Cardinality(Pending)
    BY <1>1, <1>3 DEF Claimed, GoesOn
  <1>5. R = Pending
    BY <1>2, <1>4, FS_Subset
  <1>6. Rows' = Rows
    BY DEF Flush, vars, Rows
  <1>. QED
    BY <1>1, <1>5, <1>6 DEF Pending

LEMMA NothingLeftNext ==
  ASSUME IsFiniteSet(Rows), NothingLeftBehind, [ProcessNext]_allVars
  PROVE  NothingLeftBehind'
  <1>1. CASE Accept \/ (\E h \in Handlers : Serve(h)) \/ \E o \in Orders : Work(o)
    BY <1>1 DEF Accept, Serve, Work, processVars, NothingLeftBehind, Exited
  <1>2. CASE Signal \/ RequestsDrained \/ RequestsOverdue \/ StopRelay \/ FlushOverdue
    BY <1>2 DEF Signal, RequestsDrained, RequestsOverdue, StopRelay, FlushOverdue,
                NothingLeftBehind, Exited
  <1>3. CASE Flush
    BY <1>3, FlushLeavesNothing DEF NothingLeftBehind
  <1>4. CASE UNCHANGED allVars
    BY <1>4 DEF allVars, vars, processVars, NothingLeftBehind, Exited, Rows
  <1>. QED
    BY <1>1, <1>2, <1>3, <1>4 DEF ProcessNext, Shutdown

\* An exit at which no budget had run out leaves no row PENDING in the outbox: each is
\* published, or was retired with its attempts used up, however many orders, rows and
\* batches there were.
THEOREM NothingLeft == ProcessSpec => []NothingLeftBehind
  <1>1. ProcessInit => Inv /\ IsFiniteSet(Rows) /\ NothingLeftBehind
    <2>1. Init => Rows = {}
      BY DEF Init, Rows
    <2>. QED
      BY <2>1, InitInv, FS_EmptySet DEF ProcessInit, NothingLeftBehind, Exited
  <1>2. Inv /\ IsFiniteSet(Rows) /\ [ProcessNext]_allVars => Inv' /\ IsFiniteSet(Rows)'
    BY ProcessStepsServe, NextInv, RowsNext
  <1>. QED
    BY <1>1, <1>2, NothingLeftNext, PTL DEF ProcessSpec

------------------------------------------------------------------------------
(* What an orderly exit leaves of the orders *)

\* Without faults a row that is not settled has a worker that will find it so, unless
\* a client moves orders to PROCESSING by hand.
WorkInv ==
    /\ \A h \in Handlers :
           handler[h].pc = "update" => handler[h].next \in Terminal
    /\ \A o \in Orders :
           /\ orders[o] = "PENDING" => worker[o] \in {"load", "process"}
           /\ orders[o] = "PROCESSING" => worker[o] = "finalize"

\* Every order there is when the process exits has settled, unless the wait for
\* requests had given up.
SettledByExit ==
    Exited /\ "requests" \notin cutOff =>
        \A o \in Orders : Live(o) => orders[o] \in Terminal

LEMMA RequestKeepsWork ==
  ASSUME Faults = {}, "PROCESSING" \notin PatchTargets, Inv, WorkInv,
         NEW h \in Handlers, Request(h)
  PROVE  WorkInv'
  <1>. TypeOK
    BY DEF Inv
  <1>1. UNCHANGED <<orders, worker>>
    BY DEF Request, Claim, ClaimUnseen, ReadForUpdate, ReadForDelete, tables
  <1>2. \A g \in Handlers : g # h => handler'[g] = handler[g]
    BY DEF Request, Claim, ClaimUnseen, ReadForUpdate, ReadForDelete, TypeOK
  <1>3. handler'[h].pc = "update" => handler'[h].next \in Terminal
    <2>1. CASE \E o \in Orders, next \in PatchTargets : ReadForUpdate(h, o, next)
      <3>1. PICK o \in Orders, next \in PatchTargets : ReadForUpdate(h, o, next)
        BY <2>1
      <3>2. handler'[h].next = next
        BY <3>1 DEF ReadForUpdate, TypeOK, Idle
      <3>3. next \in Terminal
        BY <3>1, ServiceAssumption
           DEF ReadForUpdate, CanTransitionStatus, Live, Terminal, OrderStatus
      <3>. QED
        BY <3>2, <3>3
    <2>2. CASE ~\E o \in Orders, next \in PatchTargets : ReadForUpdate(h, o, next)
      BY <2>2 DEF Request, Claim, ClaimUnseen, ReadForDelete, TypeOK, Idle
    <2>. QED
      BY <2>1, <2>2
  <1>. QED
    BY <1>1, <1>2, <1>3 DEF WorkInv

LEMMA HandlerKeepsWork ==
  ASSUME Faults = {}, Inv, WorkInv, NEW h \in Handlers, HandlerStep(h)
  PROVE  WorkInv'
  <1>. TypeOK
    BY DEF Inv
  <1>1. \A g \in Handlers :
            handler'[g].pc = "update" => handler[g].pc = "update" /\ handler'[g] = handler[g]
    BY DEF HandlerStep, PlaceStep, UpdateStep, DeleteStep, InsertCommits, InsertUnseen,
           InsertFails, Release, ReleaseFails, UpdateCommits, UpdateFails, DeleteCommits,
           DeleteUnseen, DeleteFails, Return, Goto, Idle, TypeOK, HandlerState
  <1>2. CASE InsertCommits(h)
    <2>1. /\ handler[h].order \in Orders
          /\ orders' = [orders EXCEPT ![handler[h].order] = "PENDING"]
          /\ worker' = [worker EXCEPT ![handler[h].order] = "load"]
      BY <1>2 DEF InsertCommits, CreateWithOutbox, Record, Inv, RequestsLegal
    <2>. QED
      BY <1>1, <2>1 DEF WorkInv, TypeOK
  <1>3. CASE UpdateCommits(h)
    <2>1. /\ handler[h].order \in Orders /\ handler[h].next \in Terminal
          /\ orders' = [orders EXCEPT ![handler[h].order] = handler[h].next]
          /\ UNCHANGED worker
      BY <1>3 DEF UpdateCommits, UpdateStatusWithOutbox, Record, Inv, RequestsLegal, WorkInv
    <2>2. \A o \in Orders : orders'[o] = orders[o] \/ orders'[o] \in Terminal
      BY <2>1 DEF TypeOK
    <2>. QED
      BY <1>1, <2>1, <2>2 DEF WorkInv, Terminal
  <1>4. CASE DeleteCommits(h)
    <2>1. /\ UNCHANGED worker
          /\ \A o \in Orders : orders'[o] = orders[o] \/ orders'[o] = "deleted"
      BY <1>4 DEF DeleteCommits, DeleteRow, TypeOK
    <2>. QED
      BY <1>1, <2>1 DEF WorkInv
  <1>5. ~InsertUnseen(h) /\ ~DeleteUnseen(h)
    BY DEF InsertUnseen, DeleteUnseen
  <1>6. CASE InsertFails(h) \/ Release(h) \/ ReleaseFails(h) \/ UpdateFails(h) \/ DeleteFails(h)
    <2>1. UNCHANGED <<orders, worker>>
      BY <1>6 DEF InsertFails, Release, ReleaseFails, UpdateFails, DeleteFails, tables
    <2>. QED
      BY <1>1, <2>1 DEF WorkInv
  <1>. QED
    BY <1>2, <1>3, <1>4, <1>5, <1>6 DEF HandlerStep, PlaceStep, UpdateStep, DeleteStep

LEMMA WorkerKeepsWork ==
  ASSUME Faults = {}, Inv, WorkInv, NEW o \in Orders, WorkerStep(o)
  PROVE  WorkInv'
  <1>. TypeOK
    BY DEF Inv
  <1>1. /\ handler' = handler
        /\ \A p \in Orders : p # o => orders'[p] = orders[p] /\ worker'[p] = worker[p]
    BY DEF WorkerStep, Load, StartProcessing, Finalize, Yield, Confirm, WorkerFails,
           WorkerUnseen, UpdateStatusWithOutbox, Record, WorkerGoto, TypeOK, tables
  <1>2. /\ orders'[o] = "PENDING" => worker'[o] \in {"load", "process"}
        /\ orders'[o] = "PROCESSING" => worker'[o] = "finalize"
    <2>1. CASE StartProcessing(o) \/ Finalize(o)
      BY <2>1 DEF StartProcessing, Finalize, UpdateStatusWithOutbox, Record, WorkerGoto,
                  TypeOK
    <2>2. CASE Load(o) \/ Yield(o) \/ Confirm(o)
      BY <2>2 DEF Load, Yield, Confirm, WorkerGoto, TypeOK, WorkInv, tables
    <2>. QED
      BY <2>1, <2>2 DEF WorkerStep, WorkerFails, WorkerUnseen
  <1>. QED
    BY <1>1, <1>2 DEF WorkInv

LEMMA WorkNext ==
  ASSUME Faults = {}, "PROCESSING" \notin PatchTargets, Inv, WorkInv, [Next]_vars
  PROVE  WorkInv'
  <1>1. CASE UNCHANGED vars
    BY <1>1 DEF vars, WorkInv
  <1>. QED
    BY <1>1, RequestKeepsWork, HandlerKeepsWork, WorkerKeepsWork DEF Next, Crash, Expire

\* The drain waits for what it must: without store faults, and unless the wait for
\* requests gives up, an exit finds every order executed, failed or deleted, however
\* requests and workers were interleaved when the signal came.
THEOREM SettledAtExit ==
  ASSUME Faults = {}, "PROCESSING" \notin PatchTargets
  PROVE  ProcessSpec => []SettledByExit
  <1>1. ProcessInit => Inv /\ WorkInv /\ DrainInv
    BY InitInv DEF ProcessInit, Init, WorkInv, Idle, DrainInv
  <1>2. Inv /\ WorkInv /\ DrainInv /\ [ProcessNext]_allVars => Inv' /\ WorkInv' /\ DrainInv'
    BY ProcessStepsServe, NextInv, WorkNext, DrainNext
  <1>3. WorkInv /\ DrainInv => SettledByExit
    <2>. SUFFICES ASSUME WorkInv, DrainInv, Exited, "requests" \notin cutOff,
                         NEW o \in Orders, Live(o)
                  PROVE  orders[o] \in Terminal
      BY DEF SettledByExit
    <2>1. worker[o] \in {"none", "done"}
      BY DEF DrainInv, Exited, WorkersInFlight
    <2>. QED
      BY <2>1 DEF WorkInv, Live, OrderStatus, Terminal
  <1>. QED
    BY <1>1, <1>2, <1>3, PTL DEF ProcessSpec

==============================================================================
