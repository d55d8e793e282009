---------------------------- MODULE OrderService -----------------------------
(***************************************************************************)
(* order-service: HTTP handlers that place, update and delete orders, and *)
(* one detached lifecycle worker per placed order, over two stores: the   *)
(* Postgres tables orders and outbox, and the Redis idempotency keys.     *)
(* Every action is one round trip to a store, so handlers and workers of  *)
(* all replicas interleave exactly where the code lets them.               *)
(*                                                                         *)
(* A Postgres transaction is one step: the status write is a conditional  *)
(* UPDATE whose row lock serialises writers of one order, and the outbox  *)
(* row is inserted in the same transaction.  Rows of the outbox are kept  *)
(* per order, in id order; nothing here depends on the order of rows of   *)
(* different orders.                                                       *)
(***************************************************************************)
EXTENDS OrderDomain, FiniteSets

CONSTANTS
    Orders,       \* order ids (UUIDs): each is generated at most once
    Keys,         \* client idempotency keys
    Handlers,     \* concurrent HTTP requests, over all replicas
    PatchTargets, \* statuses clients ask PATCH /orders/:id/status to set
    Faults,       \* the faults of this environment
    MaxEvents,    \* bound: a terminal status is rewritten below this length
    NoOrder, NoKey

FaultKinds == {"db", "redis", "crash", "expiry"}

ASSUME ServiceAssumption ==
    /\ PatchTargets \subseteq OrderStatus
    /\ Faults \subseteq FaultKinds
    /\ MaxEvents \in Nat
    /\ NoOrder \notin Orders
    /\ NoKey \notin Keys

VARIABLES
    orders,   \* the row's status; "none" before insert, "deleted" after delete
    keyOf,    \* the row's idempotency_key
    outbox,   \* the statuses of the order's outbox rows, oldest first
    redis,    \* "free", or the value stored under the key
    handler,  \* each request: where it is and what it has read
    worker    \* each order's lifecycle worker: where it is

vars == <<orders, keyOf, outbox, redis, handler, worker>>
tables == <<orders, keyOf, outbox>>

RowState == OrderStatus \cup {"none", "deleted"}
HandlerPc == {"idle", "insert", "release", "update", "delete"}
WorkerPc == {"none", "load", "process", "finalize", "confirm", "done"}

HandlerState == [pc : HandlerPc, order : Orders \cup {NoOrder},
                 key : Keys \cup {NoKey}, cur : RowState, next : RowState]

Idle == [pc |-> "idle", order |-> NoOrder, key |-> NoKey,
         cur |-> "none", next |-> "none"]

Init ==
    /\ orders = [o \in Orders |-> "none"]
    /\ keyOf = [o \in Orders |-> NoKey]
    /\ outbox = [o \in Orders |-> <<>>]
    /\ redis = [k \in Keys |-> "free"]
    /\ handler = [h \in Handlers |-> Idle]
    /\ worker = [o \in Orders |-> "none"]

------------------------------------------------------------------------------
(* The stores *)

Live(o) == orders[o] \in OrderStatus

\* A bug: the idempotency key has no unique index.
KeyNotChecked(k) == TRUE

\* The unique index on orders.idempotency_key.
KeyUnused(k) == \A o \in Orders : Live(o) => keyOf[o] # k

\* An id no row and no request uses: what uuid.New() returns.
Fresh(o) == orders[o] = "none" /\ \A h \in Handlers : handler[h].order # o

\* A bug: the event is left to a later write.
RecordRowOnly(o, s) ==
    /\ orders' = [orders EXCEPT ![o] = s]
    /\ UNCHANGED outbox

\* Where a row's status is written, the event saying so is written with it.
Record(o, s) ==
    /\ orders' = [orders EXCEPT ![o] = s]
    /\ outbox' = [outbox EXCEPT ![o] = Append(@, s)]

\* CreateWithOutbox, committed.
CreateWithOutbox(o, k) ==
    /\ orders[o] = "none"
    /\ KeyUnused(k)
    /\ Record(o, "PENDING")
    /\ keyOf' = [keyOf EXCEPT ![o] = k]

\* A bug: the UPDATE lacks AND status = expected.
UpdateUnconditionally(o, expected, next) ==
    /\ Live(o)
    /\ Record(o, next)
    /\ UNCHANGED keyOf

\* UpdateStatusWithOutbox, committed: UPDATE ... WHERE id = o AND status = expected.
UpdateStatusWithOutbox(o, expected, next) ==
    /\ orders[o] = expected
    /\ Record(o, next)
    /\ UNCHANGED keyOf

\* A bug: a deletion announced with a status the contract does not have.
DeleteRowAnnounced(o) ==
    /\ Live(o)
    /\ Record(o, "deleted")
    /\ UNCHANGED keyOf

\* DELETE ... WHERE id = o, committed; whatever the row's status is by now.
DeleteRow(o) ==
    /\ Live(o)
    /\ orders' = [orders EXCEPT ![o] = "deleted"]
    /\ UNCHANGED <<keyOf, outbox>>

SetKey(k, v) == redis' = [redis EXCEPT ![k] = v]

Goto(h, to) == handler' = [handler EXCEPT ![h].pc = to]
Return(h) == handler' = [handler EXCEPT ![h] = Idle]

------------------------------------------------------------------------------
(* Place *)

\* SETNX took the key.  (A key already taken answers 409 and changes nothing.)
Claim(h, k, o) ==
    /\ handler[h] = Idle
    /\ redis[k] = "free"
    /\ Fresh(o)
    /\ SetKey(k, "processing")
    /\ handler' = [handler EXCEPT ![h] =
                      [Idle EXCEPT !.pc = "insert", !.order = o, !.key = k]]
    /\ UNCHANGED <<tables, worker>>

\* SETNX took the key and its reply was lost: Place returns the error.
ClaimUnseen(h, k) ==
    /\ "redis" \in Faults
    /\ handler[h] = Idle
    /\ redis[k] = "free"
    /\ SetKey(k, "processing")
    /\ UNCHANGED <<tables, handler, worker>>

\* The insert commits and the lifecycle worker starts.
InsertCommits(h) ==
    /\ handler[h].pc = "insert"
    /\ CreateWithOutbox(handler[h].order, handler[h].key)
    /\ worker' = [worker EXCEPT ![handler[h].order] = "load"]
    /\ Return(h)
    /\ UNCHANGED redis

\* The insert commits but the answer is an error: no worker, and the key goes.
InsertUnseen(h) ==
    /\ "db" \in Faults
    /\ handler[h].pc = "insert"
    /\ CreateWithOutbox(handler[h].order, handler[h].key)
    /\ Goto(h, "release")
    /\ UNCHANGED <<redis, worker>>

\* A duplicate key, or a transaction that rolled back.
InsertFails(h) ==
    /\ handler[h].pc = "insert"
    /\ ~KeyUnused(handler[h].key) \/ "db" \in Faults
    /\ Goto(h, "release")
    /\ UNCHANGED <<tables, redis, worker>>

\* ReleaseIdempotency, on Place's error path and at the end of Delete.
Release(h) ==
    /\ handler[h].pc = "release"
    /\ SetKey(handler[h].key, "free")
    /\ Return(h)
    /\ UNCHANGED <<tables, worker>>

\* Redis is down, or the request's context is already cancelled: only logged.
ReleaseFails(h) ==
    /\ "redis" \in Faults
    /\ handler[h].pc = "release"
    /\ Return(h)
    /\ UNCHANGED <<tables, redis, worker>>

------------------------------------------------------------------------------
(* UpdateStatus *)

\* GetByID, then the transition checked against the status just read.
ReadForUpdate(h, o, next) ==
    /\ handler[h] = Idle
    /\ Live(o)
    /\ CanTransitionStatus(orders[o], next)
    /\ next = orders[o] => Len(outbox[o]) < MaxEvents
    /\ handler' = [handler EXCEPT ![h] =
                      [Idle EXCEPT !.pc = "update", !.order = o,
                                   !.cur = orders[o], !.next = next]]
    /\ UNCHANGED <<tables, redis, worker>>

UpdateCommits(h) ==
    /\ handler[h].pc = "update"
    /\ UpdateStatusWithOutbox(handler[h].order, handler[h].cur, handler[h].next)
    /\ Return(h)
    /\ UNCHANGED <<redis, worker>>

\* No row with the status read any more (ErrInvalidTransition), or a rollback.
UpdateFails(h) ==
    /\ handler[h].pc = "update"
    /\ orders[handler[h].order] # handler[h].cur \/ "db" \in Faults
    /\ Return(h)
    /\ UNCHANGED <<tables, redis, worker>>

------------------------------------------------------------------------------
(* Delete *)

\* GetByID, then the check that the order just read is PENDING.
ReadForDelete(h, o) ==
    /\ handler[h] = Idle
    /\ orders[o] = "PENDING"
    /\ handler' = [handler EXCEPT ![h] =
                      [Idle EXCEPT !.pc = "delete", !.order = o,
                                   !.key = keyOf[o]]]
    /\ UNCHANGED <<tables, redis, worker>>

DeleteCommits(h) ==
    /\ handler[h].pc = "delete"
    /\ DeleteRow(handler[h].order)
    /\ Goto(h, "release")
    /\ UNCHANGED <<redis, worker>>

\* The row goes but the answer is an error: Delete returns without releasing.
DeleteUnseen(h) ==
    /\ "db" \in Faults
    /\ handler[h].pc = "delete"
    /\ DeleteRow(handler[h].order)
    /\ Return(h)
    /\ UNCHANGED <<redis, worker>>

\* A bug: the key is released although this request deleted nothing.
DeleteFailsReleasing(h) ==
    /\ handler[h].pc = "delete"
    /\ ~Live(handler[h].order) \/ "db" \in Faults
    /\ Goto(h, "release")
    /\ UNCHANGED <<tables, redis, worker>>

DeleteFails(h) ==
    /\ handler[h].pc = "delete"
    /\ ~Live(handler[h].order) \/ "db" \in Faults
    /\ Return(h)
    /\ UNCHANGED <<tables, redis, worker>>

------------------------------------------------------------------------------
(* The lifecycle worker.  A request's amount is positive (binding gt=0, and  *)
(* a CHECK on the column), so the final status it writes is EXECUTED.        *)

WorkerGoto(o, to) == worker' = [worker EXCEPT ![o] = to]

Load(o) ==
    /\ worker[o] = "load"
    /\ WorkerGoto(o, IF orders[o] = "PENDING" THEN "process" ELSE "done")
    /\ UNCHANGED <<tables, redis, handler>>

\* A bug: the worker returns after its first write.
StartProcessingOnly(o) ==
    /\ worker[o] = "process"
    /\ UpdateStatusWithOutbox(o, "PENDING", "PROCESSING")
    /\ WorkerGoto(o, "done")
    /\ UNCHANGED <<redis, handler>>

StartProcessing(o) ==
    /\ worker[o] = "process"
    /\ UpdateStatusWithOutbox(o, "PENDING", "PROCESSING")
    /\ WorkerGoto(o, "finalize")
    /\ UNCHANGED <<redis, handler>>

Finalize(o) ==
    /\ worker[o] = "finalize"
    /\ UpdateStatusWithOutbox(o, "PROCESSING", "EXECUTED")
    /\ WorkerGoto(o, "confirm")
    /\ UNCHANGED <<redis, handler>>

\* A bug: the worker that lost the row still confirms the key.
YieldConfirming(o) ==
    /\ \/ worker[o] = "process" /\ orders[o] # "PENDING"
       \/ worker[o] = "finalize" /\ orders[o] # "PROCESSING"
    /\ WorkerGoto(o, "confirm")
    /\ UNCHANGED <<tables, redis, handler>>

\* The conditional UPDATE matched no row: somebody else moved the order.
Yield(o) ==
    /\ \/ worker[o] = "process" /\ orders[o] # "PENDING"
       \/ worker[o] = "finalize" /\ orders[o] # "PROCESSING"
    /\ WorkerGoto(o, "done")
    /\ UNCHANGED <<tables, redis, handler>>

Confirm(o) ==
    /\ worker[o] = "confirm"
    /\ SetKey(keyOf[o], "processed")
    /\ WorkerGoto(o, "done")
    /\ UNCHANGED <<tables, handler>>

\* Any error or the 30-second deadline ends the worker where it stands ...
WorkerFails(o) ==
    /\ \/ worker[o] \in {"load", "process", "finalize"} /\ "db" \in Faults
       \/ worker[o] = "confirm" /\ "redis" \in Faults
    /\ WorkerGoto(o, "done")
    /\ UNCHANGED <<tables, redis, handler>>

\* ... also when the write it was told had failed has in fact committed.
WorkerUnseen(o) ==
    /\ "db" \in Faults
    /\ \/ /\ worker[o] = "process"
          /\ UpdateStatusWithOutbox(o, "PENDING", "PROCESSING")
       \/ /\ worker[o] = "finalize"
          /\ UpdateStatusWithOutbox(o, "PROCESSING", "EXECUTED")
    /\ WorkerGoto(o, "done")
    /\ UNCHANGED <<redis, handler>>

------------------------------------------------------------------------------
(* The environment *)

\* A replica dies with the requests H and the workers W it was running.
\* Nothing resumes either after a restart.
Crash(H, W) ==
    /\ "crash" \in Faults
    /\ \A o \in W : worker[o] # "none"
    /\ handler' = [h \in Handlers |-> IF h \in H THEN Idle ELSE handler[h]]
    /\ worker' = [o \in Orders |-> IF o \in W THEN "done" ELSE worker[o]]
    /\ UNCHANGED <<tables, redis>>

\* The key's TTL passes, or Redis loses it.
Expire(k) ==
    /\ "expiry" \in Faults
    /\ redis[k] # "free"
    /\ SetKey(k, "free")
    /\ UNCHANGED <<tables, handler, worker>>

------------------------------------------------------------------------------
PlaceStep(h) ==
    \/ InsertCommits(h) \/ InsertUnseen(h) \/ InsertFails(h)
    \/ Release(h) \/ ReleaseFails(h)

UpdateStep(h) == UpdateCommits(h) \/ UpdateFails(h)

DeleteStep(h) == DeleteCommits(h) \/ DeleteUnseen(h) \/ DeleteFails(h)

HandlerStep(h) == PlaceStep(h) \/ UpdateStep(h) \/ DeleteStep(h)

WorkerStep(o) ==
    \/ Load(o) \/ StartProcessing(o) \/ Finalize(o) \/ Yield(o) \/ Confirm(o)
    \/ WorkerFails(o) \/ WorkerUnseen(o)

Request(h) ==
    \/ \E k \in Keys, o \in Orders : Claim(h, k, o)
    \/ \E k \in Keys : ClaimUnseen(h, k)
    \/ \E o \in Orders, next \in PatchTargets : ReadForUpdate(h, o, next)
    \/ \E o \in Orders : ReadForDelete(h, o)

Next ==
    \/ \E h \in Handlers : Request(h) \/ HandlerStep(h)
    \/ \E o \in Orders : WorkerStep(o)
    \/ \E H \in SUBSET Handlers, W \in SUBSET Orders : Crash(H, W)
    \/ \E k \in Keys : Expire(k)

Spec == Init /\ [][Next]_vars

\* A request or a worker that has started takes its next step: goroutines are
\* scheduled and every store call returns.
Fairness ==
    /\ \A h \in Handlers : WF_vars(HandlerStep(h))
    /\ \A o \in Orders : WF_vars(WorkerStep(o))

FairSpec == Spec /\ Fairness

------------------------------------------------------------------------------
(* Properties *)

TypeOK ==
    /\ orders \in [Orders -> RowState]
    /\ keyOf \in [Orders -> Keys \cup {NoKey}]
    /\ outbox \in [Orders -> Seq(OrderStatus)]
    /\ redis \in [Keys -> {"free", "processing", "processed"}]
    /\ handler \in [Handlers -> HandlerState]
    /\ worker \in [Orders -> WorkerPc]

Announced(o, s) == \E i \in 1..Len(outbox[o]) : outbox[o][i] = s

\* The order row and the outbox never disagree, whichever handlers and workers
\* raced and whatever failed: an order exists with an event from its first
\* instant, its events are a legal run of the state machine, and the newest
\* one carries the status the row has.
EventsMatchOrder ==
    \A o \in Orders :
        /\ orders[o] = "none" <=> outbox[o] = <<>>
        /\ LegalHistory(outbox[o])
        /\ Live(o) => outbox[o][Len(outbox[o])] = orders[o]

\* A customer is never told that an order both executed and failed: the
\* worker's final write and an operator's cannot both go through.
NoSplitDecision ==
    \A o \in Orders : ~(Announced(o, "EXECUTED") /\ Announced(o, "FAILED"))

\* Two orders placed with one idempotency key never both execute, except by
\* the one way the code leaves open: a delete that read the first while it was
\* PENDING and removed it after its worker had moved it.
OneExecutionPerKey ==
    \A o1, o2 \in Orders :
        /\ o1 # o2
        /\ keyOf[o1] = keyOf[o2]
        /\ Announced(o1, "EXECUTED")
        /\ Announced(o2, "EXECUTED")
        => \E o \in {o1, o2} : orders[o] = "deleted"

\* A key reads "processed" in Redis only once an order placed with it has
\* executed, so a client refused by it is refused for an order that ran.
ProcessedMeansExecuted ==
    \A k \in Keys : redis[k] = "processed" =>
        \E o \in Orders : keyOf[o] = k /\ Announced(o, "EXECUTED")

\* Without faults the cheap guard and the authoritative one agree: a live
\* order's key is taken in Redis, and a key being processed belongs to a live
\* order or to a request that will insert with it or release it.
RedisAgreesWithOrders ==
    /\ \A o \in Orders : Live(o) => redis[keyOf[o]] # "free"
    /\ \A k \in Keys : redis[k] = "processing" =>
           \/ ~KeyUnused(k)
           \/ \E h \in Handlers :
                  handler[h].key = k /\ handler[h].pc \in {"insert", "release"}

\* Without faults, and with no operator setting PROCESSING by hand, every order
\* placed reaches a terminal status or is deleted.
Settles ==
    \A o \in Orders : Live(o) ~> (orders[o] \in Terminal \cup {"deleted"})

\* Every behaviour of the service is one of the abstract order lifecycle.
Lifecycle == INSTANCE OrderLifecycle WITH status <- orders, announced <- outbox
ImplementsLifecycle == Lifecycle!Spec

\* order.go: "a repeated write of the same terminal state is tolerated so that
\* at-least-once event replay stays idempotent": rewriting EXECUTED would not
\* announce the execution again.
ExecutionAnnouncedOnce ==
    \A o \in Orders :
        Cardinality({i \in 1..Len(outbox[o]) : outbox[o][i] = "EXECUTED"}) <= 1
==============================================================================
