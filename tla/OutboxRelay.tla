----------------------------- MODULE OutboxRelay -----------------------------
(***************************************************************************)
(* The transactional outbox and the relays that drain it: one relay per   *)
(* replica of order-service, each polling Postgres with FOR UPDATE SKIP    *)
(* LOCKED and writing to Kafka while its transaction is open.              *)
(*                                                                         *)
(* A relay's batch is its open transaction: the rows in it are locked, and *)
(* what it has decided about them is visible to nobody until Commit.  The  *)
(* topic is keyed by aggregate, so it is kept as one log per aggregate.    *)
(***************************************************************************)
EXTENDS Naturals, Sequences, FiniteSets

CONSTANTS
    NumRows,      \* outbox rows, with ids 1..NumRows
    Aggregates,   \* the orders they belong to
    AggregateOf,  \* the order of each row
    Replicas,     \* relays running at the same time
    BatchSize,
    MaxAttempts,
    RelayFaults,  \* the faults of this environment
    MaxSends      \* bound: appends to one aggregate's log

Rows == 1..NumRows

RelayFaultKinds == {"publish", "unseen", "rollback", "requeue"}

ASSUME RelayAssumption ==
    /\ NumRows \in Nat
    /\ AggregateOf \in [Rows -> Aggregates]
    /\ BatchSize \in Nat \ {0}
    /\ MaxAttempts \in Nat \ {0}
    /\ RelayFaults \subseteq RelayFaultKinds
    /\ MaxSends \in Nat

VARIABLES
    rows,      \* each row's status; "unborn" until its order's write commits
    attempts,  \* each row's attempts column
    relay,     \* each relay's open transaction
    topic,     \* per aggregate, the rows on the Kafka log
    retired    \* history: the rows that have been FAILED at some time

vars == <<rows, attempts, relay, topic, retired>>

\* batch: the rows locked; todo: those not reached yet; sent and failed: those
\* whose publish returned nil and those whose publish returned an error.
NoBatch == [batch |-> {}, todo |-> {}, sent |-> {}, failed |-> {}]

Init ==
    /\ rows = [m \in Rows |-> "unborn"]
    /\ attempts = [m \in Rows |-> 0]
    /\ relay = [r \in Replicas |-> NoBatch]
    /\ topic = [a \in Aggregates |-> <<>>]
    /\ retired = {}

------------------------------------------------------------------------------
SameOrder(m) == {e \in Rows : AggregateOf[e] = AggregateOf[m]}

\* A bug: the batch query does not skip locked rows.
LockedIgnored(m) == FALSE

Locked(m) == \E r \in Replicas : m \in relay[r].batch

OnTopic(m) ==
    \E i \in 1..Len(topic[AggregateOf[m]]) : topic[AggregateOf[m]][i] = m

\* The n rows of S with the smallest ids: ORDER BY id LIMIT n.
FirstRows(S, n) == {m \in S : Cardinality({e \in S : e < m}) < n}

\* An order's write commits with its row.  Ids come from a sequence, and the
\* order's row lock keeps the rows of one order in commit order.
Enqueue(m) ==
    /\ rows[m] = "unborn"
    /\ \A e \in SameOrder(m) : e < m => rows[e] # "unborn"
    /\ rows' = [rows EXCEPT ![m] = "PENDING"]
    /\ UNCHANGED <<attempts, relay, topic, retired>>

\* A bug: a relay waits until it can fill its batch.
ClaimFullBatch(r) ==
    LET batch == FirstRows({m \in Rows : rows[m] = "PENDING" /\ ~Locked(m)},
                           BatchSize)
    IN  /\ relay[r] = NoBatch
        /\ Cardinality(batch) = BatchSize
        /\ relay' = [relay EXCEPT ![r] = [NoBatch EXCEPT !.batch = batch,
                                                         !.todo = batch]]
        /\ UNCHANGED <<rows, attempts, topic, retired>>

\* PublishBatch begins: lock a batch of pending rows nobody else holds.
Claim(r) ==
    LET batch == FirstRows({m \in Rows : rows[m] = "PENDING" /\ ~Locked(m)},
                           BatchSize)
    IN  /\ relay[r] = NoBatch
        /\ batch # {}
        /\ relay' = [relay EXCEPT ![r] = [NoBatch EXCEPT !.batch = batch,
                                                         !.todo = batch]]
        /\ UNCHANGED <<rows, attempts, topic, retired>>

\* m is the row the relay's loop reaches next.
Reached(r, m) ==
    /\ m \in relay[r].todo
    /\ \A e \in relay[r].todo : m <= e

AppendToTopic(m) ==
    /\ Len(topic[AggregateOf[m]]) < MaxSends
    /\ topic' = [topic EXCEPT ![AggregateOf[m]] = Append(@, m)]

Sent(r, m) ==
    relay' = [relay EXCEPT ![r].todo = @ \ {m}, ![r].sent = @ \cup {m}]

\* A bug: the publisher's error is dropped.
FailedCountedAsSent(r, m) ==
    relay' = [relay EXCEPT ![r].todo = @ \ {m}, ![r].sent = @ \cup {m}]

\* A bug: the rest of the aggregate is not held back.
FailedAlone(r, m) ==
    relay' = [relay EXCEPT ![r].todo = @ \ {m}, ![r].failed = @ \cup {m}]

\* A failed publish blocks the rest of its aggregate for this batch.
Failed(r, m) ==
    relay' = [relay EXCEPT ![r].todo = @ \ SameOrder(m),
                           ![r].failed = @ \cup {m}]

Publish(r, m) ==
    /\ Reached(r, m)
    /\ AppendToTopic(m)
    /\ Sent(r, m)
    /\ UNCHANGED <<rows, attempts, retired>>

PublishFails(r, m) ==
    /\ "publish" \in RelayFaults
    /\ Reached(r, m)
    /\ Failed(r, m)
    /\ UNCHANGED <<rows, attempts, topic, retired>>

\* The broker appends the record but the write returns an error.
PublishUnseen(r, m) ==
    /\ "unseen" \in RelayFaults
    /\ Reached(r, m)
    /\ AppendToTopic(m)
    /\ Failed(r, m)
    /\ UNCHANGED <<rows, attempts, retired>>

\* recordFailure's update of a row: one more attempt, and the row is retired
\* once its attempts are used up.
AttemptsAfterFailure(m) == attempts[m] + 1

\* A bug: a status the table does not have.
StatusUnknown(m) ==
    IF AttemptsAfterFailure(m) >= MaxAttempts THEN "DEAD" ELSE "PENDING"

StatusAfterFailure(m) ==
    IF AttemptsAfterFailure(m) >= MaxAttempts THEN "FAILED" ELSE "PENDING"

\* The loop is over: the batch's marks and failure counts commit together.
Commit(r) ==
    /\ relay[r].batch # {}
    /\ relay[r].todo = {}
    /\ rows' = [m \in Rows |->
                   IF m \in relay[r].sent THEN "PROCESSED"
                   ELSE IF m \in relay[r].failed THEN StatusAfterFailure(m)
                   ELSE rows[m]]
    /\ attempts' = [m \in Rows |->
                       IF m \in relay[r].failed THEN AttemptsAfterFailure(m)
                       ELSE attempts[m]]
    /\ relay' = [relay EXCEPT ![r] = NoBatch]
    /\ retired' = retired \cup
                     {m \in relay[r].failed : StatusAfterFailure(m) = "FAILED"}
    /\ UNCHANGED topic

\* The transaction is lost at any point: a crash, the end of the shutdown
\* flush's budget, or a write or commit Postgres refuses.
Rollback(r) ==
    /\ "rollback" \in RelayFaults
    /\ relay[r] # NoBatch
    /\ relay' = [relay EXCEPT ![r] = NoBatch]
    /\ UNCHANGED <<rows, attempts, topic, retired>>

\* RequeueFailed, run by an operator: retired rows become pending again.
Requeue ==
    /\ "requeue" \in RelayFaults
    /\ \E m \in Rows : rows[m] = "FAILED"
    /\ rows' = [m \in Rows |->
                   IF rows[m] = "FAILED" THEN "PENDING" ELSE rows[m]]
    /\ attempts' = [m \in Rows |->
                       IF rows[m] = "FAILED" THEN 0 ELSE attempts[m]]
    /\ UNCHANGED <<relay, topic, retired>>

PublishStep(r) ==
    \E m \in Rows : Publish(r, m) \/ PublishFails(r, m) \/ PublishUnseen(r, m)

Next ==
    \/ \E m \in Rows : Enqueue(m)
    \/ \E r \in Replicas :
           Claim(r) \/ PublishStep(r) \/ Commit(r) \/ Rollback(r)
    \/ Requeue

Spec == Init /\ [][Next]_vars

\* A running relay polls on its timer, and a publish or commit returns.
Fairness ==
    \A r \in Replicas :
        WF_vars(Claim(r)) /\ WF_vars(PublishStep(r)) /\ WF_vars(Commit(r))

FairSpec == Spec /\ Fairness

------------------------------------------------------------------------------
(* Properties *)

RowStatus == {"unborn", "PENDING", "PROCESSED", "FAILED"}
Transaction == [batch : SUBSET Rows, todo : SUBSET Rows,
                sent : SUBSET Rows, failed : SUBSET Rows]

TypeOK ==
    /\ rows \in [Rows -> RowStatus]
    /\ attempts \in [Rows -> Nat]
    /\ relay \in [Replicas -> Transaction]
    /\ topic \in [Aggregates -> Seq(Rows)]
    /\ retired \subseteq Rows

\* No event is lost: a row leaves the queue as PROCESSED only if its event is
\* on the topic, whatever crashed or rolled back between the two.
ProcessedIsPublished ==
    \A m \in Rows : rows[m] = "PROCESSED" => OnTopic(m)

\* Two relays never hold one row, and what a relay holds is still pending in
\* the table, so no row is marked by one replica and retired by another.
BatchesDisjoint ==
    /\ \A r1, r2 \in Replicas :
           r1 # r2 => relay[r1].batch \cap relay[r2].batch = {}
    /\ \A r \in Replicas : \A m \in relay[r].batch : rows[m] = "PENDING"

\* Per-order ordering: where an order's event stands on the topic, every earlier
\* event of that order stands before it, or has at some time been given up as
\* FAILED.  It holds of one relay, not of two.
PublishedInOrder ==
    \A a \in Aggregates : \A i \in 1..Len(topic[a]) :
        \A e \in SameOrder(topic[a][i]) : e < topic[a][i] =>
            (\E j \in 1..(i - 1) : topic[a][j] = e) \/ e \in retired

\* The operator's requeues and the lost transactions come to an end.
EventuallyUndisturbed ==
    <>[][~Requeue /\ \A r \in Replicas : ~Rollback(r)]_vars

\* A pending event does not stay pending: it is published, or retired when its
\* attempts are used up, and a poison message does not hold up the rest.
Drains ==
    EventuallyUndisturbed =>
        \A m \in Rows : rows[m] = "PENDING" ~> rows[m] # "PENDING"
==============================================================================
