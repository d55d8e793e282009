-------------------------- MODULE OutboxRelayProofs ---------------------------
(***************************************************************************)
(* What OutboxRelay guarantees for any number of rows, orders and replicas, *)
(* any batch size and retry budget, and any faults: the rows of an open     *)
(* transaction are its own, and no event is lost; and, of a single relay,   *)
(* that each order's events are published in order.                         *)
(***************************************************************************)
EXTENDS OutboxRelay, FiniteSetTheorems, TLAPS

\* An open transaction has sent, failed, or still to reach only rows it holds,
\* and what it counts as sent is on the topic.
TransactionInv ==
    \A r \in Replicas :
        /\ relay[r].todo \cup relay[r].sent \cup relay[r].failed
               \subseteq relay[r].batch
        /\ \A m \in relay[r].sent : OnTopic(m)

Inv == TypeOK /\ TransactionInv /\ ProcessedIsPublished /\ BatchesDisjoint

------------------------------------------------------------------------------
LEMMA NoBatchType == NoBatch \in Transaction
  BY DEF NoBatch, Transaction

LEMMA InitInv == Init => Inv
  BY NoBatchType
     DEF Init, Inv, TypeOK, TransactionInv, ProcessedIsPublished,
         BatchesDisjoint, RowStatus, NoBatch

\* What is on the topic stays there when a row is appended, and the row
\* appended is on it.
LEMMA AppendKeeps ==
    ASSUME TypeOK, NEW m \in Rows, AppendToTopic(m)
    PROVE  /\ topic' \in [Aggregates -> Seq(Rows)]
           /\ OnTopic(m)'
           /\ \A e \in Rows : OnTopic(e) => OnTopic(e)'
  <1>. DEFINE a == AggregateOf[m]
  <1>1. a \in Aggregates /\ topic[a] \in Seq(Rows)
    BY RelayAssumption DEF TypeOK
  <1>2. /\ topic'[a] = Append(topic[a], m)
        /\ \A b \in Aggregates \ {a} : topic'[b] = topic[b]
        /\ topic' \in [Aggregates -> Seq(Rows)]
    BY <1>1 DEF AppendToTopic, TypeOK
  <1>3. /\ Len(topic'[a]) = Len(topic[a]) + 1
        /\ topic'[a][Len(topic'[a])] = m
        /\ \A i \in 1..Len(topic[a]) : topic'[a][i] = topic[a][i]
        /\ Len(topic[a]) \in Nat
    BY <1>1, <1>2
  <1>4. OnTopic(m)'
    BY <1>3 DEF OnTopic
  <1>5. ASSUME NEW e \in Rows, OnTopic(e)
        PROVE  OnTopic(e)'
    <2>1. CASE AggregateOf[e] = a
      <3>1. PICK i \in 1..Len(topic[a]) : topic[a][i] = e
        BY <1>5, <2>1 DEF OnTopic
      <3>2. i \in 1..Len(topic'[a]) /\ topic'[a][i] = e
        BY <1>3, <3>1
      <3>. QED
        BY <2>1, <3>2 DEF OnTopic
    <2>2. CASE AggregateOf[e] # a
      <3>1. AggregateOf[e] \in Aggregates \ {a}
        BY <2>2, RelayAssumption
      <3>. QED
        BY <1>2, <1>5, <3>1 DEF OnTopic
    <2>. QED
      BY <2>1, <2>2
  <1>. QED
    BY <1>2, <1>4, <1>5

\* A publish, successful or not, changes one relay's record of its batch.
LEMMA SentKeeps ==
    ASSUME Inv, NEW r \in Replicas, NEW m \in relay[r].todo, Sent(r, m)
    PROVE  /\ relay' \in [Replicas -> Transaction]
           /\ relay'[r].batch = relay[r].batch
           /\ relay'[r].todo = relay[r].todo \ {m}
           /\ relay'[r].sent = relay[r].sent \cup {m}
           /\ relay'[r].failed = relay[r].failed
           /\ \A q \in Replicas \ {r} : relay'[q] = relay[q]
  <1>. relay \in [Replicas -> Transaction] /\ m \in Rows
    BY DEF Inv, TypeOK, Transaction
  <1>. QED
    BY DEF Sent, Transaction

LEMMA FailedKeeps ==
    ASSUME Inv, NEW r \in Replicas, NEW m \in relay[r].todo, Failed(r, m)
    PROVE  /\ relay' \in [Replicas -> Transaction]
           /\ relay'[r].batch = relay[r].batch
           /\ relay'[r].todo = relay[r].todo \ SameOrder(m)
           /\ relay'[r].sent = relay[r].sent
           /\ relay'[r].failed = relay[r].failed \cup {m}
           /\ \A q \in Replicas \ {r} : relay'[q] = relay[q]
  <1>. relay \in [Replicas -> Transaction] /\ m \in Rows
    BY DEF Inv, TypeOK, Transaction
  <1>. QED
    BY DEF Failed, Transaction

LEMMA EnqueueInv ==
    ASSUME Inv, NEW m \in Rows, Enqueue(m)
    PROVE  Inv'
  <1>1. TypeOK'
    BY DEF Enqueue, Inv, TypeOK, RowStatus
  <1>2. TransactionInv'
    BY DEF Enqueue, Inv, TransactionInv, OnTopic
  <1>3. ProcessedIsPublished'
    BY DEF Enqueue, Inv, TypeOK, ProcessedIsPublished, OnTopic
  <1>4. BatchesDisjoint'
    BY DEF Enqueue, Inv, TypeOK, Transaction, BatchesDisjoint
  <1>. QED
    BY <1>1, <1>2, <1>3, <1>4 DEF Inv

LEMMA ClaimInv ==
    ASSUME Inv, NEW r \in Replicas, Claim(r)
    PROVE  Inv'
  <1>. DEFINE batch == FirstRows({m \in Rows : rows[m] = "PENDING" /\ ~Locked(m)},
                                 BatchSize)
  <1>1. /\ batch \subseteq Rows
        /\ \A m \in batch : rows[m] = "PENDING" /\ ~Locked(m)
    BY DEF FirstRows
  <1>. HIDE DEF batch
  <1>2. [NoBatch EXCEPT !.batch = batch, !.todo = batch] \in Transaction
    BY <1>1 DEF NoBatch, Transaction
  <1>3. /\ relay' \in [Replicas -> Transaction]
        /\ relay'[r].batch = batch
        /\ relay'[r].todo = batch
        /\ relay'[r].sent = {} /\ relay'[r].failed = {}
        /\ \A q \in Replicas \ {r} : relay'[q] = relay[q]
    BY <1>2 DEF Claim, Inv, TypeOK, NoBatch, batch
  <1>4. UNCHANGED <<rows, attempts, topic, retired>>
    BY DEF Claim
  <1>5. TypeOK'
    BY <1>3, <1>4 DEF Inv, TypeOK
  <1>6. TransactionInv' /\ ProcessedIsPublished'
    BY <1>3, <1>4 DEF Inv, TransactionInv, ProcessedIsPublished, OnTopic
  <1>7. BatchesDisjoint'
    <2>1. ASSUME NEW q \in Replicas \ {r}
          PROVE  relay[q].batch \cap batch = {}
      BY <1>1 DEF Locked
    <2>2. \A q \in Replicas : relay'[q].batch = IF q = r THEN batch
                                                ELSE relay[q].batch
      BY <1>3
    <2>3. \A q1, q2 \in Replicas :
              q1 # q2 => relay'[q1].batch \cap relay'[q2].batch = {}
      BY <2>1, <2>2 DEF Inv, BatchesDisjoint
    <2>4. \A q \in Replicas : \A m \in relay'[q].batch : rows'[m] = "PENDING"
      BY <1>1, <1>4, <2>2 DEF Inv, BatchesDisjoint
    <2>. QED
      BY <2>3, <2>4 DEF BatchesDisjoint
  <1>. QED
    BY <1>5, <1>6, <1>7 DEF Inv

\* What a publish leaves to show once it is known to keep the batches as they
\* are, to record nothing as sent that is not on the topic, and to leave the
\* table alone.
LEMMA SameBatches ==
    ASSUME Inv, NEW r \in Replicas,
           relay' \in [Replicas -> Transaction],
           \A q \in Replicas : relay'[q].batch = relay[q].batch,
           \A q \in Replicas \ {r} : relay'[q] = relay[q],
           relay'[r].todo \cup relay'[r].sent \cup relay'[r].failed
               \subseteq relay[r].batch,
           \A m \in relay'[r].sent : OnTopic(m)',
           topic' \in [Aggregates -> Seq(Rows)],
           \A m \in Rows : OnTopic(m) => OnTopic(m)',
           UNCHANGED <<rows, attempts, retired>>
    PROVE  Inv'
  <1>1. TypeOK' /\ ProcessedIsPublished' /\ BatchesDisjoint'
    BY DEF Inv, TypeOK, ProcessedIsPublished, BatchesDisjoint
  <1>2. ASSUME NEW q \in Replicas \ {r}, NEW m \in relay'[q].sent
        PROVE  OnTopic(m)'
    <2>1. m \in relay[q].sent /\ m \in Rows
      BY <1>2 DEF Inv, TypeOK, Transaction
    <2>. QED
      BY <2>1 DEF Inv, TransactionInv
  <1>3. TransactionInv'
    BY <1>2 DEF Inv, TransactionInv
  <1>. QED
    BY <1>1, <1>3 DEF Inv

LEMMA PublishInv ==
    ASSUME Inv, NEW r \in Replicas, PublishStep(r)
    PROVE  Inv'
  <1>. TypeOK
    BY DEF Inv
  <1>1. PICK m \in Rows : Publish(r, m) \/ PublishFails(r, m) \/ PublishUnseen(r, m)
    BY DEF PublishStep
  <1>2. m \in relay[r].todo
    BY <1>1 DEF Publish, PublishFails, PublishUnseen, Reached
  <1>3. /\ relay[r] \in Transaction
        /\ relay[r].todo \cup relay[r].sent \cup relay[r].failed
               \subseteq relay[r].batch
        /\ \A e \in relay[r].sent : OnTopic(e)
        /\ relay[r].sent \subseteq Rows
    BY DEF Inv, TypeOK, TransactionInv, Transaction
  <1>4. CASE Publish(r, m)
    <2>1. /\ topic' \in [Aggregates -> Seq(Rows)]
          /\ OnTopic(m)'
          /\ \A e \in Rows : OnTopic(e) => OnTopic(e)'
      BY <1>4, AppendKeeps DEF Publish
    <2>2. UNCHANGED <<rows, attempts, retired>> /\ Sent(r, m)
      BY <1>4 DEF Publish
    <2>3. /\ relay' \in [Replicas -> Transaction]
          /\ relay'[r].batch = relay[r].batch
          /\ relay'[r].todo = relay[r].todo \ {m}
          /\ relay'[r].sent = relay[r].sent \cup {m}
          /\ relay'[r].failed = relay[r].failed
          /\ \A q \in Replicas \ {r} : relay'[q] = relay[q]
      BY <1>2, <2>2, SentKeeps
    <2>4. \A e \in relay'[r].sent : OnTopic(e)'
      BY <1>3, <2>1, <2>3
    <2>5. /\ relay'[r].todo \cup relay'[r].sent \cup relay'[r].failed
                 \subseteq relay[r].batch
          /\ \A q \in Replicas : relay'[q].batch = relay[q].batch
      BY <1>2, <1>3, <2>3
    <2>. QED
      BY <2>1, <2>2, <2>3, <2>4, <2>5, SameBatches
  <1>5. CASE PublishFails(r, m) \/ PublishUnseen(r, m)
    <2>1. /\ topic' \in [Aggregates -> Seq(Rows)]
          /\ \A e \in Rows : OnTopic(e) => OnTopic(e)'
      <3>1. CASE PublishFails(r, m)
        BY <3>1 DEF PublishFails, TypeOK, OnTopic
      <3>2. CASE PublishUnseen(r, m)
        BY <3>2, AppendKeeps DEF PublishUnseen
      <3>. QED
        BY <1>5, <3>1, <3>2
    <2>2. UNCHANGED <<rows, attempts, retired>> /\ Failed(r, m)
      BY <1>5 DEF PublishFails, PublishUnseen
    <2>3. /\ relay' \in [Replicas -> Transaction]
          /\ relay'[r].batch = relay[r].batch
          /\ relay'[r].todo = relay[r].todo \ SameOrder(m)
          /\ relay'[r].sent = relay[r].sent
          /\ relay'[r].failed = relay[r].failed \cup {m}
          /\ \A q \in Replicas \ {r} : relay'[q] = relay[q]
      BY <1>2, <2>2, FailedKeeps
    <2>4. \A e \in relay'[r].sent : OnTopic(e)'
      BY <1>3, <2>1, <2>3
    <2>5. /\ relay'[r].todo \cup relay'[r].sent \cup relay'[r].failed
                 \subseteq relay[r].batch
          /\ \A q \in Replicas : relay'[q].batch = relay[q].batch
      BY <1>2, <1>3, <2>3
    <2>. QED
      BY <2>1, <2>2, <2>3, <2>4, <2>5, SameBatches
  <1>. QED
    BY <1>1, <1>4, <1>5

LEMMA EndInv ==
    ASSUME Inv, NEW r \in Replicas, Commit(r) \/ Rollback(r)
    PROVE  Inv'
  <1>1. /\ relay' \in [Replicas -> Transaction]
        /\ relay'[r] = NoBatch
        /\ \A q \in Replicas \ {r} : relay'[q] = relay[q]
        /\ topic' = topic
    BY NoBatchType DEF Commit, Rollback, Inv, TypeOK
  <1>2. \A m \in Rows : OnTopic(m) <=> OnTopic(m)'
    BY <1>1 DEF OnTopic
  <1>3. TransactionInv'
    BY <1>1, <1>2 DEF Inv, TypeOK, Transaction, TransactionInv, NoBatch
  <1>4. CASE Commit(r)
    <2>1. /\ rows' \in [Rows -> RowStatus]
          /\ attempts' \in [Rows -> Nat]
          /\ retired' \subseteq Rows
      BY <1>4 DEF Commit, Inv, TypeOK, Transaction, RowStatus,
                  StatusAfterFailure, AttemptsAfterFailure
    <2>2. ProcessedIsPublished'
      BY <1>2, <1>4 DEF Commit, Inv, TransactionInv, ProcessedIsPublished,
                        StatusAfterFailure
    <2>3. BatchesDisjoint'
      <3>1. ASSUME NEW q \in Replicas \ {r}, NEW m \in relay[q].batch
            PROVE  rows'[m] = "PENDING"
        <4>1. m \in Rows /\ m \notin relay[r].sent \cup relay[r].failed
          BY DEF Inv, TypeOK, Transaction, TransactionInv, BatchesDisjoint
        <4>. QED
          BY <1>4, <4>1 DEF Commit, Inv, BatchesDisjoint
      <3>. QED
        BY <1>1, <3>1 DEF Inv, BatchesDisjoint, NoBatch
    <2>. QED
      BY <1>1, <1>3, <2>1, <2>2, <2>3 DEF Inv, TypeOK
  <1>5. CASE Rollback(r)
    BY <1>1, <1>2, <1>3, <1>5
       DEF Rollback, Inv, TypeOK, ProcessedIsPublished, BatchesDisjoint, NoBatch
  <1>. QED
    BY <1>4, <1>5

LEMMA RequeueInv ==
    ASSUME Inv, Requeue
    PROVE  Inv'
  BY DEF Requeue, Inv, TypeOK, TransactionInv, ProcessedIsPublished,
         BatchesDisjoint, RowStatus, Transaction, OnTopic

LEMMA NextInv == Inv /\ [Next]_vars => Inv'
  <1>. SUFFICES ASSUME Inv, [Next]_vars PROVE Inv'
    OBVIOUS
  <1>1. CASE UNCHANGED vars
    BY <1>1 DEF vars, Inv, TypeOK, TransactionInv, ProcessedIsPublished,
                BatchesDisjoint, OnTopic
  <1>2. CASE Next
    BY <1>2, EnqueueInv, ClaimInv, PublishInv, EndInv, RequeueInv DEF Next
  <1>. QED
    BY <1>1, <1>2

LEMMA InvHolds == Spec => []Inv
  BY InitInv, NextInv, PTL DEF Spec

\* Every variable keeps its type.
THEOREM Typed == Spec => []TypeOK
  BY InvHolds, PTL DEF Inv

\* No event is lost: what the table calls PROCESSED is on the topic.
THEOREM NothingLost == Spec => []ProcessedIsPublished
  BY InvHolds, PTL DEF Inv

\* Relays never hold one another's rows.
THEOREM DisjointBatches == Spec => []BatchesDisjoint
  BY InvHolds, PTL DEF Inv

------------------------------------------------------------------------------
(* Per-order ordering, while one relay runs *)

OneRelay == \A r1, r2 \in Replicas : r1 = r2

\* Rows of one order are born in id order.
BornInOrder ==
    \A m \in Rows : \A e \in SameOrder(m) :
        e < m /\ rows[m] # "unborn" => rows[e] # "unborn"

FailedIsRetired == \A m \in Rows : rows[m] = "FAILED" => m \in retired

\* What a relay still has to publish follows earlier events of its order that
\* it also still has to publish, or that are on the topic, or were given up.
TodoCovered ==
    \A r \in Replicas : \A m \in relay[r].todo : \A e \in SameOrder(m) :
        e < m => e \in relay[r].todo \/ OnTopic(e) \/ e \in retired

OrderInv ==
    BornInOrder /\ FailedIsRetired /\ TodoCovered /\ PublishedInOrder

LEMMA OrderInit == Init => OrderInv
  BY DEF Init, OrderInv, BornInOrder, FailedIsRetired, TodoCovered,
         PublishedInOrder, NoBatch

\* A batch of the smallest ids has no gap below its members.
LEMMA FirstRowsDownward ==
    ASSUME NEW S \in SUBSET Rows, NEW m \in FirstRows(S, BatchSize),
           NEW e \in S, e < m
    PROVE  e \in FirstRows(S, BatchSize)
  <1>. DEFINE below(x) == {y \in S : y < x}
  <1>1. IsFiniteSet(Rows)
    BY FS_Interval, RelayAssumption DEF Rows
  <1>2. m \in Rows /\ e \in Rows
    BY DEF FirstRows
  <1>3. below(e) \subseteq below(m) /\ below(m) \subseteq Rows
    <2>1. ASSUME NEW y \in S, y < e
          PROVE  y < m
      <3>1. y \in Int /\ e \in Int /\ m \in Int
        BY <1>2 DEF Rows
      <3>. QED
        BY <2>1, <3>1
    <2>. QED
      BY <2>1
  <1>4. IsFiniteSet(below(m))
    BY <1>1, <1>3, FS_Subset
  <1>5. /\ Cardinality(below(e)) <= Cardinality(below(m))
        /\ Cardinality(below(e)) \in Nat /\ Cardinality(below(m)) \in Nat
    BY <1>3, <1>4, FS_Subset, FS_CardinalityType
  <1>6. Cardinality(below(m)) < BatchSize
    BY DEF FirstRows
  <1>. HIDE DEF below
  <1>7. Cardinality(below(e)) < BatchSize
    BY <1>5, <1>6, RelayAssumption
  <1>. QED
    BY <1>7 DEF FirstRows, below

\* A row published when it is the first its relay has not reached follows its
\* predecessors on the topic.
LEMMA AppendInOrder ==
    ASSUME Inv, OrderInv, NEW r \in Replicas, NEW m \in Rows, Reached(r, m),
           AppendToTopic(m), retired' = retired
    PROVE  PublishedInOrder'
  <1>. DEFINE a == AggregateOf[m]
  <1>. TypeOK
    BY DEF Inv
  <1>1. a \in Aggregates /\ topic[a] \in Seq(Rows)
    BY RelayAssumption DEF TypeOK
  <1>2. /\ topic'[a] = Append(topic[a], m)
        /\ \A b \in Aggregates \ {a} : topic'[b] = topic[b]
    BY <1>1 DEF AppendToTopic, TypeOK
  <1>3. /\ Len(topic[a]) \in Nat
        /\ Len(topic'[a]) = Len(topic[a]) + 1
        /\ topic'[a][Len(topic'[a])] = m
        /\ \A i \in 1..Len(topic[a]) : topic'[a][i] = topic[a][i]
    BY <1>1, <1>2
  <1>4. ASSUME NEW e \in SameOrder(m), e < m
        PROVE  \/ \E j \in 1..Len(topic[a]) : topic[a][j] = e
               \/ e \in retired
    <2>1. e \in Rows /\ m \in relay[r].todo /\ e \notin relay[r].todo
      BY <1>4 DEF Reached, SameOrder, Rows
    <2>2. OnTopic(e) \/ e \in retired
      BY <1>4, <2>1 DEF OrderInv, TodoCovered
    <2>. QED
      BY <2>2 DEF OnTopic, SameOrder
  <1>5. ASSUME NEW b \in Aggregates, NEW i \in 1..Len(topic'[b]),
               NEW e \in SameOrder(topic'[b][i]), e < topic'[b][i]
        PROVE  (\E j \in 1..(i - 1) : topic'[b][j] = e) \/ e \in retired'
    <2>1. CASE b # a
      BY <1>2, <1>5, <2>1 DEF OrderInv, PublishedInOrder
    <2>2. CASE b = a /\ i = Len(topic'[a])
      <3>1. i - 1 = Len(topic[a]) /\ topic'[b][i] = m
        BY <1>3, <2>2
      <3>2. (\E j \in 1..Len(topic[a]) : topic[a][j] = e) \/ e \in retired
        BY <1>4, <1>5, <3>1
      <3>. QED
        BY <1>3, <2>2, <3>1, <3>2
    <2>3. CASE b = a /\ i # Len(topic'[a])
      <3>1. i \in 1..Len(topic[a]) /\ topic'[b][i] = topic[a][i]
        BY <1>3, <1>5, <2>3
      <3>2. (\E j \in 1..(i - 1) : topic[a][j] = e) \/ e \in retired
        BY <1>1, <1>5, <3>1 DEF OrderInv, PublishedInOrder
      <3>3. \A j \in 1..(i - 1) : topic'[a][j] = topic[a][j]
        BY <1>3, <3>1
      <3>. QED
        BY <2>3, <3>2, <3>3
    <2>. QED
      BY <2>1, <2>2, <2>3
  <1>. QED
    BY <1>5 DEF PublishedInOrder

\* Steps that leave a relay's list of rows to publish alone, or take a row off
\* it that is then on the topic, or take off it all rows of an order.
LEMMA TodoShrinks ==
    ASSUME Inv, OrderInv, NEW r \in Replicas, NEW m \in relay[r].todo,
           \A q \in Replicas \ {r} : relay'[q] = relay[q],
           \/ relay'[r].todo = relay[r].todo \ {m} /\ OnTopic(m)'
           \/ relay'[r].todo = relay[r].todo \ SameOrder(m),
           \A e \in Rows : OnTopic(e) => OnTopic(e)',
           retired' = retired
    PROVE  TodoCovered'
  <1>. SUFFICES ASSUME NEW q \in Replicas, NEW n \in relay'[q].todo,
                       NEW e \in SameOrder(n), e < n
                PROVE  e \in relay'[q].todo \/ OnTopic(e)' \/ e \in retired'
    BY DEF TodoCovered
  <1>1. n \in relay[q].todo /\ e \in Rows
    BY DEF SameOrder
  <1>2. e \in relay[q].todo \/ OnTopic(e) \/ e \in retired
    BY <1>1 DEF OrderInv, TodoCovered
  <1>3. CASE q = r /\ e \in relay[r].todo /\ e \notin relay'[r].todo
    <2>1. CASE relay'[r].todo = relay[r].todo \ {m} /\ OnTopic(m)'
      BY <1>3, <2>1
    <2>2. CASE relay'[r].todo = relay[r].todo \ SameOrder(m)
      <3>1. e \in SameOrder(m) /\ n \notin SameOrder(m) /\ n \in Rows
        BY <1>1, <1>3, <2>2 DEF Inv, TypeOK, Transaction
      <3>. QED
        BY <3>1 DEF SameOrder
    <2>. QED
      BY <2>1, <2>2
  <1>. QED
    BY <1>1, <1>2, <1>3

LEMMA OrderEnqueue ==
    ASSUME Inv, OrderInv, NEW m \in Rows, Enqueue(m)
    PROVE  OrderInv'
  <1>1. BornInOrder'
    BY DEF Enqueue, Inv, TypeOK, OrderInv, BornInOrder, SameOrder
  <1>2. FailedIsRetired' /\ TodoCovered' /\ PublishedInOrder'
    BY DEF Enqueue, Inv, TypeOK, OrderInv, FailedIsRetired, TodoCovered,
           PublishedInOrder, OnTopic
  <1>. QED
    BY <1>1, <1>2 DEF OrderInv

LEMMA OrderClaim ==
    ASSUME OneRelay, Inv, OrderInv, NEW r \in Replicas, Claim(r)
    PROVE  OrderInv'
  <1>. DEFINE pending == {m \in Rows : rows[m] = "PENDING" /\ ~Locked(m)}
              batch == FirstRows(pending, BatchSize)
  <1>1. /\ UNCHANGED <<rows, topic, retired>>
        /\ relay'[r].todo = batch
        /\ batch \subseteq pending
    BY DEF Claim, Inv, TypeOK, NoBatch, FirstRows
  <1>2. \A m \in Rows : ~Locked(m)
    BY DEF OneRelay, Claim, Locked, NoBatch
  <1>3. ASSUME NEW m \in batch, NEW e \in SameOrder(m), e < m
        PROVE  e \in batch \/ OnTopic(e) \/ e \in retired
    <2>1. e \in Rows /\ m \in Rows /\ rows[e] # "unborn"
      BY <1>1, <1>3 DEF OrderInv, BornInOrder, SameOrder
    <2>2. CASE rows[e] = "PENDING"
      BY <1>2, <1>3, <2>1, <2>2, FirstRowsDownward
    <2>3. CASE rows[e] = "PROCESSED"
      BY <2>1, <2>3 DEF Inv, ProcessedIsPublished
    <2>4. CASE rows[e] = "FAILED"
      BY <2>1, <2>4 DEF OrderInv, FailedIsRetired
    <2>. QED
      BY <2>1, <2>2, <2>3, <2>4 DEF Inv, TypeOK, RowStatus
  <1>. HIDE DEF batch
  <1>4. TodoCovered'
    BY <1>1, <1>3 DEF OneRelay, TodoCovered, OnTopic
  <1>. QED
    BY <1>1, <1>4
       DEF OrderInv, BornInOrder, FailedIsRetired, PublishedInOrder

LEMMA OrderPublish ==
    ASSUME Inv, OrderInv, NEW r \in Replicas, PublishStep(r)
    PROVE  OrderInv'
  <1>. TypeOK
    BY DEF Inv
  <1>1. PICK m \in Rows : Publish(r, m) \/ PublishFails(r, m) \/ PublishUnseen(r, m)
    BY DEF PublishStep
  <1>2. /\ UNCHANGED <<rows, retired>>
        /\ Reached(r, m)
        /\ m \in relay[r].todo
    BY <1>1 DEF Publish, PublishFails, PublishUnseen, Reached
  <1>3. BornInOrder' /\ FailedIsRetired'
    BY <1>2 DEF OrderInv, BornInOrder, FailedIsRetired
  <1>4. CASE Publish(r, m)
    <2>1. AppendToTopic(m) /\ Sent(r, m)
      BY <1>4 DEF Publish
    <2>2. PublishedInOrder'
      BY <1>2, <2>1, AppendInOrder
    <2>3. TodoCovered'
      BY <1>2, <2>1, AppendKeeps, SentKeeps, TodoShrinks
    <2>. QED
      BY <1>3, <2>2, <2>3 DEF OrderInv
  <1>5. CASE PublishFails(r, m)
    <2>1. UNCHANGED topic /\ Failed(r, m)
      BY <1>5 DEF PublishFails
    <2>2. \A e \in Rows : OnTopic(e) => OnTopic(e)'
      BY <2>1 DEF OnTopic
    <2>3. TodoCovered'
      BY <1>2, <2>1, <2>2, FailedKeeps, TodoShrinks
    <2>. QED
      BY <1>2, <1>3, <2>1, <2>3 DEF OrderInv, PublishedInOrder
  <1>6. CASE PublishUnseen(r, m)
    <2>1. AppendToTopic(m) /\ Failed(r, m)
      BY <1>6 DEF PublishUnseen
    <2>2. PublishedInOrder'
      BY <1>2, <2>1, AppendInOrder
    <2>3. TodoCovered'
      BY <1>2, <2>1, AppendKeeps, FailedKeeps, TodoShrinks
    <2>. QED
      BY <1>3, <2>2, <2>3 DEF OrderInv
  <1>. QED
    BY <1>1, <1>4, <1>5, <1>6

LEMMA OrderEnd ==
    ASSUME Inv, OrderInv, NEW r \in Replicas, Commit(r) \/ Rollback(r)
    PROVE  OrderInv'
  <1>1. /\ topic' = topic
        /\ retired \subseteq retired'
        /\ relay'[r].todo = {}
        /\ \A q \in Replicas \ {r} : relay'[q] = relay[q]
    BY DEF Commit, Rollback, NoBatch, Inv, TypeOK
  <1>2. TodoCovered' /\ PublishedInOrder'
    BY <1>1 DEF OrderInv, TodoCovered, PublishedInOrder, OnTopic
  <1>3. CASE Commit(r)
    <2>1. \A m \in relay[r].sent \cup relay[r].failed : rows[m] = "PENDING"
      BY DEF Inv, TransactionInv, BatchesDisjoint
    <2>2. \A m \in Rows : rows'[m] = "unborn" <=> rows[m] = "unborn"
      BY <1>3, <2>1 DEF Commit, StatusAfterFailure
    <2>3. BornInOrder'
      BY <2>2 DEF OrderInv, BornInOrder, SameOrder
    <2>4. FailedIsRetired'
      BY <1>3 DEF Commit, OrderInv, FailedIsRetired
    <2>. QED
      BY <1>2, <2>3, <2>4 DEF OrderInv
  <1>4. CASE Rollback(r)
    BY <1>2, <1>4 DEF Rollback, OrderInv, BornInOrder, FailedIsRetired
  <1>. QED
    BY <1>3, <1>4

LEMMA OrderRequeue ==
    ASSUME Inv, OrderInv, Requeue
    PROVE  OrderInv'
  BY DEF Requeue, OrderInv, BornInOrder, FailedIsRetired, TodoCovered,
         PublishedInOrder, SameOrder, OnTopic

LEMMA OrderNext == OneRelay /\ Inv /\ OrderInv /\ [Next]_vars => OrderInv'
  <1>. SUFFICES ASSUME OneRelay, Inv, OrderInv, [Next]_vars PROVE OrderInv'
    OBVIOUS
  <1>1. CASE UNCHANGED vars
    BY <1>1 DEF vars, OrderInv, BornInOrder, FailedIsRetired, TodoCovered,
                PublishedInOrder, OnTopic
  <1>2. CASE Next
    BY <1>2, OrderEnqueue, OrderClaim, OrderPublish, OrderEnd, OrderRequeue
       DEF Next
  <1>. QED
    BY <1>1, <1>2

\* One relay publishes each order's events in order, except past an event that
\* has been given up as FAILED, however batches fail, roll back and repeat.
THEOREM OrderedByOneRelay == ASSUME OneRelay PROVE Spec => []PublishedInOrder
  <1>1. Inv /\ OrderInv /\ [Next]_vars => OrderInv'
    BY OrderNext
  <1>. QED
    BY <1>1, OrderInit, InvHolds, PTL DEF Spec, OrderInv
==============================================================================
