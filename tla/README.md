# FundKit in TLA+

A verification project for FundKit: TLA+ modules translated from the Go and
TypeScript sources, TLC configurations that check them on small instances, and
TLAPS proofs that carry the most important results to every value of the
constants. `PROJECT.json` lists the components, the runs with their properties,
the mutants that show each property can fail, the lines each definition models,
the findings, the hazards and the theorems.

    tlc -workers 2 -config MCOrderService.cfg MCOrderService   # one of the runs
    tlapm OrderServiceProofs.tla                               # one of the proof modules

Paths below are relative to the repository's root.

## 1. The system

    browser ── HTTP ──> api-gateway ── HTTP ──> order-service ── Postgres (orders, outbox)
                          │ accounts (Postgres)      │        └─ Redis (idempotency keys)
                          │ rate limiter             │ relay: outbox ──> Kafka order_events
                          └ health fan-out           │                   │ keyed by order id
                                                     │ gRPC (P&L)        ├─> portfolio-service
                                                     └──────────────────>│   (ledger in memory, DLQ)
                                                                         └─> notification-service
                                                                             (email, SMS, DLQ)

| component | state | operations | what is hard | correct when |
|---|---|---|---|---|
| **order write path** (`order-service/internal/service`, `repository`, `cache`, `domain`, `handler`) | the `orders` row and its unique `idempotency_key`, the `outbox` rows, one Redis key per client key | `Place`, `UpdateStatus`, `Delete`, and a detached worker per placed order (`processLifecycle`) | two requests and a worker over one row; a commit whose answer is lost; crashes that end a worker for good; a key that expires or that cannot be released | a status write follows the state machine and is announced exactly once, with it; no order executes and fails; one key executes once |
| **outbox relay** (`relay`, `repository/outbox_repository.go`, `messaging`) | outbox rows with attempts; one open transaction per replica; the Kafka log | `PublishBatch`, `recordFailure`, `RequeueFailed`, the timer | publishing inside a transaction that may roll back; `SKIP LOCKED` with several replicas; a batch with one failure | nothing marked published is missing from the topic; an order's events stay in order; rows do not stay pending |
| **consumer loop** (`consumer/kafka.go`, `dlq.go`, the same code in two services) | the group's offset, the reader's position, the event in process, its attempt | fetch, retry with backoff, park, commit; shutdown, crash, rebalance | the offset and what was done about an event live in different places and fail separately | the offset never silently passes an event; log order; a poison event does not stop the partition |
| **notifier** (`notification-service/internal/service`) | the seen-set | `Handle`: validate, deduplicate, send over each channel | at-least-once input, several channels of which one fails | one message per event and channel; nobody reachable is left out |
| **ledger** (`portfolio-service/internal/repository`, `service`, `domain`) | positions, the bounded dedup set; all in process memory | `ApplyOrderEvent`: price, deduplicate, buy or sell | duplicates beyond the dedup cap, refused sales, restarts that lose memory, rounding of released cost | a fill counts once, no paisa is lost, the offset passes only what is applied or parked |
| **prices and valuation** (`portfolio_service.go`, `cache/redis.go`, `nav_source.go`, the gRPC handler and order-service's client of it) | one quote per fund in Redis, with a TTL | the cache-aside look-up, by the consumer for a fill and by requests for a valuation; `GetUserPnL`, `GetPortfolio` | a slow look-up stores an old quote over a newer one; fills move the ledger while a request prices it; events of several partitions come in any order | a price in use is recent; an answer is of one instant; no order of consumption overdraws a position |
| **order-service process** (`order-service/cmd/server/main.go`) | where the shutdown is; what has gone out | start, signal, HTTP drain, worker drain, relay stop and final flush, exit | work started after a drain, waits that time out, a flush of several batches | nothing is cut off unless a budget has run out; every row is then published or has used up its attempts; the shutdown ends |
| **gateway** (`auth_service.go`, `user_repository.go`, `router.go`, `jwt.go`, `proxy_handler.go`) | users with two unique indexes; the tokens clients hold; requests in flight | register, log in, profile, forward with the verified identity | two registrations of one name or address; an insert that goes through behind a 500; requests interleaved between their calls | an owner always gets in; nobody is taken for another; hashing is within the limiter's rate |
| **rate limiter** (`api-gateway/internal/middleware/ratelimit.go`) | one token bucket per address | `allow`, the janitor | dropping a bucket forgets its use | dropping is invisible |
| **dashboard** (`frontend/src/hooks`, `lib/api.ts`, `App.tsx`) | token, lists on screen, banner, fetches in flight | polls, refreshes, writes, sign-in and sign-out | answers that outlive the fetch after them, the hook, or the session | own and freshest data; a confirmed write shows; an expired session ends |
| **health aggregation** | none | fan-out and join | – | pure reads; not modelled |
| **money** (`domain/money.go`) | none | parsing and formatting of paise | extremes of the range | not modelled (section 7) |
| configuration, logging, metrics, tracing, migrations, manifests, generated code | – | – | – | only the values they give the constants |

The order's path is: the gateway verifies the token and forwards the request;
order-service claims the key in Redis, writes order and outbox row in one
transaction and starts the worker; the worker moves the order to PROCESSING and
EXECUTED, writing an outbox row with each; the relay publishes the rows; the two
consumer groups read them independently; the browser polls the results.

## 2. Modules

| module | models | checked through | proofs |
|---|---|---|---|
| `OrderDomain` | statuses, `CanTransitionStatus`, legal histories | `OrderService` | |
| `OrderLifecycle` | **abstract**: an order's status moves along the state machine, each write announced once | `OrderService` (refinement) | |
| `OrderService` | the write path, one action per store round trip | `MCOrderService` | `OrderServiceProofs` |
| `OrderProcess` | `OrderService` in a process that flushes its outbox and shuts down | `MCOrderProcess` | `OrderServiceProofs` |
| `OutboxRelay` | outbox, relays, topic | `MCOutboxRelay` | `OutboxRelayProofs` |
| `EventConsumer` | the consumer loop over one partition | `MCEventConsumer` and the two services | `EventConsumerProofs` |
| `NotificationService` | `EventConsumer` composed with the notifier | `MCNotificationService` | `NotificationServiceProofs` |
| `Position` | the arithmetic of one position | the two below | `PortfolioServiceProofs`, `ValuationProofs` |
| `PortfolioService` | `EventConsumer` composed with the ledger | `MCPortfolioService` | `PortfolioServiceProofs` |
| `Valuation` | prices: NAV feed and cache, fills and valuations that use them | `MCValuation` | `ValuationProofs` |
| `TokenBucket` | **abstract**: buckets that are never dropped | `RateLimiter` (refinement) | |
| `RateLimiter` | the limiter and its janitor | `Gateway` | `GatewayProofs` |
| `Gateway` | `RateLimiter` composed with accounts, tokens and the proxy | `MCGateway` | `GatewayProofs` |
| `Dashboard` | the browser page and its sessions | `MCDashboard` | `DashboardProofs` |

Operators named after a bug (`UpdateUnconditionally`, `FailedAlone`, ...) stand
before the definition they vary and are used by no specification: each is a
plausible mistake in that code which makes one property fail.

### OrderService

`orders`, `keyOf` and `outbox` are the Postgres tables, `redis` the idempotency
keys, `handler[h]` a request between two of its store calls with what it has
read, `worker[o]` the lifecycle goroutine. One action is one round trip; a
transaction is one action, because the conditional `UPDATE ... WHERE status =`
takes the row's lock and the outbox row is inserted beside it. Each write has
up to three forms: it commits; it fails; it commits and the caller sees an error
(`InsertUnseen`, `DeleteUnseen`, `WorkerUnseen`, `ClaimUnseen`). `Crash(H, W)`
ends any set of requests and workers, which covers one replica of several;
nothing in the code resumes them.

Abstractions: an order id is picked when the key is claimed and not when the row
is built (nothing sees it in between); a request's fields are gone except key and
target status; amounts are positive, which the request binding and the column's
CHECK both require, so the worker's FAILED branch is not reached and FAILED only
comes from a PATCH; outbox rows are kept per order. `PatchTargets` are the
statuses clients ask for, `MaxEvents` bounds how often a terminal status is
rewritten (the code lets it be rewritten for ever).

### OrderProcess

One replica from start to exit, with the requests and workers of `OrderService` as
they are. `phase` is where `main` is: `Signal` closes the listener, but a request it has
accepted may make its first store call, which is where a request begins here, during the
wait (`Accept`); one that has not by the time the wait gives up is not followed.
`RequestsDrained` and `RequestsOverdue` are the two returns of `server.Shutdown`,
`StopRelay` is the end of `Drain` and the relay's cancellation, and `Flush` one
transaction of the final flush, which goes on after a full batch of which something
went out and ends otherwise (`GoesOn`). The two
budgets are the request drain's and the flush's; the worker drain has none, but the
workers have deadlines. A flush the database fails ends as an overdue one does.
`cutOff` records which budgets have run out, and "broker" when a flush could not publish
all it had claimed: that is where the promises end.
A row is an order with its place among that order's rows. `settled` holds the rows that
are no longer PENDING: published and marked so, or, if publishing can fail, marked FAILED
with their attempts used up. The flush claims the others (`Pending`) and cannot tell the
two kinds apart, so neither does the model. What the polls before the shutdown have
settled is some prefix of each order's rows and is chosen when the relay is stopped
(`Polled`), as nothing reads it before.
Attempts are not counted: whenever the oldest row left of an order fails, in the flush
too, it may have been its last (`Retirable`). The process is alone with its outbox; other
relays and `RequeueFailed`, which no service calls, are `OutboxRelay`'s. When the server
fails to start, `main` exits at once: that is the crash of `OrderService`. The admin
listener and the closers at the end are left out.

### OutboxRelay

`relay[r]` is replica r's open transaction: the rows locked, those the loop has
not reached, and the two lists `published` and failed. `Claim` is the
`SELECT ... FOR UPDATE SKIP LOCKED ORDER BY id LIMIT n`, `Publish` /
`PublishFails` / `PublishUnseen` one iteration, `Commit` the marks, the failure
counts and the retirement, `Rollback` a transaction lost anywhere. `Requeue` is
the operator's `RequeueFailed`. `Claim` is atomic: the rows a
select sees are those committed when it runs. Backoff lengths become
fairness. `MaxSends` bounds the log of one aggregate.

### EventConsumer, NotificationService, PortfolioService

`EventConsumer` is the loop with a handler about which nothing is known
(`Succeed`, `Refuse`, `Fail`); the two services replace that handler by their
own and leave the loop's steps as they are, so their state changes happen
together with the loop's. The group has a committed offset from the start: before its
first commit a reader begins at `StartOffset`, by default the end of the log
(`kafka.go:75`), and a restart then passes over what was published meanwhile. The models
begin after that commit, or with `StartOffset` first. `committed` survives restarts, everything else of the
process does not; `handled`, `parked`, `parkFailed` are histories.
`CloseFirst` is the one difference between the two mains that matters: the portfolio
closes its reader while the loop may still be in an event. A rebalance that keeps
the partition is `Rejoin`; one that takes it away is `Restart` by another
member. A member that goes on processing after losing its partition is not
modelled.

The notifier's `seen` is marked by `StartSending` before anything is sent, as in
`alreadyHandled`; a set at its cap is emptied. The ledger has one customer and
one fund: others share only the dedup set. Units are integers of the smallest
allotment, so the epsilon of `portfolio.go` is not modelled, and an event has its
units where the code divides the amount by the NAV it fetches on consumption:
that pricing is `Valuation`'s subject.
Seeded demo positions are off. An event with an empty id is not modelled.

`Position` is `ApplyBuy`, `ApplySell` with its rounding, `unitsFor` and the marking
to a price, shared with `Valuation`.

### Valuation

`lookup[a]` is one run of `resolveNAV`, of the consumer or of a request: the cache,
on a miss the feed, then the cache again, each call an action that can fail as the
code lets it (`ReadFaults`): a cache that does not answer is a miss, a feed that
does not answer is a price of zero, a `SET` that fails is only logged. A quote is
identified by the instant the feed gave it, so its age can be told. `CallBudget` is
the longest a look-up's calls can take together, the sum of their timeouts: time does
not pass over it (`Tick`). The executed orders of one customer are on partitions of their
own and are taken in any order; what the loop does around them (retry, park,
duplicates) appears as the event's `outcome`. A fill without a price is retried or
parked (`Unpriced`), a sale that is not covered is parked at once (`RefuseSale`).
`read[r]` is a `GetUserPnL` from `ListByUser`, whose result is a copy taken under
the ledger's lock, through one look-up per open position, to the answer; the gRPC
deadline ends it with a 503. `GetPortfolio` runs the same steps and shows other
columns of the same rows. `during[r]` records the ledgers there have been since
the request began. Amounts are multiples of the prices, so that units are whole.

### RateLimiter and Gateway

Time is ticks. A bucket stores its tokens as of its last use and `Level` is the
refill `rate.Limiter` computes on the next. Finding the bucket and taking the
token are one action although the lock is released in between: to differ, a
request would have to stall there for a whole `ClientTTL`. `Reap(at)` handles a
tick that may be older than now, as a buffered ticker channel's is. The assumption
`Rate * ClientTTL >= Burst` holds by far of the defaults (5/s, 10, ten minutes);
no configuration check enforces it, and without it an idle client gains tokens.

`Gateway` extends the limiter by what it stands in front of, with the same clock. A
request passes the limiter on arrival (`Admit`), then sits in `request[r]` at the
database or upstream call it is about to make. A person has one set of
registration details and keeps the latest token received; an account is named by the
person whose registration created it. `Fold` is `NormalizeUsername`: two typed
names may have one stored form. Both unique indexes are `Unclaimed`; `CreateUnseen`
is an insert that commits behind a 500. `Login` finds the account by the folded name
(`Named`) and compares the password; both outcomes cost one hash, counted in
`hashed`. `Call` verifies the token on arrival, `Identity` is the account `JWTAuth`
stamps, and `Forward` sends the request upstream with it or without it (`Arriving`): the
reverse proxy takes a request's hop-by-hop headers out after the stamping, and which
they are the request says. What order-service does without an identity is not modelled. `AnswerAtOnce` is every request that is answered
without a call: a probe, a body that does not parse, a missing or expired token.
CORS, request ids and logging change nothing of this.

`CredentialsAssumption` states what `OwnerSignsIn` needs of people: they know the
name they chose, and nobody logs in with another's name and password.

### Dashboard

An action is what the page runs between two awaits. `fetches` and `writes` are
requests in flight with the mount that sent them, the token they carried and the
gateway's answer. Aborting removes a fetch; writes are never aborted. The session
gate in `App.tsx` unmounts the hooks, so signing out discards their state and aborts their
fetches. A request that a write of an old mount starts after the sign-out carries
whatever token is stored by then, as in `apiRequest`. A login is one action.
Not modelled: the health poll (which aborts nothing and feeds no property here),
a reload of the page, and two tabs sharing one storage.

## 3. Runs

| run | instance | shows |
|---|---|---|
| `order_safety` | 2 orders, 1 key, 2 requests, every fault | `EventsMatchOrder`, `NoSplitDecision`, `OneExecutionPerKey`, `ProcessedMeansExecuted`, `ImplementsLifecycle` |
| `order_no_faults` | one process with 2 orders, 1 key, 2 requests; no store faults, every budget can run out, publishing can fail; batches of 2; fair | `RedisAgreesWithOrders`, `NothingLeftBehind`, `OnlyLateRequestsAreCut`, `SettlesUnlessCutOff`, `ShutdownEnds` |
| `order_executed_twice` (violation) | 1 order, no faults | a repeated PATCH announces EXECUTED twice |
| `relay_safety` | 2 relays, 3 rows of 2 orders, every fault | `ProcessedIsPublished`, `BatchesDisjoint` |
| `relay_order` | 1 relay, every fault, fair | `PublishedInOrder`, `Drains` |
| `relay_two_replicas` (violation) | 2 relays | order lost with one failed publish at most |
| `consumer_failed_park` (violation) | 2 events, a failing DLQ | an event is lost |
| `notifier` | 7 offsets (one unparseable), 5 events, 2 channels, 2 restarts | `SentOncePerProcess`, `PassedMeansDelivered` |
| `ledger` | 6 offsets, 5 events, dedup cap 2, 2 restarts, fair | `NothingSkippedSilently`, `HandledInOrder`, `PositionIsSumOfFills`, `CostConserved`, `PassedMeansApplied`, `EveryEventReached` |
| `valuation` | 2 funds, 3 orders, 1 request, TTL 1, call budget 1, 5 instants, every fault | `QuotesAreRecent`, `OneInstant` |
| `dashboard` | 2 sessions, 1 write, fair | `OnlyOwnData`, `FreshestShown`, `ReadsOwnWrites`, `SessionEndsForCause`, `ExpiredSessionEnds` |
| `gateway` | 4 persons at 1 address, 2 requests, rate 1, burst 2, TTL 2, 4 instants, every fault | `WithinRate`, `WorkWithinRate`, `NoForeignIdentity`, `OwnerSignsIn`, `ImplementsTokenBucket` |

`order_safety`, `relay_safety`, `notifier`, `ledger`, `valuation` and `dashboard` also
check their type invariants; the gateway's is only proved.

**Why the bounds suffice.** The conflicts of the write path are between two
requests and a worker over one order, or two orders over one key; a third of
either adds no new conflict, because every store call touches one row or one key.
`MaxEvents` 4 lets a terminal status be rewritten at least once. In the relay, three
rows of two orders put two rows of one order in one batch, in two batches and in
two relays' batches; two attempts separate a retry from a retirement. In both
consumers an event that must be parked stands between others, and two
restarts allow one during the recovery from the other. The process's batches are
smaller than the backlog its two orders can leave, so a flush takes several. The notifier's log
has one duplicate, and an event of each branch of `Handle`; its seen-set's cap
equals the number of ids that enter it, because at its cap `SentOncePerProcess` is false
(finding 7). The ledger's cap is below the number of fills, so ids are
evicted while redeliveries are within the cap; two thirds of 100 paise does not
divide, so rounding happens; the last sale closes the position. The valuation's
five instants are enough for a slow look-up's quote to be stored late, read before it
expires and used late, which is where `QuotesAreRecent` is tight; the moving price
makes a sale worth other units than its purchase. The gateway runs
long enough for a bucket to empty, be dropped and be remade, and for a token to
expire; its four persons are one each of a name and an address that collide with
another's, a name that only folds to another's, and details that are never accepted. Two
sessions are what it takes for an answer to arrive in the next one.
Proofs lift the bounds for everything listed in section 5.

`CHECK_DEADLOCK FALSE` is set where the system may rest: no more ids or rows, a
log read to its end, a process that has exited, the last allowed session ended. The
gateway and the valuation never rest, and their deadlock is checked.

**Properties with exceptions.** Several properties name the one way in which the
code lets them fail, so that they are tight: `OneExecutionPerKey` excepts a late
delete, `PublishedInOrder` a retired row, `NothingSkippedSilently` a park that
failed and was logged, `PassedMeansDelivered` a provider that can fail at or before
the channel, `SessionEndsForCause` the late 401, `NothingLeftBehind`,
`OnlyLateRequestsAreCut` and `SettlesUnlessCutOff` a budget that has run out.
`NothingLeftBehind` also excepts a row whose attempts were used up: the flush claims only
PENDING rows, so after an outage the process can exit cleanly with a FAILED row that never
reached the topic. `NoForeignIdentity` allows a request that arrives upstream with no
identity. `SentOncePerProcess` and
`PositionIsSumOfFills` are about one process, and hold while redeliveries come
within the cap.

## 4. Fairness

* `OrderService`: weak fairness of each request's and each worker's next step.
  A goroutine is scheduled and every store call has a deadline. No request has to
  arrive.
* `OrderProcess`: the same while the process runs, and weak fairness of the
  shutdown's next step. No signal has to come. `SettlesUnlessCutOff` is stated
  without store faults and without a client setting PROCESSING by hand, since a
  crash, an error or that PATCH leaves an order unfinished by design of the code.
* `OutboxRelay`: weak fairness of each relay's poll, publish and commit: the timer
  restarts after every flush, and a publish has a timeout. Publishing may fail
  for ever: rows are then retired. `Drains` assumes that rollbacks and requeues
  come to an end, as an operator who requeues for ever keeps rows pending.
* `PortfolioService` (as `EventConsumer`): weak fairness of the loop with its
  handler, of closing the reader once signalled, and of starting a stopped service
  again.
* `Dashboard`: weak fairness of the order poll, and strong fairness of the gateway's
  401 and of its delivery. Strong, because each poll aborts the fetch before it:
  the code guarantees an answer only if, again and again, one beats the interval.

## 5. What is proved

All proofs hold for every value of the constants allowed by the modules' named
assumptions.

**`OrderServiceProofs`.** `Typed` (types, and every request that is about to write
carries a legal transition from the status it read); `Refinement` (order-service implements
`OrderLifecycle`); `EventsMatch`, `OneDecision`, `KeyExecutesOnce`,
`ProcessedIsTrue`. The argument: `RequestsLegal` is what a request has checked
before it writes; the conditional UPDATE writes only if the status it read is
still the row's; so every step is on the tables either a stutter or a step of the abstract
lifecycle (`StepTables`, `StepRefines`). The events' legality alone is not
inductive: the abstract state is strengthened by "nothing but a repetition
follows a terminal status" (`HistoryInv`), from which `OneDecision` follows. For the keys,
`KeyInv` adds that two live orders have different keys (the unique index) and that
a worker that is about to confirm has executed its order. `GuardsAgree`: without
faults the Redis key and the unique index agree, by `GuardInv`, in which one request
at a time holds a key to insert with it or to release it, while no live order has it
(`HoldersExclude`); so a release never frees another order's key. `ProcessServes`: a
process that serves and shuts down takes the service through its own steps, which
carries all of the above through a shutdown. `OnlyLateAreCut`: by `DrainInv`, what
`main` has waited for is over and does not start again, because only a request in flight
starts a worker. `NothingLeft`: the flush ends on a batch that was not full or of which
nothing went out; if all it claimed went out, the published rows are a subset of the
pending ones of the same size, hence all of them (`FlushLeavesNothing`), and nothing is
written after the exit. It needs no bound on orders or rows: the outbox is finite in every
state because a step adds one row (`RowsNext`). `SettledAtExit` is the safety half of
`SettlesUnlessCutOff`, under the same two conditions: `WorkInv` says that a PENDING row
has a worker that will start it and a PROCESSING row one that will finish it, so when no
worker is left, no such row is.

**`OutboxRelayProofs`.** `Typed`, `NothingLost`, `DisjointBatches` for any number of
relays, by `TransactionInv`: what a relay calls sent is on the topic.
`OrderedByOneRelay`, for a single relay: `OrderInv` adds that rows are born in order,
that a FAILED row has been retired, and that before a row not yet reached every earlier row
of its order is in the same batch, on the topic, or retired (`TodoCovered`). The
lemma it rests on is that the smallest pending ids leave no gap below a member of
the batch. The violation run shows why it is false of two relays.

**`EventConsumerProofs`.** `Typed`, `NoneSkipped`, `InOrder`, by `LoopInv`: everything
before the event in process is accounted for, and an event at its commit is itself.
`AnyAnswer` is what the two services need to be instances of the loop: whatever their
handler answers, the step is one of the loop with a handler that can fail in both ways
(`Consumer`). From it, `LedgerConsumes` and `NotifierConsumes`: each service
implements the loop.

**`PortfolioServiceProofs`.** The lemmas of `EventConsumerProofs` are about single
steps of the loop, so they hold with the ledger as the handler (`LedgerSkipsNone`,
`LedgerInOrder`). `PassedIsApplied` by `LedgerInv`, which says of each event since the
process started what `LoopInv` says of it, with "in the ledger" for "handled"; it needs
that an id in the dedup set is that of an applied fill, for an event that is skipped as a
duplicate. `LedgerTyped` and `ClosedAtNoCost` rest on `CostOfPart`: the rounded cost of
a part is between nothing and all of the cost.

`PositionSummed` and `CostSummed` are about sums over the fills applied (`SumInv`). They
have a condition, `RedeliveredInTime`: a redelivery finds its id still in the
deduplication set. The code does not guarantee it (with a cap of 1, TLC finds `SumInv`
violated in the `ledger` instance; with its cap of 2, below its three fills, the
condition always holds). `SummedBelowCap` has none: until a process has
applied more fills than the set can hold, every fill is in it (`KnownInv`), so both
hold whatever is redelivered. That a sum grows by what is added to the set is `SumAdd`,
from the recursion that defines it: the recursive function exists and is unique on every
finite set (`SumExists`, `SumUnique`), and the choice of elements does not matter
(`SumRemove`). In place of induction each argument takes a smallest finite set that
violates it (`SmallestSet`), which the well-foundedness of strict inclusion provides.

**`NotificationServiceProofs`.** The same for the notifier (`NotifierSkipsNone`,
`NotifierTyped`). `PassedIsDelivered` by `SeenInv`: an event in the seen-set has gone out
as far as the providers allow, or is being sent. `SentOnce` has two hypotheses the
configuration decides, that the seen-set has room for the events that enter it and that the
channels differ, and finding 7 shows the first is needed; by `OnceInv`, an event
outside the seen-set has not been sent by this process.

**`ValuationProofs`.** `PricesRecent` follows a quote into a look-up, from there into the
cache with its expiry, and into another look-up (`PriceInv`): the two delays add up.
`ShowsOneInstant` by `ReadInv`: a request has a row for each open position of its copy
but those it has still to price. `ValuationTyped`: purchases, partial sales with their
rounding and missing prices keep units and cost from going below nothing, and a position without
units has no cost; the answers' copies inherit it (`EventTypes`, `ReadTypes`).

**`GatewayProofs`.** Of the limiter: `Typed`; `RateIsKept`, where the bound is made inductive by
adding what the bucket still holds to what the client has passed (`Paid`);
`Refinement` to `TokenBucket`, whose key lemma `ReapKeeps` is where
`Rate * ClientTTL >= Burst` is needed: an idle bucket has filled up by the time it
may be dropped. Of the gateway: `RateIsKeptByGateway` and `LimiterComposed`: every step of the gateway is
one of the limiter's or leaves it alone, so the limiter's theorems hold behind it. `WorkIsBounded`: the
hashes computed for an address, and those its requests in flight may still cost,
are covered by what the limiter has let through. `NoForeignIdentityTold` from what a token
and a request can hold; `OwnersSignIn` from the accounts' stored names being distinct, so that
the one account a login finds is its owner's.

**`DashboardProofs`.** Every property of the page but its liveness, for any number of
sessions and writes: `DashboardTyped`, `ScreenIsOwn`, `ScreenIsFresh`, `WritesAreShown`
and the action property `EndedForCause`. None is inductive alone, because everything on
screen comes out of an answer: the invariant says of each request in flight
what it may still bring (`FetchOK`, `WriteOK`). A fetch of the mounted page carries the
page's token and an answer no older than what the page has seen or been told; one of an
earlier page has a mount that no later session reuses, so it is discarded. `OnePerHook`
makes the newest fetch of a hook the only one, and `WritesBounded` counts the writes
whose answer is still out against the bound on the gateway's versions.

**Only model-checked.** The liveness properties (`SettlesUnlessCutOff`, `ShutdownEnds`,
`Drains`, `EveryEventReached`, `ExpiredSessionEnds`), since the provers have no fairness
or ENABLED. Every other property of a passing run is stated by a theorem; the
counterexamples of the three violation runs are TLC's alone.

## 6. Findings

With a run that exhibits them:

1. **An execution can be announced twice** (`order_executed_twice`). A PATCH of
   EXECUTED on an executed order is legal and writes a second outbox row with a new
   event id, so consumers that deduplicate by id apply it again; `order.go:84` says
   the tolerance keeps replay idempotent.
2. **Two relays lose per-order ordering** (`relay_two_replicas`). `SKIP LOCKED`
   lets one publish an order's later row while the other holds the earlier;
   `README.md:106` and `relay.go:6` say otherwise.
3. **A failed park loses the event** (`consumer_failed_park`). The loop goes on,
   and the next event's commit passes the one that was not parked;
   `kafka.go:292` says the consumer "would rather be stuck and visible".

Read off the code while modelling, and built into the models:

4. `Delete` checks PENDING and then deletes by id alone, so an order that has
   executed can go, with its key (`order_service.go:173`).
5. notification-service parks and commits an event whose backoff SIGTERM
   interrupted; `kafka.go:260` says it is redelivered.
6. The notifier marks an event as seen before it sends, so the retry after a
   provider failure is suppressed (`notifier.go:62`, against `:104`). Its only
   channel today, `LogChannel`, never fails.
7. The seen-set is emptied at its cap, with the newest ids in it
   (`notifier.go:136`).
8. The ledger is process memory and the offset is not: a restart loses every fill
   behind the offset (`holdings.go:37`). Its own comment admits it; the
   consumer's header promises the opposite.
9. `ParseRupees` wraps on large amounts and takes a sign in each part
   (`money.go:146`). Only tests call it.

10. A row the polls have retired is past the final flush, which claims only PENDING
   rows (`outbox_repository.go:66`, `:146`): a clean exit can leave it unpublished, though
   `main.go:161` says that the flush "publishes everything steps 1 and 2 just committed".
   With the default ten attempts it takes an outage of minutes that ends before the flush.
11. The identity is stamped before the reverse proxy removes hop-by-hop headers
   (`jwt.go:90`, `proxy_handler.go:64`), so it may not arrive. `identity.go:27` calls an empty
   identity legitimate for callers with no gateway in front of them, and
   `order_handler.go:55` then goes by the id in the request.
12. Before a consumer group's first commit a restart begins at `StartOffset`, by default
   the end of the log (portfolio `config.go:112`), and skips what came meanwhile.

Smaller: the comment on `cancelOrder` in `useOrders.ts:144` calls the delete soft,
and it is not; a 401 that answers an earlier session's request ends the next
session (`useOrders.ts:63`); the limiter's settings are not validated against each
other, and a `ClientTTL` of zero makes `time.NewTicker` panic; while the feed is out,
`Valuate` shows positions at a NAV of zero with no error (`Unpriced` refuses a fill
at that price, a valuation does not); order-service's shutdown may take 15 s for
requests, 30 s for workers and 5 s for the flush, 50 s in all, and
`k8s/order-service-deployment.yaml:26` ends it after 45.

## 7. Not modelled

* **End to end.** The write path, the relay, the consumers and the page are composed
  pairwise through what each promises the next, and not as one model: a
  run over all of them would multiply state spaces that share only the outbox and
  the topic. The links are `EventsMatchOrder` (every status has its row),
  `ProcessedIsPublished` and `PublishedInOrder` (every row reaches the topic, an order's in order),
  `NothingSkippedSilently` and `PassedMeansApplied` (the topic reaches the ledger).
* **Several partitions.** The consumer loop is one partition's: the loop takes one
  message at a time, and the events of one order are all on one partition. What
  depends on the order across partitions is in `Valuation`.
* **A consumer that lost its partition** and goes on processing, beside the new owner.
* **Health aggregation**: a fan-out and a join over disjoint slots, pure reads.
* **Money**: parsing and formatting of decimal text, sequential and without state;
  no service calls the parser, and its properties would restate the
  conversion. Finding 9 was read off it.
* **Float units**: positions are counted in whole units, so `UnitEpsilon` and the
  rounding of float products have no counterpart.
* **The gateway's CORS, request ids and logging**, the mains' admin, probe and metrics
  servers, and order-service's closers: nothing of the order's path depends on them.
* **The dashboard's** health poll, a reload of the page, and two tabs sharing one
  storage; pages and components, which render.
* **Configuration, logging, metrics, tracing, migrations, manifests, monitoring, the
  load test and generated code**: they give the constants their values, or nothing.
