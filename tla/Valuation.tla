------------------------------ MODULE Valuation ------------------------------
(***************************************************************************)
(* portfolio-service's prices: the NAV feed behind a Redis cache, read by  *)
(* the consumer to turn the amount of a fill into units and by requests to *)
(* value a portfolio, while the ledger moves under them.                    *)
(*                                                                         *)
(* One customer.  Executed orders are on partitions of their own, so they  *)
(* are consumed in any order; retries, duplicates, parking and offsets are *)
(* PortfolioService's and appear here as what becomes of an event.  A      *)
(* price is known by the instant at which the feed quoted it.              *)
(***************************************************************************)
EXTENDS Position

CONSTANTS
    Funds,
    Orders,      \* executed orders
    FundOf,
    Purchases,   \* the orders that buy; the others sell
    Amount,      \* in paise
    Consumer,
    Readers,     \* concurrent GetUserPnL requests
    Feed,        \* the price the feed quotes for a fund at each instant
    NAVTTL,
    CallBudget,  \* ticks within which a lookup's calls have ended
    MaxTime,     \* bound: the last tick
    ReadFaults   \* "cache", "feed", "deadline"

Times == 0..MaxTime
Actors == Readers \cup {Consumer}

\* Amounts are multiples of the prices: what they buy is whole units.
ASSUME ValuationAssumption ==
    /\ FundOf \in [Orders -> Funds]
    /\ Purchases \subseteq Orders
    /\ Consumer \notin Readers
    /\ NAVTTL \in Nat \ {0}
    /\ CallBudget \in Nat
    /\ MaxTime \in Nat
    /\ Feed \in [Funds -> [Times -> Nat \ {0}]]
    /\ Amount \in [Orders -> Nat \ {0}]
    /\ \A e \in Orders, t \in Times : Amount[e] % Feed[FundOf[e]][t] = 0
    /\ ReadFaults \subseteq {"cache", "feed", "deadline"}

VARIABLES
    now,
    cache,    \* Redis: the quote stored for each fund, and when it expires
    lookup,   \* each actor's resolveNAV
    ledger,   \* the customer's position in each fund
    outcome,  \* what has become of each order's event
    filling,  \* the event the consumer is pricing, or NoOrder
    read,     \* each request: the copied positions, and those valued so far
    during    \* history: the ledgers there have been since each request began

vars == <<now, cache, lookup, ledger, outcome, filling, read, during>>

NoOrder == "none"
NoQuote == -1
Quotes == Times \cup {NoQuote}

NotCached == [quote |-> NoQuote, expires |-> 0]
NoLookup == [pc |-> "idle"]
NoRead == [pc |-> "idle"]
EmptyLedger == [f \in Funds |-> NoHolding]

Init ==
    /\ now = 0
    /\ cache = [f \in Funds |-> NotCached]
    /\ lookup = [a \in Actors |-> NoLookup]
    /\ ledger = EmptyLedger
    /\ outcome = [e \in Orders |-> "waiting"]
    /\ filling = NoOrder
    /\ read = [r \in Readers |-> NoRead]
    /\ during = [r \in Readers |-> {}]

\* A quote in rupees; zero when the feed gave none.
Price(f, quote) == IF quote = NoQuote THEN 0 ELSE Feed[f][quote]

\* Calls have timeouts: no lookup goes on for longer than its budget.
Tick ==
    /\ now < MaxTime
    /\ \A a \in Actors : lookup[a] # NoLookup => now < lookup[a].since + CallBudget
    /\ now' = now + 1
    /\ UNCHANGED <<cache, lookup, ledger, outcome, filling, read, during>>

------------------------------------------------------------------------------
(* resolveNAV: the cache, then the feed, then the cache again *)

StartLookup(a, f) ==
    lookup' = [lookup EXCEPT ![a] =
        [pc |-> "get", fund |-> f, quote |-> NoQuote, since |-> now]]

EndLookup(a) == lookup' = [lookup EXCEPT ![a] = NoLookup]

Advance(a, pc, quote) ==
    lookup' = [lookup EXCEPT ![a].pc = pc, ![a].quote = quote]

LookupUnchanged == UNCHANGED <<now, ledger, outcome, filling, read, during>>

\* A bug: prices are stored without an expiry.
LiveForEver(entry) == entry # NotCached

Live(entry) == entry # NotCached /\ now < entry.expires

GetHit(a) ==
    /\ lookup[a].pc = "get"
    /\ Live(cache[lookup[a].fund])
    /\ Advance(a, "done", cache[lookup[a].fund].quote)
    /\ UNCHANGED cache
    /\ LookupUnchanged

\* No entry, or Redis does not answer.
GetMiss(a) ==
    /\ lookup[a].pc = "get"
    /\ ~Live(cache[lookup[a].fund]) \/ "cache" \in ReadFaults
    /\ Advance(a, "fetch", NoQuote)
    /\ UNCHANGED cache
    /\ LookupUnchanged

Fetch(a) ==
    /\ lookup[a].pc = "fetch"
    /\ Advance(a, "set", now)
    /\ UNCHANGED cache
    /\ LookupUnchanged

\* The price is then zero.
FetchFails(a) ==
    /\ "feed" \in ReadFaults
    /\ lookup[a].pc = "fetch"
    /\ Advance(a, "done", NoQuote)
    /\ UNCHANGED cache
    /\ LookupUnchanged

\* Whatever has been stored in the meantime is overwritten.
SetNAV(a) ==
    /\ lookup[a].pc = "set"
    /\ cache' = [cache EXCEPT ![lookup[a].fund] =
           [quote |-> lookup[a].quote, expires |-> now + NAVTTL]]
    /\ Advance(a, "done", lookup[a].quote)
    /\ LookupUnchanged

SetFails(a) ==
    /\ "cache" \in ReadFaults
    /\ lookup[a].pc = "set"
    /\ Advance(a, "done", lookup[a].quote)
    /\ UNCHANGED cache
    /\ LookupUnchanged

ResolveNAV(a) ==
    GetHit(a) \/ GetMiss(a) \/ Fetch(a) \/ FetchFails(a) \/ SetNAV(a) \/ SetFails(a)

\* The price a finished lookup returns.
Resolved(a) == Price(lookup[a].fund, lookup[a].quote)
Done(a) == lookup[a].pc = "done"

------------------------------------------------------------------------------
(* ApplyOrderEvent *)

\* The consumer takes an event of some partition.
Take(e) ==
    /\ filling = NoOrder
    /\ outcome[e] = "waiting"
    /\ filling' = e
    /\ StartLookup(Consumer, FundOf[e])
    /\ UNCHANGED <<now, cache, ledger, outcome, read, during>>

FillUnits == UnitsFor(Amount[filling], Resolved(Consumer))

\* A bug: the fill is applied whatever it was priced at.
PricedAnyhow == Done(Consumer)

\* unitsFor refuses to guess.
Priced == Done(Consumer) /\ FillUnits > 0

\* The event is done with, for now or for good.
Settle(result) ==
    /\ outcome' = [outcome EXCEPT ![filling] = result]
    /\ filling' = NoOrder
    /\ EndLookup(Consumer)
    /\ UNCHANGED <<now, cache, read>>

\* No price: retried, and parked when the attempts are used up.
Unpriced ==
    /\ Done(Consumer)
    /\ ~Priced
    /\ \E result \in {"waiting", "parked"} : Settle(result)
    /\ UNCHANGED <<ledger, during>>

\* The ledger moves, under its lock; requests in progress see it or do not.
Move(holding) ==
    /\ ledger' = [ledger EXCEPT ![FundOf[filling]] = holding]
    /\ during' = [r \in Readers |->
           IF read[r].pc = "value" THEN during[r] \cup {ledger'} ELSE during[r]]
    /\ Settle("applied")

Buy ==
    /\ Priced
    /\ filling \in Purchases
    /\ Move(ApplyBuy(ledger[FundOf[filling]], FillUnits, Amount[filling]))

Sell ==
    /\ Priced
    /\ filling \notin Purchases
    /\ Covers(ledger[FundOf[filling]], FillUnits)
    /\ Move(ApplySell(ledger[FundOf[filling]], FillUnits))

\* A sale of more than is held, perhaps of what a purchase still on its partition
\* will bring: permanent, parked at once.
RefuseSale ==
    /\ Priced
    /\ filling \notin Purchases
    /\ ~Covers(ledger[FundOf[filling]], FillUnits)
    /\ Settle("parked")
    /\ UNCHANGED <<ledger, during>>

ApplyOrderEvent ==
    /\ filling # NoOrder
    /\ Unpriced \/ Buy \/ Sell \/ RefuseSale

------------------------------------------------------------------------------
(* GetUserPnL, from order-service's call to its answer *)

Open(l) == {f \in Funds : ~IsClosed(l[f])}

\* ListByUser: a copy of the open positions.
ListByUser(r) ==
    /\ read[r] = NoRead
    /\ read' = [read EXCEPT ![r] =
           [pc |-> "value", listed |-> ledger, todo |-> Open(ledger),
            rows |-> [f \in {} |-> NoHolding]]]
    /\ during' = [during EXCEPT ![r] = {ledger}]
    /\ UNCHANGED <<now, cache, lookup, ledger, outcome, filling>>

ResolveNext(r) ==
    /\ read[r].pc = "value"
    /\ lookup[r] = NoLookup
    /\ \E f \in read[r].todo : StartLookup(r, f)
    /\ UNCHANGED <<now, cache, ledger, outcome, filling, read, during>>

\* A bug: the list shares its positions with the ledger.
Shared(r, f) == ledger[f]

Listed(r, f) == read[r].listed[f]

\* One position is valued and added to the totals.
AddRow(r) ==
    /\ Done(r)
    /\ LET f == lookup[r].fund
       IN  read' = [read EXCEPT
               ![r].todo = @ \ {f},
               ![r].rows = [g \in DOMAIN @ \cup {f} |->
                   IF g = f THEN Value(Listed(r, f), Resolved(r)) ELSE @[g]]]
    /\ EndLookup(r)
    /\ UNCHANGED <<now, cache, ledger, outcome, filling, during>>

EndRead(r) ==
    /\ read' = [read EXCEPT ![r] = NoRead]
    /\ during' = [during EXCEPT ![r] = {}]

\* Every open position has its row: the rows are the answer.
Complete(r) == read[r].pc = "value" /\ read[r].todo = {}

Answer(r) ==
    /\ Complete(r)
    /\ EndRead(r)
    /\ UNCHANGED <<now, cache, lookup, ledger, outcome, filling>>

\* The call's deadline passes, or portfolio-service is not reached: 503.
Unavailable(r) ==
    /\ "deadline" \in ReadFaults
    /\ read[r].pc = "value"
    /\ EndRead(r)
    /\ EndLookup(r)
    /\ UNCHANGED <<now, cache, ledger, outcome, filling>>

GetUserPnL(r) ==
    ListByUser(r) \/ ResolveNext(r) \/ AddRow(r) \/ Answer(r) \/ Unavailable(r)

------------------------------------------------------------------------------
Next ==
    \/ Tick
    \/ \E a \in Actors : ResolveNAV(a)
    \/ \E e \in Orders : Take(e)
    \/ ApplyOrderEvent
    \/ \E r \in Readers : GetUserPnL(r)

Spec == Init /\ [][Next]_vars

------------------------------------------------------------------------------
(* Properties *)

\* No position has cost without units.
Positions == {h \in [units : Nat, invested : Nat] : IsClosed(h) => h.invested = 0}

Rows == [units : Nat, invested : Nat, nav : Nat, value : Nat, gain : Int]

ValuationTypeOK ==
    /\ now \in Times
    /\ cache \in [Funds -> [quote : Times, expires : Nat] \cup {NotCached}]
    /\ lookup \in [Actors -> [pc : {"get", "fetch", "set", "done"}, fund : Funds,
                              quote : Quotes, since : Times] \cup {NoLookup}]
    /\ \A f \in Funds : ledger[f] \in Positions
    /\ outcome \in [Orders -> {"waiting", "applied", "parked"}]
    /\ filling \in Orders \cup {NoOrder}
    /\ \A r \in Readers : read[r] # NoRead =>
           /\ read[r].todo \subseteq Funds
           /\ \A f \in DOMAIN read[r].rows : read[r].rows[f] \in Rows

\* A price is younger than the cache's TTL and two lookups' delays when a fill or a
\* valuation uses it: a slow lookup can put an old quote over a newer one, but not
\* keep it there.
QuotesAreRecent ==
    \A a \in Actors : Done(a) /\ lookup[a].quote # NoQuote =>
        now < lookup[a].quote + NAVTTL + 2 * CallBudget

\* An answer shows the customer's positions as they stood together at one instant
\* of the request, though fills arrive between the pricing of one fund and the next.
OneInstant ==
    \A r \in Readers : Complete(r) =>
        \E l \in during[r] :
            /\ DOMAIN read[r].rows = Open(l)
            /\ \A f \in Open(l) :
                  /\ read[r].rows[f].units = l[f].units
                  /\ read[r].rows[f].invested = l[f].invested
==============================================================================
