--------------------------- MODULE ValuationProofs ---------------------------
(***************************************************************************)
(* What portfolio-service's prices and valuations guarantee for any funds, *)
(* orders, concurrent requests and feed, any TTL, and any outages.          *)
(*                                                                         *)
(* How old a price can be follows a quote along its way: into a lookup,     *)
(* from there into the cache with its expiry, and from there into another   *)
(* lookup (PriceInv).  What an answer shows follows from the copy the      *)
(* request starts with (ReadInv).  That nothing is negative needs the       *)
(* bound on what a sale releases (CostOfPart).                              *)
(***************************************************************************)
EXTENDS Valuation, TLAPS

------------------------------------------------------------------------------
(* The age of a price *)

LookupType == [pc : {"get", "fetch", "set", "done"}, fund : Funds,
               quote : Quotes, since : Times]

PriceTypes ==
    /\ now \in Times
    /\ cache \in [Funds -> [quote : Times, expires : Nat] \cup {NotCached}]
    /\ lookup \in [Actors -> LookupType \cup {NoLookup}]

\* A lookup's calls have not outlived their budget; what it is about to store it
\* has fetched itself; what it has found had not expired when it began.
LookupFresh(l) ==
    /\ l.since <= now /\ now <= l.since + CallBudget
    /\ l.pc = "set" => l.since <= l.quote
    /\ l.pc = "done" /\ l.quote # NoQuote => l.since < l.quote + NAVTTL + CallBudget

CacheFresh ==
    \A f \in Funds : cache[f] # NotCached =>
        cache[f].expires <= cache[f].quote + NAVTTL + CallBudget

PriceInv ==
    /\ PriceTypes
    /\ \A a \in Actors : lookup[a] # NoLookup => LookupFresh(lookup[a])
    /\ CacheFresh

LEMMA NotALookup == NoLookup \notin LookupType
  BY DEF NoLookup, LookupType

LEMMA PriceInit == Init => PriceInv
  BY ValuationAssumption
     DEF Init, PriceInv, PriceTypes, CacheFresh, NotCached, Times

\* A lookup starts with no price and its whole budget.
LEMMA StartFresh ==
  ASSUME PriceInv, NEW a \in Actors, NEW f \in Funds, StartLookup(a, f),
         UNCHANGED <<now, cache>>
  PROVE  PriceInv'
  <1>. DEFINE l == [pc |-> "get", fund |-> f, quote |-> NoQuote, since |-> now]
  <1>1. l \in LookupType /\ LookupFresh(l)
    BY ValuationAssumption DEF PriceInv, PriceTypes, LookupType, LookupFresh, Quotes, Times
  <1>2. LookupFresh(l)'
    BY <1>1 DEF LookupFresh
  <1>. QED
    BY <1>1, <1>2 DEF StartLookup, PriceInv, PriceTypes, LookupFresh, CacheFresh

LEMMA EndFresh ==
  ASSUME PriceInv, NEW a \in Actors, EndLookup(a), UNCHANGED <<now, cache>>
  PROVE  PriceInv'
  BY DEF EndLookup, PriceInv, PriceTypes, LookupFresh, CacheFresh

LEMMA AdvanceFresh ==
  ASSUME PriceInv, NEW a \in Actors, lookup[a] # NoLookup,
         NEW pc \in {"fetch", "set", "done"}, NEW quote \in Quotes,
         Advance(a, pc, quote), now' = now,
         pc = "set" => lookup[a].since <= quote,
         pc = "done" /\ quote # NoQuote => lookup[a].since < quote + NAVTTL + CallBudget
  PROVE  /\ lookup' \in [Actors -> LookupType \cup {NoLookup}]
         /\ \A b \in Actors : lookup'[b] # NoLookup => LookupFresh(lookup[b])'
  <1>. DEFINE l == [lookup[a] EXCEPT !.pc = pc, !.quote = quote]
  <1>1. lookup[a] \in LookupType /\ LookupFresh(lookup[a])
    BY DEF PriceInv, PriceTypes
  <1>2. l \in LookupType /\ l.since = lookup[a].since /\ l.pc = pc /\ l.quote = quote
    BY <1>1 DEF LookupType
  <1>3. lookup' = [lookup EXCEPT ![a] = l]
    BY <1>1 DEF Advance, PriceInv, PriceTypes, LookupType
  <1>. HIDE DEF l
  <1>4. lookup' \in [Actors -> LookupType \cup {NoLookup}]
    BY <1>2, <1>3 DEF PriceInv, PriceTypes
  <1>5. \A b \in Actors : lookup'[b] = IF b = a THEN l ELSE lookup[b]
    BY <1>3 DEF PriceInv, PriceTypes
  <1>6. ASSUME NEW b \in Actors, lookup'[b] # NoLookup
        PROVE  LookupFresh(lookup[b])'
    <2>1. CASE b = a
      BY <1>1, <1>2, <1>5, <2>1 DEF LookupFresh
    <2>2. CASE b # a
      BY <1>5, <1>6, <2>2 DEF LookupFresh, PriceInv
    <2>. QED
      BY <2>1, <2>2
  <1>. QED
    BY <1>4, <1>6

\* The hit is where the two delays add up: the quote was late in being stored, and
\* what is read before it expires is used late.
LEMMA ResolveFresh ==
  ASSUME PriceInv, NEW a \in Actors, ResolveNAV(a)
  PROVE  PriceInv'
  <1>1. lookup[a] # NoLookup
    BY DEF ResolveNAV, GetHit, GetMiss, Fetch, FetchFails, SetNAV, SetFails, NoLookup
  <1>. DEFINE f == lookup[a].fund
  <1>2. /\ f \in Funds /\ lookup[a].quote \in Quotes /\ lookup[a].since \in Times
        /\ LookupFresh(lookup[a]) /\ now \in Times /\ now' = now
        /\ NAVTTL \in Nat \ {0} /\ CallBudget \in Nat
    BY <1>1, ValuationAssumption
       DEF PriceInv, PriceTypes, LookupType, ResolveNAV, GetHit, GetMiss, Fetch,
           FetchFails, SetNAV, SetFails, LookupUnchanged
  <1>3. CASE GetHit(a)
    <2>1. /\ cache[f].quote \in Times /\ cache[f].expires \in Nat
          /\ now < cache[f].expires
          /\ cache[f].expires <= cache[f].quote + NAVTTL + CallBudget
      BY <1>2, <1>3 DEF GetHit, Live, PriceInv, PriceTypes, CacheFresh
    <2>2. lookup[a].since <= now
      BY <1>2 DEF LookupFresh
    <2>3. cache[f].quote \in Int /\ lookup[a].since \in Int /\ now \in Int
      BY <1>2, <2>1, ValuationAssumption DEF Times
    <2>4. lookup[a].since < cache[f].quote + NAVTTL + CallBudget
      BY <1>2, <2>1, <2>2, <2>3
    <2>5. cache[f].quote \in Quotes
      BY <2>1 DEF Quotes
    <2>. QED
      BY <1>1, <1>2, <1>3, <2>4, <2>5, AdvanceFresh DEF GetHit, PriceInv, PriceTypes, CacheFresh
  <1>4. CASE GetMiss(a) \/ FetchFails(a)
    BY <1>1, <1>2, <1>4, AdvanceFresh
       DEF GetMiss, FetchFails, Quotes, PriceInv, PriceTypes, CacheFresh
  <1>5. CASE Fetch(a)
    BY <1>1, <1>2, <1>5, AdvanceFresh
       DEF Fetch, Quotes, LookupFresh, PriceInv, PriceTypes, CacheFresh
  <1>6. CASE SetNAV(a) \/ SetFails(a)
    <2>. DEFINE q == lookup[a].quote
    <2>1. /\ lookup[a].since <= q /\ q \in Times
          /\ lookup[a].since < q + NAVTTL + CallBudget
          /\ now + NAVTTL <= q + NAVTTL + CallBudget
      BY <1>2, <1>6, ValuationAssumption
         DEF SetNAV, SetFails, LookupFresh, Quotes, NoQuote, Times
    <2>2. /\ lookup' \in [Actors -> LookupType \cup {NoLookup}]
          /\ \A b \in Actors : lookup'[b] # NoLookup => LookupFresh(lookup[b])'
      BY <1>1, <1>2, <1>6, <2>1, AdvanceFresh DEF SetNAV, SetFails
    <2>3. CASE SetFails(a)
      BY <1>2, <2>2, <2>3 DEF SetFails, PriceInv, PriceTypes, CacheFresh
    <2>4. CASE SetNAV(a)
      <3>. DEFINE entry == [quote |-> q, expires |-> now + NAVTTL]
      <3>1. entry \in [quote : Times, expires : Nat]
        BY <1>2, <2>1, ValuationAssumption DEF Times
      <3>2. cache' = [cache EXCEPT ![f] = entry]
        BY <2>4 DEF SetNAV
      <3>3. entry.expires <= entry.quote + NAVTTL + CallBudget
        BY <2>1
      <3>. HIDE DEF entry, f
      <3>4. cache' \in [Funds -> [quote : Times, expires : Nat] \cup {NotCached}]
        BY <3>1, <3>2 DEF PriceInv, PriceTypes
      <3>5. CacheFresh'
        BY <1>2, <3>1, <3>2, <3>3 DEF PriceInv, PriceTypes, CacheFresh
      <3>. QED
        BY <1>2, <2>2, <3>4, <3>5 DEF PriceInv, PriceTypes
    <2>. QED
      BY <1>6, <2>3, <2>4
  <1>. QED
    BY <1>3, <1>4, <1>5, <1>6 DEF ResolveNAV

LEMMA TickFresh == PriceInv /\ Tick => PriceInv'
  <1>. SUFFICES ASSUME PriceInv, Tick PROVE PriceInv'
    OBVIOUS
  <1>1. now + 1 \in Times /\ now' = now + 1 /\ now \in Times
    BY ValuationAssumption DEF PriceInv, PriceTypes, Tick, Times
  <1>2. ASSUME NEW a \in Actors, lookup[a] # NoLookup PROVE LookupFresh(lookup[a])'
    <2>1. lookup[a].since \in Times /\ now < lookup[a].since + CallBudget
      BY <1>2 DEF PriceInv, PriceTypes, LookupType, Tick
    <2>. QED
      BY <1>1, <1>2, <2>1, ValuationAssumption
         DEF PriceInv, LookupFresh, Tick, Times
  <1>. QED
    BY <1>1, <1>2 DEF PriceInv, PriceTypes, CacheFresh, Tick

------------------------------------------------------------------------------
(* Requests *)

\* A request has a row for each open position of its copy but those still to do,
\* the one it is pricing among them; and its copy is one of the ledgers since.
ReadFollows(rd, lk, ledgers) ==
    /\ rd \in [pc : {"value"}, listed : ledgers, todo : SUBSET Funds, rows : {rd.rows}]
    /\ DOMAIN rd.rows \cup rd.todo = Open(rd.listed)
    /\ \A f \in DOMAIN rd.rows :
           /\ rd.rows[f].units = rd.listed[f].units
           /\ rd.rows[f].invested = rd.listed[f].invested
    /\ lk # NoLookup => lk.fund \in rd.todo

NotReading(rd, lk) == rd = NoRead /\ lk = NoLookup

ReadInv ==
    \A r \in Readers :
        \/ NotReading(read[r], lookup[r])
        \/ ReadFollows(read[r], lookup[r], during[r])

Functions ==
    /\ read = [r \in Readers |-> read[r]]
    /\ during = [r \in Readers |-> during[r]]

LEMMA FunctionsNext == Functions /\ [Next]_vars => Functions'
  BY DEF Functions, Next, vars, Tick, ResolveNAV, GetHit, GetMiss, Fetch, FetchFails,
         SetNAV, SetFails, LookupUnchanged, Take, ApplyOrderEvent, Unpriced, Buy, Sell, RefuseSale, Move, Settle, GetUserPnL,
         ListByUser, ResolveNext, AddRow, Answer, Unavailable, EndRead

\* Looking up a price moves neither the request nor the fund it is for.
LEMMA ResolveKeepsRead ==
  ASSUME PriceInv, ReadInv, NEW a \in Actors, ResolveNAV(a)
  PROVE  ReadInv'
  <1>1. lookup[a] # NoLookup
    BY DEF ResolveNAV, GetHit, GetMiss, Fetch, FetchFails, SetNAV, SetFails, NoLookup
  <1>2. PICK pc, quote : Advance(a, pc, quote)
    BY DEF ResolveNAV, GetHit, GetMiss, Fetch, FetchFails, SetNAV, SetFails
  <1>3. UNCHANGED <<read, during>>
    BY DEF ResolveNAV, GetHit, GetMiss, Fetch, FetchFails, SetNAV, SetFails,
           LookupUnchanged
  <1>4. \A b \in Actors : b # a => lookup'[b] = lookup[b]
    BY <1>2 DEF Advance, PriceInv, PriceTypes
  <1>5. lookup'[a].fund = lookup[a].fund
    BY <1>1, <1>2 DEF Advance, PriceInv, PriceTypes, LookupType
  <1>. QED
    BY <1>1, <1>3, <1>4, <1>5 DEF ReadInv, NotReading, ReadFollows, Actors

\* The ledger moves under a request, and the histories grow; the copies stay.
LEMMA EventKeepsRead ==
  ASSUME PriceInv, Functions, ReadInv,
         (\E e \in Orders : Take(e)) \/ ApplyOrderEvent
  PROVE  ReadInv'
  <1>1. UNCHANGED read
    BY DEF Take, ApplyOrderEvent, Unpriced, Buy, Sell, RefuseSale, Move, Settle
  <1>2. \A r \in Readers : lookup'[r] = lookup[r]
    BY ValuationAssumption
       DEF Take, StartLookup, ApplyOrderEvent, Unpriced, Buy, Sell, RefuseSale, Move,
           Settle, EndLookup, PriceInv, PriceTypes, Actors
  <1>3. \A r \in Readers : during[r] \subseteq during'[r]
    BY DEF Take, ApplyOrderEvent, Unpriced, Buy, Sell, RefuseSale, Move, Functions
  <1>. QED
    BY <1>1, <1>2, <1>3 DEF ReadInv, NotReading, ReadFollows

\* A request's own steps, and no other request's.
LEMMA RequestKeepsRead ==
  ASSUME PriceInv, Functions, ReadInv, NEW r \in Readers, GetUserPnL(r)
  PROVE  ReadInv'
  <1>. r \in Actors
    BY DEF Actors
  <1>1. \A q \in Readers : q # r =>
            lookup'[q] = lookup[q] /\ read'[q] = read[q] /\ during'[q] = during[q]
    BY DEF GetUserPnL, ListByUser, ResolveNext, AddRow, Answer, Unavailable, EndRead,
           StartLookup, EndLookup, Functions, PriceInv, PriceTypes, Actors
  <1>2. NotReading(read[r], lookup[r]) \/ ReadFollows(read[r], lookup[r], during[r])
    BY DEF ReadInv
  <1>3. CASE ListByUser(r)
    <2>1. read'[r] = [pc |-> "value", listed |-> ledger, todo |-> Open(ledger),
                      rows |-> [f \in {} |-> NoHolding]]
      BY <1>3 DEF ListByUser, Functions
    <2>2. during'[r] = {ledger} /\ lookup'[r] = lookup[r]
      BY <1>3 DEF ListByUser, Functions
    <2>3. lookup[r] = NoLookup
      BY <1>2, <1>3 DEF ListByUser, NoRead, NotReading, ReadFollows
    <2>4. ReadFollows(read'[r], lookup'[r], during'[r])
      BY <2>1, <2>2, <2>3 DEF Open, ReadFollows
    <2>. QED
      BY <1>1, <2>4 DEF ReadInv
  <1>4. CASE ResolveNext(r)
    <2>1. ReadFollows(read[r], lookup[r], during[r])
      BY <1>2, <1>4 DEF ResolveNext, NoRead, NotReading
    <2>2. PICK f \in read[r].todo : StartLookup(r, f)
      BY <1>4 DEF ResolveNext
    <2>3. lookup'[r].fund = f /\ read'[r] = read[r] /\ during'[r] = during[r]
      BY <1>4, <2>2 DEF ResolveNext, StartLookup, PriceInv, PriceTypes
    <2>4. ReadFollows(read'[r], lookup'[r], during'[r])
      BY <2>1, <2>3 DEF ReadFollows
    <2>. QED
      BY <1>1, <2>4 DEF ReadInv
  <1>5. CASE AddRow(r)
    <2>. DEFINE f == lookup[r].fund
                rd == read[r]
                rows == [g \in DOMAIN rd.rows \cup {f} |->
                          IF g = f THEN Value(rd.listed[f], Resolved(r)) ELSE rd.rows[g]]
    <2>1. ReadFollows(rd, lookup[r], during[r]) /\ lookup[r] # NoLookup
      BY <1>2, <1>5 DEF AddRow, Done, NoLookup, NotReading
    <2>2. f \in rd.todo
      BY <2>1 DEF ReadFollows
    <2>3. read'[r] = [pc |-> "value", listed |-> rd.listed, todo |-> rd.todo \ {f},
                      rows |-> rows]
      BY <1>5, <2>1 DEF AddRow, Functions, ReadFollows, Listed
    <2>4. lookup'[r] = NoLookup /\ during'[r] = during[r]
      BY <1>5 DEF AddRow, EndLookup, PriceInv, PriceTypes
    <2>5. DOMAIN rows \cup (rd.todo \ {f}) = Open(rd.listed)
      BY <2>1, <2>2 DEF ReadFollows
    <2>6. \A g \in DOMAIN rows :
              rows[g].units = rd.listed[g].units /\ rows[g].invested = rd.listed[g].invested
      BY <2>1 DEF ReadFollows, Value
    <2>7. rd.listed \in during[r] /\ rd.todo \ {f} \subseteq Funds
      BY <2>1 DEF ReadFollows
    <2>. HIDE DEF rows, f, rd
    <2>8. ReadFollows(read'[r], lookup'[r], during'[r])
      BY <2>3, <2>4, <2>5, <2>6, <2>7 DEF ReadFollows
    <2>. QED
      BY <1>1, <2>8 DEF ReadInv
  <1>6. CASE Answer(r)
    <2>1. read'[r] = NoRead
      BY <1>6 DEF Answer, EndRead, Functions
    <2>2. lookup'[r] = NoLookup
      BY <1>2, <1>6 DEF Answer, Complete, NotReading, ReadFollows
    <2>. QED
      BY <1>1, <2>1, <2>2 DEF ReadInv, NotReading
  <1>7. CASE Unavailable(r)
    <2>1. read'[r] = NoRead /\ lookup'[r] = NoLookup
      BY <1>7 DEF Unavailable, EndRead, EndLookup, Functions, PriceInv, PriceTypes
    <2>. QED
      BY <1>1, <2>1 DEF ReadInv, NotReading
  <1>. QED
    BY <1>3, <1>4, <1>5, <1>6, <1>7 DEF GetUserPnL

LEMMA ReadNext == PriceInv /\ Functions /\ ReadInv /\ [Next]_vars => ReadInv'
  <1>1. UNCHANGED <<read, lookup, during>> => (ReadInv => ReadInv')
    BY DEF ReadInv, NotReading, ReadFollows
  <1>. QED
    BY <1>1, ResolveKeepsRead, EventKeepsRead, RequestKeepsRead DEF Next, Tick, vars

------------------------------------------------------------------------------
(* Both together *)

LEMMA PriceNext == PriceInv /\ ReadInv /\ [Next]_vars => PriceInv'
  <1>. SUFFICES ASSUME PriceInv, ReadInv, [Next]_vars PROVE PriceInv'
    OBVIOUS
  <1>1. UNCHANGED <<now, cache, lookup>> => PriceInv'
    BY DEF PriceInv, PriceTypes, LookupFresh, CacheFresh
  <1>2. ASSUME NEW e \in Orders, Take(e) PROVE PriceInv'
    BY <1>2, StartFresh, ValuationAssumption DEF Take, Actors
  <1>3. ApplyOrderEvent => PriceInv'
    BY EndFresh DEF ApplyOrderEvent, Unpriced, Buy, Sell, RefuseSale, Move, Settle, Actors
  <1>4. ASSUME NEW r \in Readers, GetUserPnL(r) PROVE PriceInv'
    <2>1. r \in Actors
      BY DEF Actors
    <2>2. CASE ListByUser(r) \/ Answer(r)
      BY <1>1, <2>2 DEF ListByUser, Answer
    <2>3. CASE ResolveNext(r)
      <3>1. read[r].todo \subseteq Funds
        BY <2>3 DEF ResolveNext, ReadInv, NotReading, NoRead, ReadFollows
      <3>. QED
        BY <2>1, <2>3, <3>1, StartFresh DEF ResolveNext
    <2>4. CASE AddRow(r) \/ Unavailable(r)
      BY <2>1, <2>4, EndFresh DEF AddRow, Unavailable
    <2>. QED
      BY <1>4, <2>2, <2>3, <2>4 DEF GetUserPnL
  <1>. QED
    BY <1>1, <1>2, <1>3, <1>4, TickFresh, ResolveFresh DEF Next, vars

LEMMA InvHolds == Spec => [](PriceInv /\ Functions /\ ReadInv)
  <1>1. Init => PriceInv /\ Functions /\ ReadInv
    BY PriceInit DEF Init, Functions, ReadInv, NotReading, Actors
  <1>. QED
    BY <1>1, PriceNext, FunctionsNext, ReadNext, PTL DEF Spec

\* Whatever outages and slow calls there are, and whoever overwrites whose entry
\* in the cache, a price is never older in use than the TTL and two lookups'
\* delays.
THEOREM PricesRecent == Spec => []QuotesAreRecent
  <1>1. PriceInv => QuotesAreRecent
    <2>. SUFFICES ASSUME PriceInv, NEW a \in Actors, Done(a), lookup[a].quote # NoQuote
                  PROVE  now < lookup[a].quote + NAVTTL + 2 * CallBudget
      BY DEF QuotesAreRecent
    <2>1. lookup[a] \in LookupType /\ LookupFresh(lookup[a])
      BY DEF PriceInv, PriceTypes, Done, NoLookup
    <2>2. /\ now \in Int /\ lookup[a].since \in Int /\ lookup[a].quote \in Int
          /\ NAVTTL \in Nat /\ CallBudget \in Nat
      BY <2>1, ValuationAssumption DEF PriceInv, PriceTypes, LookupType, Quotes, Times
    <2>3. /\ now <= lookup[a].since + CallBudget
          /\ lookup[a].since < lookup[a].quote + NAVTTL + CallBudget
      BY <2>1 DEF LookupFresh, Done
    <2>. QED
      BY <2>2, <2>3
  <1>. QED
    BY <1>1, InvHolds, PTL

\* An answer shows the positions as they stood together at one instant of the
\* request, however many fills arrive while their prices are looked up.
THEOREM ShowsOneInstant == Spec => []OneInstant
  <1>1. ReadInv => OneInstant
    <2>. SUFFICES ASSUME ReadInv, NEW r \in Readers, Complete(r)
                  PROVE  \E l \in during[r] :
                            /\ DOMAIN read[r].rows = Open(l)
                            /\ \A f \in Open(l) :
                                  /\ read[r].rows[f].units = l[f].units
                                  /\ read[r].rows[f].invested = l[f].invested
      BY DEF OneInstant
    <2>1. ReadFollows(read[r], lookup[r], during[r])
      BY DEF Complete, ReadInv, NotReading, NoRead
    <2>2. read[r].listed \in during[r] /\ DOMAIN read[r].rows = Open(read[r].listed)
      BY <2>1 DEF ReadFollows, Complete
    <2>. QED
      BY <2>1, <2>2 DEF ReadFollows
  <1>. QED
    BY <1>1, InvHolds, PTL

------------------------------------------------------------------------------
(* What the ledger holds and an answer shows are amounts *)

LEMMA PriceType ==
  ASSUME PriceInv, NEW a \in Actors, Done(a)
  PROVE  Resolved(a) \in Nat
  <1>1. lookup[a].fund \in Funds /\ lookup[a].quote \in Quotes
    BY DEF PriceInv, PriceTypes, LookupType, Done, NoLookup
  <1>. QED
    BY <1>1, ValuationAssumption DEF Resolved, Price, Quotes

\* A quotient of amounts is an amount, and rounds down.
LEMMA QuotientType ==
  ASSUME NEW a \in Nat, NEW b \in Nat \ {0}
  PROVE  a \div b \in Nat /\ b * (a \div b) <= a
  OBVIOUS

LEMMA QuotientBound ==
  ASSUME NEW a \in Nat, NEW b \in Nat \ {0}, NEW c \in Nat, a < b * (c + 1)
  PROVE  a \div b \in 0..c
  <1>. DEFINE q == a \div b
  <1>1. q \in Nat /\ b * q <= a
    BY QuotientType
  <1>. HIDE DEF q
  <1>2. CASE q > c
    <2>1. PICK d \in Nat : q = (c + 1) + d
      BY <1>1, <1>2
    <2>2. b * q = b * (c + 1) + b * d /\ b * d \in Nat
      BY <2>1
    <2>3. b * q \in Nat /\ b * (c + 1) \in Nat
      BY <1>1
    <2>. QED
      BY <1>1, <2>2, <2>3
  <1>. QED
    BY <1>1, <1>2 DEF q

\* The cost of part of a position is none or part of its cost.
LEMMA CostOfPart ==
  ASSUME NEW h \in Positions, NEW units \in 1..h.units
  PROVE  CostOf(h, units) \in 0..h.invested
  <1>. DEFINE num == 2 * h.invested * units + h.units
              den == 2 * h.units
  <1>1. h.units \in Nat \ {0} /\ h.invested \in Nat /\ units \in Nat
    BY DEF Positions
  <1>2. h.invested * units \in Nat /\ h.invested * units <= h.invested * h.units
    BY <1>1
  <1>3. num \in Nat /\ den \in Nat \ {0} /\ num < den * (h.invested + 1)
    BY <1>1, <1>2
  <1>. QED
    BY <1>1, <1>3, QuotientBound DEF CostOf

LEMMA BuyType ==
  ASSUME NEW h \in Positions, NEW units \in Nat \ {0}, NEW amount \in Nat
  PROVE  ApplyBuy(h, units, amount) \in Positions
  BY DEF Positions, ApplyBuy, IsClosed

LEMMA SellType ==
  ASSUME NEW h \in Positions, NEW units \in Nat \ {0}, Covers(h, units)
  PROVE  ApplySell(h, units) \in Positions
  <1>1. h.units \in Nat /\ h.invested \in Nat /\ units \in 1..h.units
    BY DEF Positions, Covers
  <1>2. Released(h, units) \in 0..h.invested
    BY <1>1, CostOfPart DEF Released
  <1>3. h.units - units = 0 => Released(h, units) = h.invested
    BY <1>1 DEF Released
  <1>. QED
    BY <1>1, <1>2, <1>3 DEF Positions, ApplySell, IsClosed

LEMMA RowType ==
  ASSUME NEW h \in Positions, NEW nav \in Nat
  PROVE  Value(h, nav) \in Rows
  <1>1. h.units \in Nat /\ h.invested \in Nat /\ nav * h.units \in Nat
    BY DEF Positions
  <1>. QED
    BY <1>1 DEF Rows, Value

EventTypes ==
    /\ ledger \in [Funds -> Positions]
    /\ outcome \in [Orders -> {"waiting", "applied", "parked"}]
    /\ filling \in Orders \cup {NoOrder}

ReadTypes ==
    \A r \in Readers : read[r] # NoRead =>
        /\ read[r].listed \in [Funds -> Positions]
        /\ \A f \in DOMAIN read[r].rows : read[r].rows[f] \in Rows

LEMMA EventTypesNext ==
  ASSUME PriceInv, EventTypes, [Next]_vars
  PROVE  EventTypes'
  <1>1. UNCHANGED <<ledger, outcome, filling>> => EventTypes'
    BY DEF EventTypes
  <1>2. ASSUME NEW e \in Orders, Take(e) PROVE EventTypes'
    BY <1>2 DEF Take, EventTypes
  <1>3. ASSUME ApplyOrderEvent PROVE EventTypes'
    <2>1. /\ filling \in Orders /\ FundOf[filling] \in Funds
          /\ Amount[filling] \in Nat \ {0} /\ ledger[FundOf[filling]] \in Positions
      BY <1>3, ValuationAssumption DEF ApplyOrderEvent, EventTypes
    <2>2. ASSUME NEW result \in {"waiting", "applied", "parked"}, Settle(result)
          PROVE  /\ outcome' \in [Orders -> {"waiting", "applied", "parked"}]
                 /\ filling' \in Orders \cup {NoOrder}
      BY <2>1, <2>2 DEF Settle, EventTypes
    <2>3. CASE Unpriced \/ RefuseSale
      BY <2>2, <2>3 DEF Unpriced, RefuseSale, EventTypes
    <2>4. ASSUME Priced PROVE FillUnits \in Nat \ {0}
      <3>1. Consumer \in Actors /\ Done(Consumer)
        BY <2>4 DEF Priced, Actors
      <3>2. Resolved(Consumer) \in Nat
        BY <3>1, PriceType
      <3>3. FillUnits \in Nat
        BY <2>1, <3>2, QuotientType DEF FillUnits, UnitsFor
      <3>. QED
        BY <2>4, <3>3 DEF Priced
    <2>5. ASSUME NEW h \in Positions, Move(h) PROVE EventTypes'
      BY <2>1, <2>2, <2>5 DEF Move, EventTypes
    <2>6. CASE Buy
      BY <2>1, <2>4, <2>5, <2>6, BuyType DEF Buy
    <2>7. CASE Sell
      BY <2>1, <2>4, <2>5, <2>7, SellType DEF Sell
    <2>. QED
      BY <1>3, <2>3, <2>6, <2>7 DEF ApplyOrderEvent
  <1>4. ASSUME NEW r \in Readers, GetUserPnL(r) PROVE UNCHANGED <<ledger, outcome, filling>>
    BY <1>4 DEF GetUserPnL, ListByUser, ResolveNext, AddRow, Answer, Unavailable
  <1>5. ASSUME NEW a \in Actors, ResolveNAV(a) PROVE UNCHANGED <<ledger, outcome, filling>>
    BY <1>5 DEF ResolveNAV, GetHit, GetMiss, Fetch, FetchFails, SetNAV, SetFails,
                LookupUnchanged
  <1>. QED
    BY <1>1, <1>2, <1>3, <1>4, <1>5 DEF Next, Tick, vars

LEMMA ReadTypesNext ==
  ASSUME PriceInv, Functions, ReadInv, EventTypes, ReadTypes, [Next]_vars
  PROVE  ReadTypes'
  <1>1. UNCHANGED read => ReadTypes'
    BY DEF ReadTypes
  <1>2. ASSUME NEW r \in Readers, GetUserPnL(r) PROVE ReadTypes'
    <2>. r \in Actors
      BY DEF Actors
    <2>1. \A q \in Readers : q # r => read'[q] = read[q]
      BY <1>2 DEF GetUserPnL, ListByUser, ResolveNext, AddRow, Answer, Unavailable,
                  EndRead, Functions
    <2>2. CASE ListByUser(r)
      <3>1. read'[r].listed = ledger /\ DOMAIN read'[r].rows = {}
        BY <2>2 DEF ListByUser, Functions
      <3>. QED
        BY <2>1, <3>1 DEF ReadTypes, EventTypes
    <2>3. CASE ResolveNext(r)
      BY <1>1, <2>3 DEF ResolveNext
    <2>4. CASE AddRow(r)
      <3>. DEFINE f == lookup[r].fund
                  rd == read[r]
      <3>1. ReadFollows(rd, lookup[r], during[r]) /\ lookup[r] # NoLookup
        BY <2>4 DEF AddRow, Done, NoLookup, ReadInv, NotReading
      <3>2. f \in Funds /\ rd # NoRead /\ rd \in [pc : {"value"}, listed : during[r],
                                                 todo : SUBSET Funds, rows : {rd.rows}]
        BY <3>1 DEF ReadFollows, NoRead
      <3>3. Value(rd.listed[f], Resolved(r)) \in Rows
        <4>1. Resolved(r) \in Nat
          BY <2>4, PriceType DEF AddRow
        <4>2. rd.listed[f] \in Positions
          BY <3>2 DEF ReadTypes
        <4>. QED
          BY <4>1, <4>2, RowType
      <3>4. /\ read'[r].listed = rd.listed
            /\ read'[r].rows = [g \in DOMAIN rd.rows \cup {f} |->
                   IF g = f THEN Value(rd.listed[f], Resolved(r)) ELSE rd.rows[g]]
        BY <2>4, <3>2 DEF AddRow, Functions, Listed
      <3>5. /\ read'[r].listed \in [Funds -> Positions]
            /\ \A g \in DOMAIN read'[r].rows : read'[r].rows[g] \in Rows
        BY <3>2, <3>3, <3>4 DEF ReadTypes
      <3>. QED
        BY <2>1, <3>5 DEF ReadTypes
    <2>5. CASE Answer(r) \/ Unavailable(r)
      <3>1. read'[r] = NoRead
        BY <2>5 DEF Answer, Unavailable, EndRead, Functions
      <3>. QED
        BY <2>1, <3>1 DEF ReadTypes
    <2>. QED
      BY <1>2, <2>2, <2>3, <2>4, <2>5 DEF GetUserPnL
  <1>3. (\E e \in Orders : Take(e)) \/ ApplyOrderEvent => UNCHANGED read
    BY DEF Take, ApplyOrderEvent, Unpriced, Buy, Sell, RefuseSale, Move, Settle
  <1>4. ASSUME NEW a \in Actors, ResolveNAV(a) PROVE UNCHANGED read
    BY <1>4 DEF ResolveNAV, GetHit, GetMiss, Fetch, FetchFails, SetNAV, SetFails,
                LookupUnchanged
  <1>. QED
    BY <1>1, <1>2, <1>3, <1>4 DEF Next, Tick, vars

\* No purchase, sale, rounding or missing price gives a position negative units or
\* cost, or cost without units, and no answer shows such a position.
THEOREM ValuationTyped == Spec => []ValuationTypeOK
  <1>1. Init => EventTypes /\ ReadTypes
    BY DEF Init, EventTypes, ReadTypes, EmptyLedger, NoHolding, Positions
  <1>2. PriceInv /\ ReadInv /\ EventTypes /\ ReadTypes => ValuationTypeOK
    <2>. SUFFICES ASSUME PriceInv, ReadInv, EventTypes, ReadTypes PROVE ValuationTypeOK
      OBVIOUS
    <2>1. \A r \in Readers : read[r] # NoRead => read[r].todo \subseteq Funds
      BY DEF ReadInv, NotReading, ReadFollows
    <2>. QED
      BY <2>1 DEF PriceInv, PriceTypes, LookupType, EventTypes, ReadTypes, ValuationTypeOK
  <1>3. PriceInv /\ EventTypes /\ [Next]_vars => EventTypes'
    BY EventTypesNext
  <1>4. PriceInv /\ Functions /\ ReadInv /\ EventTypes /\ ReadTypes /\ [Next]_vars
            => ReadTypes'
    BY ReadTypesNext
  <1>. QED
    BY <1>1, <1>2, <1>3, <1>4, InvHolds, PTL DEF Spec

==============================================================================
