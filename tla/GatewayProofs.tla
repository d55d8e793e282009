---------------------------- MODULE GatewayProofs ----------------------------
(***************************************************************************)
(* The gateway's theorems.  First the limiter by itself: its type, the      *)
(* bound on what a client passes, and that it implements buckets which are *)
(* never dropped.  Then the gateway behind it: the limiter's guarantees     *)
(* hold of it, the work it does for an address is within that address's    *)
(* rate, an owner's login is granted, and nobody is taken for another.      *)
(***************************************************************************)
EXTENDS Gateway, FiniteSetTheorems, TLAPS

------------------------------------------------------------------------------
(* The limiter by itself *)

USE DEF Times

\* What the proofs know of multiplication.
LEMMA ProductIsNat == \A a, b \in Nat : a * b \in Nat
BY SMT

LEMMA OneMore == \A a, b \in Nat : a * (b + 1) = a * b + a
BY SMT

LEMMA ProductGrows ==
    ASSUME NEW a \in Nat, NEW b \in Nat, NEW d \in Nat, b <= d
    PROVE  a * b <= a * d
BY SMT

\* A bucket never holds more than a burst.
LEMMA LevelInRange ==
    ASSUME TypeOK, NEW c \in Clients
    PROVE  /\ Found(c) \in Bucket
           /\ Found(c).last <= now
           /\ Rate * (now - Found(c).last) \in Nat
           /\ Level(Found(c)) \in 0..Burst
<1>1. Found(c) \in Bucket /\ Found(c).last <= now
  BY LimiterAssumption DEF TypeOK, Found, NewBucket, Bucket
<1>2. now - Found(c).last \in Nat
  BY <1>1 DEF TypeOK, Bucket
<1>3. Rate * (now - Found(c).last) \in Nat
  BY <1>2, ProductIsNat, LimiterAssumption
<1> QED
  BY <1>1, <1>3, LimiterAssumption DEF Level, Capped, Bucket

THEOREM Typed == Spec => []TypeOK
<1>1. Init => TypeOK
  BY LimiterAssumption DEF Init, TypeOK, NoBucket
<1>2. TypeOK /\ [Next]_vars => TypeOK'
  <2> SUFFICES ASSUME TypeOK, [Next]_vars PROVE TypeOK'
    OBVIOUS
  <2>1. CASE Tick
    <3>1. now' \in Times /\ now < now'
      BY <2>1, LimiterAssumption DEF Tick, TypeOK
    <3>2. /\ clients' \in [Clients -> Bucket \cup {NoBucket}]
          /\ answer' \in [Clients -> {"none", "passed", "refused"}]
          /\ used' \in [Clients -> [Times -> Nat]]
      BY <2>1 DEF Tick, TypeOK
    <3>3. ASSUME NEW c \in Clients, clients'[c] # NoBucket
          PROVE  /\ clients'[c].last <= clients'[c].lastSeen
                 /\ clients'[c].lastSeen <= now'
      <4>1. clients[c] \in Bucket /\ clients[c].lastSeen \in Times
        BY <2>1, <3>3 DEF Tick, TypeOK, Bucket
      <4>2. /\ clients[c].last <= clients[c].lastSeen
            /\ clients[c].lastSeen <= now
        BY <2>1, <3>3 DEF Tick, TypeOK
      <4> QED
        BY <2>1, <3>1, <4>1, <4>2 DEF Tick, TypeOK
    <3> QED
      BY <3>1, <3>2, <3>3 DEF TypeOK, NoBucket
  <2>2. ASSUME NEW c \in Clients, Pass(c) PROVE TypeOK'
    <3>1. /\ clients' = [clients EXCEPT ![c] =
                [tokens |-> Level(Found(c)) - 1, last |-> now, lastSeen |-> now]]
          /\ Level(Found(c)) - 1 \in 0..Burst
      BY <2>2, LevelInRange, LimiterAssumption DEF Pass
    <3>2. now' = now /\ now \in Times
      BY <2>2 DEF Pass, TypeOK
    <3>3. clients' \in [Clients -> Bucket \cup {NoBucket}]
      BY <3>1, <3>2 DEF TypeOK, Bucket
    <3>4. \A e \in Clients : clients'[e] # NoBucket =>
              /\ clients'[e].last <= clients'[e].lastSeen
              /\ clients'[e].lastSeen <= now
      BY <3>1, <3>2 DEF TypeOK
    <3>5. answer' \in [Clients -> {"none", "passed", "refused"}]
      BY <2>2 DEF Pass, TypeOK
    <3> DEFINE row == [t \in Times |-> IF t <= now THEN used[c][t] + 1
                                       ELSE used[c][t]]
    <3>6. used' = [used EXCEPT ![c] = row]
      BY <2>2 DEF Pass, CountPassed
    <3>7. used \in [Clients -> [Times -> Nat]] /\ used[c] \in [Times -> Nat]
      BY DEF TypeOK
    <3>8. \A t \in Times : used[c][t] \in Nat /\ used[c][t] + 1 \in Nat
      BY <3>7
    <3>9. row \in [Times -> Nat]
      BY <3>8
    <3> HIDE DEF row
    <3>10. used' \in [Clients -> [Times -> Nat]]
      BY <3>6, <3>7, <3>9
    <3> QED
      BY <3>2, <3>3, <3>4, <3>5, <3>10 DEF TypeOK, NoBucket
  <2>3. ASSUME NEW c \in Clients, Refuse(c) PROVE TypeOK'
    <3>1. /\ clients'[c] \in Bucket
          /\ clients'[c].last <= now
          /\ clients'[c].lastSeen = now
      BY <2>3, LevelInRange DEF Refuse, TypeOK, Bucket
    <3> QED
      BY <2>3, <3>1 DEF Refuse, TypeOK
  <2>4. ASSUME NEW at \in Times, Reap(at) PROVE TypeOK'
    BY <2>4 DEF Reap, TypeOK
  <2>5. CASE UNCHANGED vars
    BY <2>5 DEF vars, TypeOK
  <2> QED
    BY <2>1, <2>2, <2>3, <2>4, <2>5 DEF Next
<1> QED
  BY <1>1, <1>2, PTL DEF Spec

------------------------------------------------------------------------------
(* What each step does to a client's level. *)

LEMMA TickFills ==
    ASSUME TypeOK, Tick, NEW c \in Clients
    PROVE  Level(Found(c))' = Capped(Level(Found(c)) + Rate)
<1> DEFINE b == Found(c)
           gained == Rate * (now - b.last)
<1>1. b \in Bucket /\ b.last <= now /\ gained \in Nat
  BY LevelInRange
<1>2. now \in Nat /\ now' = now + 1 /\ clients' = clients
  BY DEF Tick, TypeOK
<1>3. CASE clients[c] = NoBucket
  <2>1. Level(b) = Burst /\ Level(b)' = Burst
    BY <1>2, <1>3, LimiterAssumption DEF Level, Capped, Found, NewBucket
  <2> QED
    BY <2>1, LimiterAssumption DEF Capped
<1>4. CASE clients[c] # NoBucket
  <2>1. b' = b
    BY <1>2, <1>4 DEF Found
  <2>2. Rate * ((now - b.last) + 1) = gained + Rate
    BY <1>1, <1>2, OneMore, LimiterAssumption DEF Bucket
  <2>3. (now + 1) - b.last = (now - b.last) + 1
    BY <1>1, <1>2 DEF Bucket
  <2>4. Level(b)' = Capped(b.tokens + (gained + Rate))
    BY <1>2, <2>1, <2>2, <2>3 DEF Level, Capped
  <2> QED
    BY <1>1, <2>4, LimiterAssumption DEF Level, Capped, Bucket
<1> QED
  BY <1>3, <1>4

LEMMA PassTakesOne ==
    ASSUME TypeOK, NEW c \in Clients, Pass(c), NEW e \in Clients
    PROVE  Level(Found(e))' = IF e = c THEN Level(Found(e)) - 1
                              ELSE Level(Found(e))
<1>1. now' = now /\ now \in Nat
  BY DEF Pass, TypeOK
<1>2. CASE e = c
  <2>1. clients'[c] = [tokens |-> Level(Found(c)) - 1, last |-> now,
                       lastSeen |-> now]
    BY DEF Pass, TypeOK
  <2>2. Level(Found(c)) - 1 \in 0..Burst /\ Level(Found(c)) - 1 < Burst
    BY LevelInRange, LimiterAssumption DEF Pass
  <2>3. clients'[c] # NoBucket
    BY <2>1, <2>2, LimiterAssumption DEF NoBucket
  <2>4. Found(c)' = clients'[c]
    BY <2>3 DEF Found, NoBucket
  <2>5. Rate * (now - now) = 0
    BY <1>1, LimiterAssumption
  <2> QED
    BY <1>1, <1>2, <2>1, <2>2, <2>4, <2>5, LimiterAssumption DEF Level, Capped
<1>3. CASE e # c
  <2>1. clients'[e] = clients[e]
    BY <1>3 DEF Pass, TypeOK
  <2> QED
    BY <1>1, <1>3, <2>1 DEF Level, Capped, Found, NewBucket, NoBucket
<1> QED
  BY <1>2, <1>3

LEMMA RefuseKeeps ==
    ASSUME TypeOK, NEW c \in Clients, Refuse(c), NEW e \in Clients
    PROVE  Level(Found(e))' = Level(Found(e))
<1>1. now' = now /\ now \in 0..MaxTime
  BY DEF Refuse, TypeOK
<1>2. CASE e = c
  <2>1. clients'[c] = [Found(c) EXCEPT !.lastSeen = now]
    BY DEF Refuse, TypeOK
  <2>2. Found(c) \in Bucket
    BY LevelInRange
  <2>3. clients'[c].lastSeen = now
    BY <2>1, <2>2 DEF Bucket
  <2>4. clients'[c] # NoBucket
    BY <1>1, <2>3, LimiterAssumption DEF NoBucket
  <2>5. /\ Found(c)' = clients'[c]
        /\ clients'[c].tokens = Found(c).tokens
        /\ clients'[c].last = Found(c).last
    BY <2>1, <2>2, <2>4 DEF Found, NoBucket, Bucket
  <2> QED
    BY <1>1, <1>2, <2>5 DEF Level, Capped
<1>3. CASE e # c
  <2>1. clients'[e] = clients[e]
    BY <1>3 DEF Refuse, TypeOK
  <2> QED
    BY <1>1, <1>3, <2>1 DEF Level, Capped, Found, NewBucket, NoBucket
<1> QED
  BY <1>2, <1>3

\* An idle bucket has filled up: this is where ClientTTL must be long enough.
LEMMA ReapKeeps ==
    ASSUME TypeOK, NEW at \in Times, Reap(at), NEW e \in Clients
    PROVE  Level(Found(e))' = Level(Found(e))
<1> DEFINE b == clients[e]
<1>1. now' = now /\ now \in 0..MaxTime /\ at <= now
  BY DEF Reap, TypeOK
<1>2. CASE Idle(b, at)
  <2>1. b # NoBucket /\ b \in Bucket /\ b.last <= b.lastSeen
    BY <1>2 DEF Idle, TypeOK
  <2>2. now - b.last \in Nat /\ ClientTTL <= now - b.last
    BY <1>1, <1>2, <2>1, LimiterAssumption DEF Idle, Bucket
  <2>3. Rate * ClientTTL <= Rate * (now - b.last)
    BY <2>2, ProductGrows, LimiterAssumption
  <2>4. Rate * (now - b.last) \in Nat /\ Rate * ClientTTL \in Nat
    BY <2>2, ProductIsNat, LimiterAssumption
  <2>5. Level(Found(e)) = Burst
    BY <2>1, <2>3, <2>4, LimiterAssumption DEF Level, Capped, Found, Bucket
  <2>6. clients'[e] = NoBucket
    BY <1>2 DEF Reap
  <2>7. Level(Found(e))' = Burst
    BY <1>1, <2>6, LimiterAssumption
       DEF Level, Capped, Found, NewBucket, NoBucket
  <2> QED
    BY <2>5, <2>7
<1>3. CASE ~Idle(b, at)
  <2>1. clients'[e] = clients[e]
    BY <1>3 DEF Reap
  <2> QED
    BY <1>1, <2>1 DEF Level, Capped, Found, NewBucket, NoBucket
<1> QED
  BY <1>2, <1>3

------------------------------------------------------------------------------
(* The bound.  It is not inductive alone: what a client has passed and what  *)
(* its bucket still holds are bounded together.                              *)

Paid ==
    \A c \in Clients : \A t \in Times :
        IF t <= now
        THEN used[c][t] + Level(Found(c)) <= Burst + Rate * (now - t)
        ELSE used[c][t] = 0

\* A client never passes more than a burst and the rate's share of the time.
THEOREM RateIsKept == Spec => []WithinRate
<1>1. Init /\ TypeOK => Paid
  <2> SUFFICES ASSUME Init, TypeOK, NEW c \in Clients, NEW t \in Times
               PROVE  IF t <= now
                      THEN used[c][t] + Level(Found(c))
                             <= Burst + Rate * (now - t)
                      ELSE used[c][t] = 0
    BY DEF Paid
  <2>1. now = 0 /\ used[c][t] = 0
    BY DEF Init
  <2>2. Rate * (0 - 0) = 0
    BY LimiterAssumption
  <2> QED
    BY <2>1, <2>2, LevelInRange, LimiterAssumption
<1>2. TypeOK /\ TypeOK' /\ Paid /\ [Next]_vars => Paid'
  <2> SUFFICES ASSUME TypeOK, TypeOK', Paid, [Next]_vars,
                      NEW c \in Clients, NEW t \in Times
               PROVE  (IF t <= now
                       THEN used[c][t] + Level(Found(c))
                              <= Burst + Rate * (now - t)
                       ELSE used[c][t] = 0)'
    BY DEF Paid
  <2>1. IF t <= now
        THEN used[c][t] + Level(Found(c)) <= Burst + Rate * (now - t)
        ELSE used[c][t] = 0
    BY DEF Paid
  <2>2. /\ used[c][t] \in Nat /\ now \in Nat /\ t \in Nat
        /\ Level(Found(c)) \in 0..Burst
    <3>1. used[c] \in [Times -> Nat]
      BY DEF TypeOK
    <3>2. now \in Nat /\ t \in Nat
      BY LimiterAssumption DEF TypeOK
    <3> QED
      BY <3>1, <3>2, LevelInRange
  <2>3. t <= now => Rate * (now - t) \in Nat
    BY <2>2, ProductIsNat, LimiterAssumption
  <2>4. CASE Tick
    <3>1. now' = now + 1 /\ used' = used
      BY <2>4 DEF Tick
    <3>2. /\ Level(Found(c))' \in 0..Burst
          /\ Level(Found(c))' <= Level(Found(c)) + Rate
      BY <2>2, <2>4, TickFills, LimiterAssumption DEF Capped
    <3>3. CASE t <= now
      <4>1. Rate * ((now - t) + 1) = Rate * (now - t) + Rate
        BY <2>2, <3>3, OneMore, LimiterAssumption
      <4>2. (now + 1) - t = (now - t) + 1
        BY <2>2
      <4>3. Rate * (now' - t) = Rate * (now - t) + Rate
        BY <3>1, <4>1, <4>2
      <4>4. used[c][t] + Level(Found(c))' <= Burst + (Rate * (now - t) + Rate)
        BY <2>1, <2>2, <2>3, <3>2, <3>3, LimiterAssumption
      <4> QED
        BY <2>2, <3>1, <3>3, <4>3, <4>4
    <3>4. CASE t > now
      <4>1. used[c][t]' = 0
        BY <2>1, <2>2, <3>1, <3>4
      <4>2. CASE t = now + 1
        <5>1. Rate * (now' - t) = 0
          BY <2>2, <3>1, <4>2, LimiterAssumption
        <5> QED
          BY <2>2, <3>1, <3>2, <4>1, <4>2, <5>1, LimiterAssumption
      <4>3. CASE t # now + 1
        BY <2>2, <3>1, <3>4, <4>1, <4>3
      <4> QED
        BY <4>2, <4>3
    <3> QED
      BY <2>2, <3>3, <3>4
  <2>5. ASSUME NEW e \in Clients, Pass(e)
        PROVE  (IF t <= now
                THEN used[c][t] + Level(Found(c)) <= Burst + Rate * (now - t)
                ELSE used[c][t] = 0)'
    <3>1. now' = now
      BY <2>5 DEF Pass
    <3>2. Level(Found(c))' = IF c = e THEN Level(Found(c)) - 1
                             ELSE Level(Found(c))
      BY <2>5, PassTakesOne
    <3>3. used'[c][t] = IF c = e /\ t <= now THEN used[c][t] + 1
                        ELSE used[c][t]
      BY <2>5 DEF Pass, CountPassed, TypeOK
    <3> QED
      BY <2>1, <2>2, <2>3, <3>1, <3>2, <3>3, LimiterAssumption
  <2>6. ASSUME NEW e \in Clients, Refuse(e)
        PROVE  (IF t <= now
                THEN used[c][t] + Level(Found(c)) <= Burst + Rate * (now - t)
                ELSE used[c][t] = 0)'
    <3>1. Level(Found(c))' = Level(Found(c)) /\ now' = now /\ used' = used
      BY <2>6, RefuseKeeps DEF Refuse
    <3> QED
      BY <2>1, <3>1
  <2>7. ASSUME NEW at \in Times, Reap(at)
        PROVE  (IF t <= now
                THEN used[c][t] + Level(Found(c)) <= Burst + Rate * (now - t)
                ELSE used[c][t] = 0)'
    <3>1. Level(Found(c))' = Level(Found(c)) /\ now' = now /\ used' = used
      BY <2>7, ReapKeeps DEF Reap
    <3> QED
      BY <2>1, <3>1
  <2>8. CASE UNCHANGED vars
    BY <2>1, <2>8 DEF vars, Level, Capped, Found, NewBucket, NoBucket
  <2> QED
    BY <2>4, <2>5, <2>6, <2>7, <2>8 DEF Next
<1>3. TypeOK /\ Paid => WithinRate
  <2> SUFFICES ASSUME TypeOK, Paid, NEW c \in Clients, NEW t \in Times, t <= now
               PROVE  used[c][t] <= Burst + Rate * (now - t)
    BY DEF WithinRate
  <2>1. used[c][t] + Level(Found(c)) <= Burst + Rate * (now - t)
    BY DEF Paid
  <2>2. now - t \in Nat
    BY DEF TypeOK
  <2>3. Rate * (now - t) \in Nat
    BY <2>2, ProductIsNat, LimiterAssumption
  <2>4. used[c][t] \in Nat /\ Level(Found(c)) \in 0..Burst
    BY LevelInRange DEF TypeOK
  <2> QED
    BY <2>1, <2>3, <2>4, LimiterAssumption
<1> QED
  BY <1>1, <1>2, <1>3, Typed, PTL DEF Spec

------------------------------------------------------------------------------
(* The refinement *)

\* Dropping and remaking buckets implements buckets that are never dropped.
THEOREM Refinement == Spec => ImplementsTokenBucket
<1> USE DEF Ideal!Capped, Capped, Ideal!Times
<1>1. Init /\ TypeOK => Ideal!Init
  <2> SUFFICES ASSUME Init, TypeOK PROVE Ideal!Init
    OBVIOUS
  <2>1. \A c \in Clients : Level(Found(c)) = Burst
    <3> SUFFICES ASSUME NEW c \in Clients PROVE Level(Found(c)) = Burst
      OBVIOUS
    <3>1. Rate * (0 - 0) = 0
      BY LimiterAssumption
    <3> QED
      BY <3>1, LimiterAssumption DEF Init, Level, Found, NewBucket, NoBucket
  <2> QED
    BY <2>1 DEF Init, Ideal!Init
<1>2. TypeOK /\ [Next]_vars => [Ideal!Next]_(Ideal!vars)
  <2> SUFFICES ASSUME TypeOK, [Next]_vars
               PROVE  Ideal!Next \/ UNCHANGED Ideal!vars
    BY DEF Ideal!vars
  <2> DEFINE Lvl == [c \in Clients |-> Level(Found(c))]
  <2>1. CASE Tick
    <3>1. Lvl' = [c \in Clients |-> Capped(Lvl[c] + Rate)]
      BY <2>1, TickFills
    <3>2. Ideal!Tick
      BY <2>1, <3>1 DEF Tick, Ideal!Tick
    <3> QED
      BY <3>2 DEF Ideal!Next
  <2>2. ASSUME NEW c \in Clients, Pass(c) PROVE Ideal!Next
    <3>1. Lvl' = [Lvl EXCEPT ![c] = @ - 1]
      BY <2>2, PassTakesOne
    <3>2. Ideal!Pass(c)
      BY <2>2, <3>1 DEF Pass, Ideal!Pass, CountPassed, Ideal!CountPassed
    <3> QED
      BY <3>2 DEF Ideal!Next
  <2>3. ASSUME NEW c \in Clients, Refuse(c) PROVE Ideal!Next
    <3>1. Lvl' = Lvl
      BY <2>3, RefuseKeeps
    <3>2. Ideal!Refuse(c)
      BY <2>3, <3>1 DEF Refuse, Ideal!Refuse
    <3> QED
      BY <3>2 DEF Ideal!Next
  <2>4. ASSUME NEW at \in Times, Reap(at) PROVE UNCHANGED Ideal!vars
    <3>1. Lvl' = Lvl
      BY <2>4, ReapKeeps
    <3> QED
      BY <2>4, <3>1 DEF Reap, Ideal!vars
  <2>5. CASE UNCHANGED vars
    BY <2>5 DEF vars, Ideal!vars, Level, Found, NewBucket, NoBucket
  <2> QED
    BY <2>1, <2>2, <2>3, <2>4, <2>5 DEF Next
<1> QED
  BY <1>1, <1>2, Typed, PTL DEF Spec, ImplementsTokenBucket, Ideal!Spec

------------------------------------------------------------------------------
(* The gateway behind its limiter *)

LEMMA ArrivalPasses ==
    ASSUME NEW r \in Requests, NEW p \in Persons,
           Register(r, p) \/ Login(r, p) \/ Me(r, p) \/ Call(r, p)
    PROVE  AddressOf[p] \in Clients /\ Pass(AddressOf[p])
BY GatewayAssumption DEF Register, Login, Me, Call, Admit

\* A request in flight leaves the limiter alone.
LEMMA InFlight ==
    ASSUME NEW r \in Requests, RequestStep(r)
    PROVE  UNCHANGED vars
BY DEF RequestStep, Create, CreateUnseen, CreateTaken, CallFails, LoginGranted,
       LoginDenied, Profile, Forward, UpstreamFails

------------------------------------------------------------------------------
(* Types *)

\* What an arriving request holds, and what it leaves alone.
LEMMA Arrival ==
    ASSUME GatewayTypeOK, NEW r \in Requests, NEW p \in Persons,
           NEW pc \in RequestPc, NEW account \in Persons, Start(r, p, pc, account)
    PROVE  /\ request' \in [Requests -> RequestState \cup {IdleRequest}]
           /\ request'[r] = [pc |-> pc, person |-> p, account |-> account,
                             registered |-> p \in accounts]
           /\ \A s \in Requests \ {r} : request'[s] = request[s]
           /\ request[r] = IdleRequest
<1>1. [pc |-> pc, person |-> p, account |-> account,
       registered |-> p \in accounts] \in RequestState
  BY DEF RequestState
<1> QED
  BY <1>1 DEF Start, GatewayTypeOK

\* A request past its arrival is not idle.
LEMMA Busy ==
    ASSUME GatewayTypeOK, NEW r \in Requests, NEW pc \in RequestPc, At(r, pc)
    PROVE  /\ request[r] \in RequestState
           /\ request[r] # IdleRequest
           /\ request[r].pc = pc
           /\ request[r].person \in Persons
           /\ request[r].account \in Persons
<1>1. pc # "idle"
  BY DEF RequestPc
<1>2. request[r] \in RequestState
  BY <1>1 DEF GatewayTypeOK, At, IdleRequest
<1> QED
  BY <1>1, <1>2 DEF At, IdleRequest, RequestState

LEMMA Answered ==
    ASSUME GatewayTypeOK, NEW r \in Requests, Finish(r)
    PROVE  /\ request' \in [Requests -> RequestState \cup {IdleRequest}]
           /\ request'[r] = IdleRequest
           /\ \A s \in Requests \ {r} : request'[s] = request[s]
BY DEF Finish, GatewayTypeOK

------------------------------------------------------------------------------
(* Composition: the gateway drives the limiter as its specification says *)

LEMMA Drives ==
    ASSUME [GatewayNext]_gatewayVars
    PROVE  [Next]_vars
<1>1. CASE LimiterStep
  BY <1>1 DEF LimiterStep, TooMany, AnswerAtOnce, Next
<1>2. ASSUME NEW r \in Requests, Arrive(r) PROVE Next
  BY <1>2, ArrivalPasses DEF Arrive, Next
<1>3. ASSUME NEW r \in Requests, RequestStep(r) PROVE UNCHANGED vars
  BY <1>3, InFlight
<1>4. CASE UNCHANGED gatewayVars
  BY <1>4 DEF gatewayVars
<1> QED
  BY <1>1, <1>2, <1>3, <1>4 DEF GatewayNext

\* The tokens and requests are people's own, no two accounts answer to one name,
\* and an account a request knew of is still there.
Owned ==
    /\ \A p \in Persons : session[p] # NoToken => session[p].account = p
    /\ \A r \in Requests :
          /\ At(r, "create") => request[r].person \notin Invalid
          /\ request[r] # IdleRequest =>
                /\ request[r].account = request[r].person
                /\ request[r].registered => request[r].person \in accounts
    /\ \A a, b \in accounts : StoredName(a) = StoredName(b) => a = b
    /\ upstream.account \in {upstream.sender, "none"}

\* The only account a login can be granted is the person's own.
LEMMA OnlyOwnAccount ==
    ASSUME GatewayTypeOK, NEW p \in Persons, NEW a \in Named(p), PasswordMatches(p, a)
    PROVE  a = p
BY CredentialsAssumption DEF Named, PasswordMatches, StoredName, GatewayTypeOK

\* An arriving request keeps the accounts and sessions and concerns its own sender.
LEMMA ArrivalOwned ==
    ASSUME GatewayTypeOK, TypeOK', Owned, NEW r \in Requests, Arrive(r)
    PROVE  GatewayTypeOK' /\ Owned'
<1>1. PICK p \in Persons : Register(r, p) \/ Login(r, p) \/ Me(r, p) \/ Call(r, p)
  BY DEF Arrive
<1>2. UNCHANGED <<accounts, session, upstream>>
  BY <1>1 DEF Register, Login, Me, Call
<1>3. hashed' \in [Clients -> Nat]
  BY <1>1, GatewayAssumption DEF Register, Login, Me, Call, Hash, GatewayTypeOK
<1>4. PICK pc \in RequestPc : /\ Start(r, p, pc, p)
                              /\ pc = "create" => p \notin Invalid
  <2>1. ASSUME TokenValid(p) PROVE session[p].account = p
    BY <2>1 DEF TokenValid, Owned
  <2> QED
    BY <1>1, <2>1 DEF Register, Login, Me, Call, Acceptable, RequestPc
<1>5. /\ request' \in [Requests -> RequestState \cup {IdleRequest}]
      /\ request'[r] = [pc |-> pc, person |-> p, account |-> p,
                        registered |-> p \in accounts]
      /\ \A s \in Requests \ {r} : request'[s] = request[s]
  BY <1>4, Arrival
<1>6. GatewayTypeOK'
  BY <1>2, <1>3, <1>5 DEF GatewayTypeOK
<1>7. ASSUME NEW s \in Requests
      PROVE  /\ At(s, "create")' => request'[s].person \notin Invalid
             /\ request'[s] # IdleRequest =>
                   /\ request'[s].account = request'[s].person
                   /\ request'[s].registered => request'[s].person \in accounts
  <2>1. CASE s = r
    <3>1. /\ request'[s].pc = pc
          /\ request'[s].person = p /\ request'[s].account = p
      BY <1>5, <2>1
    <3>2. ASSUME p \notin accounts PROVE ~request'[s].registered
      <4>1. (p \in accounts) = FALSE
        BY <3>2
      <4>2. request'[s] = [pc |-> pc, person |-> p, account |-> p, registered |-> FALSE]
        BY <1>5, <2>1, <4>1
      <4> QED
        BY <4>2
    <3> QED
      BY <1>4, <3>1, <3>2 DEF At
  <2>2. CASE s # r
    <3>1. request'[s] = request[s]
      BY <1>5, <2>2
    <3> QED
      BY <3>1 DEF Owned, At
  <2> QED
    BY <2>1, <2>2
<1> QED
  BY <1>2, <1>6, <1>7 DEF Owned, At, StoredName

\* Every later step of a request answers it, and changes at most one of the rest.
LEMMA StepOwned ==
    ASSUME GatewayTypeOK, TypeOK', Owned, NEW r \in Requests, RequestStep(r)
    PROVE  GatewayTypeOK' /\ Owned'
<1>1. Finish(r)
  BY DEF RequestStep, Create, CreateUnseen, CreateTaken, CallFails, LoginGranted,
         LoginDenied, Profile, Forward, UpstreamFails, IssueToken
<1>2. /\ request' \in [Requests -> RequestState \cup {IdleRequest}]
      /\ request'[r] = IdleRequest
      /\ \A s \in Requests \ {r} : request'[s] = request[s]
  BY <1>1, Answered
<1>3. PICK pc \in RequestPc : At(r, pc)
  BY DEF RequestStep, Create, CreateUnseen, CreateTaken, CallFails, LoginGranted,
         LoginDenied, Profile, Forward, UpstreamFails, At, RequestPc
<1>4. /\ request[r] # IdleRequest
      /\ request[r].person \in Persons
      /\ request[r].account = request[r].person
  BY <1>3, Busy DEF Owned
<1>5. /\ accounts' \subseteq Persons \ Invalid
      /\ accounts \subseteq accounts'
      /\ \A a, b \in accounts' : StoredName(a) = StoredName(b) => a = b
  <2>1. CASE Create(r) \/ CreateUnseen(r)
    BY <1>4, <2>1 DEF Create, CreateUnseen, Unclaimed, Owned, GatewayTypeOK
  <2>2. CASE UNCHANGED accounts
    BY <2>2 DEF Owned, GatewayTypeOK
  <2> QED
    BY <2>1, <2>2 DEF RequestStep, CreateTaken, CallFails, LoginGranted, LoginDenied,
                      Profile, Forward, UpstreamFails
<1> DEFINE OwnSessions ==
      /\ session \in [Persons -> [account : Persons, expires : Nat] \cup {NoToken}]
      /\ \A p \in Persons : session[p] # NoToken => session[p].account = p
<1>6. OwnSessions'
  <2>1. ASSUME NEW a \in Persons, a = request[r].person, IssueToken(r, a) PROVE OwnSessions'
    <3>1. now + TokenTTL \in Nat
      BY GatewayAssumption, LimiterAssumption DEF GatewayTypeOK, TypeOK, Times
    <3>2. [account |-> a, expires |-> now + TokenTTL]
              \in [account : Persons, expires : Nat]
      BY <3>1
    <3>3. session' = [session EXCEPT ![a] =
              [account |-> a, expires |-> now + TokenTTL]]
      BY <2>1 DEF IssueToken
    <3>4. session \in [Persons -> [account : Persons, expires : Nat] \cup {NoToken}]
      BY DEF GatewayTypeOK
    <3>5. \A p \in Persons : session[p] # NoToken => session[p].account = p
      BY DEF Owned
    <3> QED
      BY <3>2, <3>3, <3>4, <3>5
  <2>2. CASE Create(r)
    BY <1>4, <2>1, <2>2 DEF Create
  <2>3. CASE LoginGranted(r)
    <3>1. PICK a \in Named(request[r].person) :
              PasswordMatches(request[r].person, a) /\ IssueToken(r, a)
      BY <2>3 DEF LoginGranted
    <3> QED
      BY <1>4, <2>1, <3>1, OnlyOwnAccount
  <2>4. CASE UNCHANGED session
    BY <2>4 DEF Owned, GatewayTypeOK
  <2> QED
    BY <2>2, <2>3, <2>4 DEF RequestStep, CreateUnseen, CreateTaken, CallFails,
                            LoginDenied, Profile, Forward, UpstreamFails
<1>7. /\ upstream' \in [sender : Persons, account : Persons \cup {"none"}] \cup {Nobody}
      /\ upstream'.account \in {upstream'.sender, "none"}
  <2>1. CASE Forward(r)
    BY <1>4, <2>1 DEF Forward, Arriving, Identity
  <2>2. CASE UNCHANGED upstream
    BY <2>2 DEF Owned, GatewayTypeOK
  <2> QED
    BY <2>1, <2>2 DEF RequestStep, Create, CreateUnseen, CreateTaken, CallFails,
                      LoginGranted, LoginDenied, Profile, UpstreamFails
<1>8. hashed' \in [Clients -> Nat]
  BY GatewayAssumption, <1>4
     DEF RequestStep, Create, CreateUnseen, CreateTaken, CallFails, LoginGranted,
         LoginDenied, Profile, Forward, UpstreamFails, Hash, GatewayTypeOK
<1>9. ASSUME NEW s \in Requests
      PROVE  /\ At(s, "create")' => request'[s].person \notin Invalid
             /\ request'[s] # IdleRequest =>
                   /\ request'[s].account = request'[s].person
                   /\ request'[s].registered => request'[s].person \in accounts'
  BY <1>2, <1>5 DEF Owned, At, IdleRequest
<1>10. GatewayTypeOK'
  BY <1>2, <1>5, <1>6, <1>7, <1>8 DEF GatewayTypeOK
<1> QED
  BY <1>5, <1>6, <1>7, <1>9, <1>10 DEF Owned, At, StoredName

LEMMA Composition == GatewaySpec => Spec
<1>1. GatewayInit => Init
  BY DEF GatewayInit
<1>2. [GatewayNext]_gatewayVars => [Next]_vars
  BY Drives
<1> QED
  BY <1>1, <1>2, PTL DEF GatewaySpec, Spec

\* The gateway's state is well typed, and no account is one Validate would reject.
THEOREM GatewayTyped == GatewaySpec => [](GatewayTypeOK /\ Owned)
<1>1. GatewayInit /\ TypeOK => GatewayTypeOK /\ Owned
  BY DEF GatewayInit, GatewayTypeOK, Owned, At, IdleRequest, Nobody
<1>2. GatewayTypeOK /\ Owned /\ TypeOK' /\ [GatewayNext]_gatewayVars
          => GatewayTypeOK' /\ Owned'
  <2> SUFFICES ASSUME GatewayTypeOK, Owned, TypeOK', [GatewayNext]_gatewayVars
               PROVE  GatewayTypeOK' /\ Owned'
    OBVIOUS
  <2>1. CASE UNCHANGED accountVars
    BY <2>1 DEF accountVars, GatewayTypeOK, Owned, At, StoredName
  <2>2. LimiterStep => UNCHANGED accountVars
    BY DEF LimiterStep, TooMany, AnswerAtOnce
  <2>3. ASSUME NEW r \in Requests, Arrive(r) PROVE GatewayTypeOK' /\ Owned'
    BY <2>3, ArrivalOwned
  <2>4. ASSUME NEW r \in Requests, RequestStep(r) PROVE GatewayTypeOK' /\ Owned'
    BY <2>4, StepOwned
  <2> QED
    BY <2>1, <2>2, <2>3, <2>4 DEF GatewayNext, gatewayVars
<1> QED
  BY <1>1, <1>2, Composition, Typed, PTL DEF GatewaySpec

\* For any rate, burst, addresses and concurrent requests, no address passes more
\* than a burst and the rate's share of any stretch of time.
THEOREM RateIsKeptByGateway == GatewaySpec => []WithinRate
BY Composition, RateIsKept, PTL

\* In front of the accounts the limiter still implements buckets never dropped.
THEOREM LimiterComposed == GatewaySpec => ImplementsTokenBucket
BY Composition, Refinement, PTL

\* For any persons, names, passwords and requests in flight, a token and what arrives
\* upstream name the account of the person they come from, or none.
THEOREM NoForeignIdentityTold == GatewaySpec => []NoForeignIdentity
<1>1. GatewayTypeOK /\ Owned => NoForeignIdentity
  BY DEF Owned, GatewayTypeOK, NoToken, NoForeignIdentity
<1> QED
  BY <1>1, GatewayTyped, PTL

\* A login is never denied to someone who had an account when it arrived.
THEOREM OwnersSignIn == GatewaySpec => OwnerSignsIn
<1>1. GatewayTypeOK /\ Owned
          => \A r \in Requests : LoginDenied(r) => ~request[r].registered
  <2> SUFFICES ASSUME GatewayTypeOK, Owned, NEW r \in Requests, LoginDenied(r),
                      request[r].registered
               PROVE  FALSE
    OBVIOUS
  <2> DEFINE p == request[r].person
  <2>1. p \in Persons /\ p \in accounts
    <3>1. At(r, "lookup") /\ "lookup" \in RequestPc
      BY DEF LoginDenied, RequestPc
    <3> QED
      BY <3>1, Busy DEF Owned
  <2>2. p \in Named(p)
    BY <2>1, CredentialsAssumption DEF Named, StoredName
  <2>3. ASSUME NEW a \in Named(p) PROVE PasswordMatches(p, a)
    <3>1. a \in accounts /\ StoredName(a) = StoredName(p)
      BY <2>1, <2>3, CredentialsAssumption DEF Named, StoredName
    <3>2. a = p
      BY <2>1, <3>1 DEF Owned
    <3> QED
      BY <3>2 DEF PasswordMatches
  <2> QED
    BY <2>2, <2>3 DEF LoginDenied
<1> QED
  BY <1>1, GatewayTyped, PTL DEF OwnerSignsIn

------------------------------------------------------------------------------
(* Work *)

\* The logins of an address that have passed and not yet compared a password.
Pending(c) == {r \in Requests : At(r, "lookup") /\ AddressOf[request[r].person] = c}

\* Every hash an address has cost, and every one a login of its is about to cost,
\* was paid for by a request that passed.
HashesPaid == \A c \in Clients : hashed[c] + Cardinality(Pending(c)) <= used[c][0]

\* From the start of time, a passed request counts for its own client only.
LEMMA PassCounts ==
    ASSUME TypeOK, NEW d \in Clients, Pass(d), NEW c \in Clients
    PROVE  used'[c][0] = IF c = d THEN used[c][0] + 1 ELSE used[c][0]
<1>1. 0 \in Times /\ 0 <= now
  BY LimiterAssumption DEF TypeOK, Times
<1> QED
  BY <1>1 DEF Pass, CountPassed, TypeOK

LEMMA PendingCount ==
    ASSUME NEW c \in Clients
    PROVE  IsFiniteSet(Pending(c)) /\ Cardinality(Pending(c)) \in Nat
BY FS_Subset, FS_CardinalityType, GatewayAssumption DEF Pending

LEMMA Counts ==
    ASSUME GatewayTypeOK, NEW c \in Clients
    PROVE  hashed[c] \in Nat /\ used[c][0] \in Nat
<1>1. 0 \in Times
  BY LimiterAssumption DEF Times
<1> QED
  BY <1>1 DEF GatewayTypeOK, TypeOK

LEMMA ArrivalPaid ==
    ASSUME GatewayTypeOK, Owned, HashesPaid, NEW r \in Requests, Arrive(r)
    PROVE  HashesPaid'
<1>1. PICK p \in Persons : Register(r, p) \/ Login(r, p) \/ Me(r, p) \/ Call(r, p)
  BY DEF Arrive
<1> SUFFICES ASSUME NEW c \in Clients
             PROVE  hashed'[c] + Cardinality(Pending(c)') <= used'[c][0]
  BY DEF HashesPaid
<1>2. /\ AddressOf[p] \in Clients
      /\ used'[c][0] = IF c = AddressOf[p] THEN used[c][0] + 1 ELSE used[c][0]
  BY <1>1, ArrivalPasses, PassCounts DEF GatewayTypeOK
<1>3. hashed[c] + Cardinality(Pending(c)) <= used[c][0]
  BY DEF HashesPaid
<1>4. r \notin Pending(c)
  BY <1>1 DEF Register, Login, Me, Call, Start, Pending, At, IdleRequest
<1>5. CASE Login(r, p)
  <2>1. Start(r, p, "lookup", p) /\ "lookup" \in RequestPc
    BY <1>5 DEF Login, RequestPc
  <2>2. /\ request'[r].pc = "lookup" /\ request'[r].person = p
        /\ \A s \in Requests \ {r} : request'[s] = request[s]
    <3>1. /\ request'[r] = [pc |-> "lookup", person |-> p, account |-> p,
                            registered |-> p \in accounts]
          /\ \A s \in Requests \ {r} : request'[s] = request[s]
      BY <2>1, Arrival
    <3> QED
      BY <3>1
  <2>3. ASSUME NEW s \in Requests
        PROVE  s \in Pending(c)' <=> s \in Pending(c) \/ (s = r /\ c = AddressOf[p])
    BY <1>4, <2>2 DEF Pending, At
  <2>4. Pending(c)' = IF c = AddressOf[p] THEN Pending(c) \cup {r} ELSE Pending(c)
    BY <2>3 DEF Pending
  <2>5. hashed' = hashed
    BY <1>5 DEF Login
  <2>6. Cardinality(Pending(c) \cup {r}) = Cardinality(Pending(c)) + 1
    BY <1>4, PendingCount, FS_AddElement
  <2> QED
    BY <1>2, <1>3, <2>4, <2>5, <2>6, PendingCount, Counts
<1>6. CASE ~Login(r, p)
  <2>1. PICK pc \in RequestPc : /\ pc # "lookup"
                               /\ \E a \in Persons : Start(r, p, pc, a)
    <3>1. ASSUME TokenValid(p) PROVE session[p].account \in Persons
      BY <3>1 DEF TokenValid, GatewayTypeOK
    <3> QED
      BY <1>1, <1>6, <3>1 DEF Register, Me, Call, RequestPc
  <2>2. /\ request'[r].pc = pc
        /\ \A s \in Requests \ {r} : request'[s] = request[s]
    <3>1. PICK a \in Persons : Start(r, p, pc, a)
      BY <2>1
    <3>2. /\ request'[r] = [pc |-> pc, person |-> p, account |-> a,
                            registered |-> p \in accounts]
          /\ \A s \in Requests \ {r} : request'[s] = request[s]
      BY <3>1, Arrival
    <3> QED
      BY <3>2
  <2>3. Pending(c)' = Pending(c)
    <3>1. ASSUME NEW s \in Requests PROVE s \in Pending(c)' <=> s \in Pending(c)
      BY <1>4, <2>1, <2>2 DEF Pending, At
    <3> QED
      BY <3>1 DEF Pending
  <2>4. hashed'[c] = hashed[c] \/ (c = AddressOf[p] /\ hashed'[c] = hashed[c] + 1)
    BY <1>1, <1>2, <1>6 DEF Register, Me, Call, Hash, GatewayTypeOK
  <2> QED
    BY <1>2, <1>3, <2>3, <2>4, PendingCount, Counts
<1> QED
  BY <1>5, <1>6

LEMMA StepPaid ==
    ASSUME GatewayTypeOK, HashesPaid, NEW r \in Requests, RequestStep(r)
    PROVE  HashesPaid'
<1> SUFFICES ASSUME NEW c \in Clients
             PROVE  hashed'[c] + Cardinality(Pending(c)') <= used'[c][0]
  BY DEF HashesPaid
<1>1. used' = used
  BY InFlight DEF vars
<1>2. hashed[c] + Cardinality(Pending(c)) <= used[c][0]
  BY DEF HashesPaid
<1>3. Finish(r)
  BY DEF RequestStep, Create, CreateUnseen, CreateTaken, CallFails, LoginGranted,
         LoginDenied, Profile, Forward, UpstreamFails, IssueToken
<1>4. Pending(c)' = Pending(c) \ {r}
  <2>1. ASSUME NEW s \in Requests PROVE s \in Pending(c)' <=> s \in Pending(c) /\ s # r
    BY <1>3, Answered DEF Pending, At, IdleRequest
  <2> QED
    BY <2>1 DEF Pending
<1>5. hashed'[c] = hashed[c] \/ (r \in Pending(c) /\ hashed'[c] = hashed[c] + 1)
  BY DEF RequestStep, Create, CreateUnseen, CreateTaken, CallFails, LoginGranted,
         LoginDenied, Profile, Forward, UpstreamFails, Hash, GatewayTypeOK, Pending
<1>6. /\ Cardinality(Pending(c) \ {r}) <= Cardinality(Pending(c))
      /\ r \in Pending(c) => Cardinality(Pending(c) \ {r}) = Cardinality(Pending(c)) - 1
      /\ Cardinality(Pending(c) \ {r}) \in Int
  <2>1. IsFiniteSet(Pending(c)) /\ Cardinality(Pending(c)) \in Nat
    BY PendingCount
  <2>2. Cardinality(Pending(c) \ {r}) = IF r \in Pending(c) THEN Cardinality(Pending(c)) - 1
                                        ELSE Cardinality(Pending(c))
    BY <2>1, FS_RemoveElement, Zenon
  <2> QED
    BY <2>1, <2>2
<1> QED
  BY <1>1, <1>2, <1>4, <1>5, <1>6, PendingCount, Counts

\* The password hashes computed for an address stay within the address's rate.
THEOREM WorkIsBounded == GatewaySpec => []WorkWithinRate
<1>1. GatewayInit => HashesPaid
  <2> SUFFICES ASSUME GatewayInit, NEW c \in Clients
               PROVE  hashed[c] + Cardinality(Pending(c)) <= used[c][0]
    BY DEF HashesPaid
  <2>1. Pending(c) = {}
    BY DEF GatewayInit, Pending, At, IdleRequest
  <2>2. hashed[c] = 0 /\ used[c][0] = 0
    BY LimiterAssumption DEF GatewayInit, Init, Times
  <2> QED
    BY <2>1, <2>2, FS_EmptySet
<1>2. GatewayTypeOK /\ Owned /\ HashesPaid /\ [GatewayNext]_gatewayVars => HashesPaid'
  <2> SUFFICES ASSUME GatewayTypeOK, Owned, HashesPaid, [GatewayNext]_gatewayVars
               PROVE  HashesPaid'
    OBVIOUS
  <2>1. CASE UNCHANGED gatewayVars
    BY <2>1 DEF gatewayVars, vars, accountVars, HashesPaid, Pending, At
  <2>2. CASE LimiterStep
    <3>1. hashed' = hashed /\ \A c \in Clients : Pending(c)' = Pending(c)
      BY <2>2 DEF LimiterStep, TooMany, AnswerAtOnce, accountVars, Pending, At
    <3>2. ASSUME NEW c \in Clients PROVE used[c][0] <= used'[c][0]
      <4>1. CASE used' = used
        BY <4>1, Counts
      <4>2. ASSUME NEW d \in Clients, Pass(d) PROVE used[c][0] <= used'[c][0]
        BY <4>2, PassCounts, Counts DEF GatewayTypeOK
      <4> QED
        BY <2>2, <4>1, <4>2
           DEF LimiterStep, Tick, Reap, TooMany, Refuse, AnswerAtOnce
    <3>3. ASSUME NEW c \in Clients
          PROVE  hashed'[c] + Cardinality(Pending(c)') <= used'[c][0]
      <4>1. hashed[c] + Cardinality(Pending(c)) <= used[c][0] /\ used'[c][0] \in Int
        <5>1. used'[c][0] \in Int
          BY <2>2, PassCounts, Counts
             DEF LimiterStep, Tick, Reap, TooMany, Refuse, AnswerAtOnce, GatewayTypeOK
        <5> QED
          BY <5>1 DEF HashesPaid
      <4> QED
        BY <3>1, <3>2, <4>1, PendingCount, Counts
    <3> QED
      BY <3>3 DEF HashesPaid
  <2>3. ASSUME NEW r \in Requests, Arrive(r) PROVE HashesPaid'
    BY <2>3, ArrivalPaid
  <2>4. ASSUME NEW r \in Requests, RequestStep(r) PROVE HashesPaid'
    BY <2>4, StepPaid
  <2> QED
    BY <2>1, <2>2, <2>3, <2>4 DEF GatewayNext
<1>3. GatewayTypeOK /\ HashesPaid /\ WithinRate => WorkWithinRate
  <2> SUFFICES ASSUME GatewayTypeOK, HashesPaid, WithinRate, NEW c \in Clients
               PROVE  hashed[c] <= Burst + Rate * now
    BY DEF WorkWithinRate
  <2>1. 0 \in Times /\ now \in Nat /\ now - 0 = now
    BY LimiterAssumption DEF GatewayTypeOK, TypeOK, Times
  <2>2. used[c][0] <= Burst + Rate * now
    <3>1. used[c][0] <= Burst + Rate * (now - 0)
      BY <2>1 DEF WithinRate
    <3> QED
      BY <2>1, <3>1
  <2>3. Rate * now \in Nat
    BY <2>1, ProductIsNat, LimiterAssumption
  <2> QED
    BY <2>2, <2>3, PendingCount, Counts, LimiterAssumption DEF HashesPaid
<1> QED
  BY <1>1, <1>2, <1>3, GatewayTyped, RateIsKeptByGateway, PTL DEF GatewaySpec
==============================================================================
