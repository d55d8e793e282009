----------------------------- MODULE RateLimiter -----------------------------
(***************************************************************************)
(* The gateway's rate limiter: a map from client address to token bucket,  *)
(* filled on a client's first request, and a janitor that drops the        *)
(* buckets of idle clients.  A dropped client starts again with a full     *)
(* bucket.                                                                 *)
(*                                                                         *)
(* Finding the bucket and taking a token from it are one action: a request *)
(* is not taken to stall between the two for as long as ClientTTL.         *)
(***************************************************************************)
EXTENDS Naturals

CONSTANTS
    Clients,
    Rate,       \* RequestsPerSecond, as tokens per tick
    Burst,
    ClientTTL,  \* idle ticks after which a bucket may be dropped
    MaxTime     \* bound: the last tick

\* The defaults (5 a second, a burst of 10, ten minutes) meet the last conjunct
\* by far, but the configuration does not enforce it.
ASSUME LimiterAssumption ==
    /\ Rate \in Nat
    /\ Burst \in Nat
    /\ ClientTTL \in Nat
    /\ MaxTime \in Nat
    /\ Rate * ClientTTL >= Burst

VARIABLES
    now,
    clients,  \* each client's bucket, or NoBucket
    answer,   \* how each client's latest request was answered
    used      \* history: per client and tick, the requests passed since then

vars == <<now, clients, answer, used>>

Times == 0..MaxTime

\* rate.Limiter keeps the tokens as of the last time it was asked.
Bucket == [tokens : 0..Burst, last : Times, lastSeen : Times]
NoBucket == [tokens |-> Burst, last |-> 0, lastSeen |-> MaxTime + 1]

Init ==
    /\ now = 0
    /\ clients = [c \in Clients |-> NoBucket]
    /\ answer = [c \in Clients |-> "none"]
    /\ used = [c \in Clients |-> [t \in Times |-> 0]]

Capped(tokens) == IF tokens > Burst THEN Burst ELSE tokens

\* A bug: the bucket is refilled without a cap.
LevelUncapped(b) == b.tokens + Rate * (now - b.last)

\* rate.Limiter's advance: what the bucket holds by now.
Level(b) == Capped(b.tokens + Rate * (now - b.last))

\* rate.NewLimiter: a new bucket is full.
NewBucket == [tokens |-> Burst, last |-> now, lastSeen |-> now]

Found(c) == IF clients[c] = NoBucket THEN NewBucket ELSE clients[c]

Tick ==
    /\ now < MaxTime
    /\ now' = now + 1
    /\ UNCHANGED <<clients, answer, used>>

CountPassed(c) ==
    used' = [used EXCEPT ![c] =
                [t \in Times |-> IF t <= now THEN @[t] + 1 ELSE @[t]]]

\* allow, with a token to take.
Pass(c) ==
    /\ Level(Found(c)) > 0
    /\ clients' = [clients EXCEPT ![c] =
          [tokens |-> Level(Found(c)) - 1, last |-> now, lastSeen |-> now]]
    /\ answer' = [answer EXCEPT ![c] = "passed"]
    /\ CountPassed(c)
    /\ UNCHANGED now

\* allow, without: 429.  The bucket stays as it is, but the client was seen.
Refuse(c) ==
    /\ Level(Found(c)) = 0
    /\ clients' = [clients EXCEPT ![c] = [Found(c) EXCEPT !.lastSeen = now]]
    /\ answer' = [answer EXCEPT ![c] = "refused"]
    /\ UNCHANGED <<now, used>>

\* A bug: the janitor drops a bucket as soon as its client pauses.
IdleAtOnce(b, at) == b # NoBucket /\ at > b.lastSeen

Idle(b, at) == b # NoBucket /\ at > b.lastSeen + ClientTTL

\* The janitor, handling the tick of time at, perhaps late.
Reap(at) ==
    /\ at <= now
    /\ \E c \in Clients : Idle(clients[c], at)
    /\ clients' = [c \in Clients |->
                      IF Idle(clients[c], at) THEN NoBucket ELSE clients[c]]
    /\ UNCHANGED <<now, answer, used>>

Next ==
    \/ Tick
    \/ \E c \in Clients : Pass(c) \/ Refuse(c)
    \/ \E at \in Times : Reap(at)

Spec == Init /\ [][Next]_vars

------------------------------------------------------------------------------
(* Properties *)

TypeOK ==
    /\ now \in Times
    /\ clients \in [Clients -> Bucket \cup {NoBucket}]
    /\ \A c \in Clients : clients[c] # NoBucket =>
           clients[c].last <= clients[c].lastSeen /\ clients[c].lastSeen <= now
    /\ answer \in [Clients -> {"none", "passed", "refused"}]
    /\ used \in [Clients -> [Times -> Nat]]

\* In no stretch of time does a client pass more than a burst and what the rate
\* adds, however often its bucket is dropped and made anew.
WithinRate ==
    \A c \in Clients : \A t \in Times :
        t <= now => used[c][t] <= Burst + Rate * (now - t)

\* Dropping idle buckets cannot be told from keeping them for ever: every
\* request is answered as by a bucket that was never dropped.
Ideal == INSTANCE TokenBucket WITH
             level <- [c \in Clients |-> Level(Found(c))]
ImplementsTokenBucket == Ideal!Spec
==============================================================================
