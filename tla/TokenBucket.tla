----------------------------- MODULE TokenBucket -----------------------------
(***************************************************************************)
(* What the gateway's rate limiter promises each client: one token bucket  *)
(* that is never forgotten.  Time is counted in ticks of one unit.         *)
(***************************************************************************)
EXTENDS Naturals

CONSTANTS
    Clients,  \* client addresses
    Rate,     \* tokens a bucket gains per tick
    Burst,    \* tokens a full bucket holds
    MaxTime   \* bound: the last tick

VARIABLES
    now,
    level,   \* each client's tokens
    answer,  \* how each client's latest request was answered
    used     \* history: per client and tick, the requests passed since then

vars == <<now, level, answer, used>>

Times == 0..MaxTime

Capped(tokens) == IF tokens > Burst THEN Burst ELSE tokens

Init ==
    /\ now = 0
    /\ level = [c \in Clients |-> Burst]
    /\ answer = [c \in Clients |-> "none"]
    /\ used = [c \in Clients |-> [t \in Times |-> 0]]

Tick ==
    /\ now < MaxTime
    /\ now' = now + 1
    /\ level' = [c \in Clients |-> Capped(level[c] + Rate)]
    /\ UNCHANGED <<answer, used>>

\* One more request of c has passed since every tick up to now.
CountPassed(c) ==
    used' = [used EXCEPT ![c] =
                [t \in Times |-> IF t <= now THEN @[t] + 1 ELSE @[t]]]

Pass(c) ==
    /\ level[c] > 0
    /\ level' = [level EXCEPT ![c] = @ - 1]
    /\ answer' = [answer EXCEPT ![c] = "passed"]
    /\ CountPassed(c)
    /\ UNCHANGED now

Refuse(c) ==
    /\ level[c] = 0
    /\ answer' = [answer EXCEPT ![c] = "refused"]
    /\ UNCHANGED <<now, level, used>>

Next == Tick \/ \E c \in Clients : Pass(c) \/ Refuse(c)

Spec == Init /\ [][Next]_vars
==============================================================================
