----------------------------- MODULE OrderDomain -----------------------------
(***************************************************************************)
(* The order aggregate's state machine: the statuses of an order and the  *)
(* edges CanTransitionStatus allows between them.  Shared by the abstract *)
(* order lifecycle and by the service that implements it.                  *)
(***************************************************************************)
EXTENDS Naturals, Sequences

OrderStatus == {"PENDING", "PROCESSING", "EXECUTED", "FAILED"}

Terminal == {"EXECUTED", "FAILED"}

\* The edges a status write may take.  A terminal status may be written again,
\* to itself only.
CanTransitionStatus(current, next) ==
    \/ current = "PENDING"    /\ next \in {"PROCESSING", "FAILED"}
    \/ current = "PROCESSING" /\ next \in {"EXECUTED", "FAILED"}
    \/ current \in Terminal   /\ next = current

\* A sequence of statuses an order can legally have gone through: it starts at
\* PENDING and each status follows from the one before.
LegalHistory(h) ==
    /\ h # <<>> => h[1] = "PENDING"
    /\ \A i \in 1..(Len(h) - 1) : CanTransitionStatus(h[i], h[i + 1])
==============================================================================
