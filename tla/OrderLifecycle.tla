--------------------------- MODULE OrderLifecycle ----------------------------
(***************************************************************************)
(* What order-service promises about one order, with no processes, no     *)
(* Redis and no failures: an id is used for one order only, its status    *)
(* moves along the edges of the state machine, and every placement and    *)
(* every status write is announced exactly once, in the same step, by an  *)
(* event that carries the new status.                                      *)
(*                                                                         *)
(* status[o] is "none" before the id is used and "deleted" once the row   *)
(* has gone; announced[o] is the sequence of statuses o's events carry.   *)
(***************************************************************************)
EXTENDS OrderDomain

CONSTANT Orders

VARIABLES status, announced

lifecycleVars == <<status, announced>>

RowState == OrderStatus \cup {"none", "deleted"}

Init ==
    /\ status = [o \in Orders |-> "none"]
    /\ announced = [o \in Orders |-> <<>>]

Announce(o, s) ==
    /\ status' = [status EXCEPT ![o] = s]
    /\ announced' = [announced EXCEPT ![o] = Append(@, s)]

Placed(o) ==
    /\ status[o] = "none"
    /\ Announce(o, "PENDING")

Moved(o, next) ==
    /\ status[o] \in OrderStatus
    /\ CanTransitionStatus(status[o], next)
    /\ Announce(o, next)

\* The row goes, silently: a deletion writes no event.
Removed(o) ==
    /\ status[o] \in OrderStatus
    /\ status' = [status EXCEPT ![o] = "deleted"]
    /\ UNCHANGED announced

Next ==
    \E o \in Orders :
        \/ Placed(o)
        \/ \E next \in OrderStatus : Moved(o, next)
        \/ Removed(o)

Spec == Init /\ [][Next]_lifecycleVars
==============================================================================
