----------------------------- MODULE OrderProcess ----------------------------
(***************************************************************************)
(* One order-service process from start to exit: the requests and workers  *)
(* of OrderService, the outbox relay as the loop that empties the outbox,  *)
(* and main's ordered shutdown.  On a signal the process stops accepting    *)
(* requests and waits for those in flight, then for the lifecycle workers, *)
(* then stops the relay, which flushes the outbox once more, and exits.    *)
(* The first and the last wait have a budget; the second has none, but the *)
(* workers have deadlines.                                                 *)
(*                                                                         *)
(* An exit ends whatever still runs.  The next process publishes the rows   *)
(* left in the outbox; it does not resume a worker or a request.           *)
(***************************************************************************)
EXTENDS OrderService

CONSTANTS
    RelayBatch, \* rows a relay transaction claims
    Budgets     \* what can run out here: "requests", "flush" (which the database
                \* may also fail); "broker" when publishing can fail

BudgetKinds == {"requests", "flush", "broker"}

ASSUME ProcessAssumption ==
    /\ RelayBatch \in Nat \ {0}
    /\ Budgets \subseteq BudgetKinds

VARIABLES
    phase,    \* where main is
    settled,  \* the outbox rows that are no longer PENDING, from when the relay is
              \* stopped: published and marked so, or retired, their attempts used up
    cutOff    \* history: the budgets that have run out

processVars == <<phase, settled, cutOff>>
allVars == <<vars, processVars>>

Phase == {"serving", "draining", "waiting", "flushing", "exited"}

ProcessInit ==
    /\ Init
    /\ phase = "serving"
    /\ settled = {}
    /\ cutOff = {}

\* A row is an order with its place among that order's rows.
Rows == UNION {{o} \X (1..Len(outbox[o])) : o \in Orders}

\* The rows a batch can claim.
Pending == Rows \ settled

RequestsInFlight == \E h \in Handlers : handler[h].pc # "idle"
\* A bug: the worker reports its end only where it has executed its order.
WorkersUnreported == \E o \in Orders : worker[o] # "none" /\ ~Announced(o, "EXECUTED")

WorkersInFlight == \E o \in Orders : worker[o] \notin {"none", "done"}

------------------------------------------------------------------------------
(* The service's own steps *)

\* The listener is closed as soon as the shutdown starts.  A request it has accepted
\* by then may come to its first store call, where a request begins here, during
\* the wait for requests, which covers it.
Accept ==
    /\ phase \in {"serving", "draining"}
    /\ \E h \in Handlers : Request(h)
    /\ UNCHANGED processVars

Serve(h) ==
    /\ phase # "exited"
    /\ HandlerStep(h)
    /\ UNCHANGED processVars

Work(o) ==
    /\ phase # "exited"
    /\ WorkerStep(o)
    /\ UNCHANGED processVars

------------------------------------------------------------------------------
(* The relay.  A batch of the flush holds the oldest rows; here it is any     *)
(* rows of that number which leave none of an order's behind an unclaimed one.  *)

Claimed == IF Cardinality(Pending) < RelayBatch THEN Cardinality(Pending) ELSE RelayBatch

\* No row is settled before an older one of its order.
OldestFirst(S) == \A o \in Orders : \A i \in 1..Len(outbox[o]) :
    <<o, i>> \in S => \A j \in 1..i : <<o, j>> \in S

\* What one transaction can publish: of an order's claimed rows those before the
\* first failure.
Publishable ==
    {R \in SUBSET Pending :
        /\ OldestFirst(settled \cup R)
        /\ Cardinality(R) <= Claimed
        /\ "broker" \notin Budgets => Cardinality(R) = Claimed}

\* What one that publishes R can retire: failures, each the oldest row of its order
\* not yet settled, that had one attempt left.
Retirable(R) ==
    {F \in SUBSET {row \in Pending \ R : OldestFirst(settled \cup R \cup {row})} :
        Cardinality(R) + Cardinality(F) <= Claimed}

\* What the polls have settled when the relay is stopped: of each order's rows some
\* prefix, each row published or, if publishing can fail, retired.  It is chosen
\* then, as nothing reads it before.
Polled == {S \in SUBSET Rows : OldestFirst(S)}

------------------------------------------------------------------------------
(* main *)

Signal ==
    /\ phase = "serving"
    /\ phase' = "draining"
    /\ UNCHANGED <<vars, settled, cutOff>>

\* server.Shutdown returns once no request is in flight ...
RequestsDrained ==
    /\ phase = "draining"
    /\ ~RequestsInFlight
    /\ phase' = "waiting"
    /\ UNCHANGED <<vars, settled, cutOff>>

\* ... or when its budget has run out, which is only logged: the requests still
\* running go on beside what follows.  (It may run out over a request that has not
\* come to a store call; that one is not followed further.)
RequestsOverdue ==
    /\ "requests" \in Budgets
    /\ phase = "draining"
    /\ phase' = "waiting"
    /\ cutOff' = cutOff \cup {"requests"}
    /\ UNCHANGED <<vars, settled>>

\* A bug: the relay is stopped without waiting for the workers.
StopRelayAtOnce ==
    /\ phase = "waiting"
    /\ phase' = "flushing"
    /\ settled' \in Polled
    /\ UNCHANGED <<vars, cutOff>>

\* Drain returns at an instant at which no worker runs, and the relay is stopped.
StopRelay ==
    /\ phase = "waiting"
    /\ ~WorkersInFlight
    /\ phase' = "flushing"
    /\ settled' \in Polled
    /\ UNCHANGED <<vars, cutOff>>

\* A bug: the loop stops after its first full batch as after a short one.
GoesOnNever(claimed, published) == FALSE

\* Whether drain claims another batch: after a full one of which some went out.
GoesOn(claimed, published) == published > 0 /\ claimed = RelayBatch

\* One transaction of the final flush.  The loop ends on an empty or a short
\* batch, and when nothing went out.
Flush ==
    /\ phase = "flushing"
    /\ \E R \in Publishable : \E F \in Retirable(R) :
          /\ settled' = settled \cup R \cup F
          /\ cutOff' = IF Cardinality(R) = Claimed THEN cutOff ELSE cutOff \cup {"broker"}
          /\ phase' = IF GoesOn(Claimed, Cardinality(R)) THEN "flushing" ELSE "exited"
    /\ UNCHANGED vars

\* The flush's budget runs out, or the database fails it: its transaction rolls
\* back.
FlushOverdue ==
    /\ "flush" \in Budgets
    /\ phase = "flushing"
    /\ phase' = "exited"
    /\ cutOff' = cutOff \cup {"flush"}
    /\ UNCHANGED <<vars, settled>>

Shutdown ==
    RequestsDrained \/ RequestsOverdue \/ StopRelay \/ Flush \/ FlushOverdue

ProcessNext ==
    \/ Accept
    \/ \E h \in Handlers : Serve(h)
    \/ \E o \in Orders : Work(o)
    \/ Signal
    \/ Shutdown

ProcessSpec == ProcessInit /\ [][ProcessNext]_allVars

\* Requests, workers and main take their next step.  No signal has to come.
ProcessFairness ==
    /\ \A h \in Handlers : WF_allVars(Serve(h))
    /\ \A o \in Orders : WF_allVars(Work(o))
    /\ WF_allVars(Shutdown)

FairProcessSpec == ProcessSpec /\ ProcessFairness

------------------------------------------------------------------------------
(* Properties *)

Exited == phase = "exited"

\* The comment over the shutdown: the relay's "final flush publishes everything
\* steps 1 and 2 just committed".  When no budget has run out no row is left
\* PENDING: a burst of several batches is flushed to its end.  Only where publishing
\* can fail may a row then be missing from the topic: it was retired, its attempts used
\* up at earlier polls, and waits for RequeueFailed.
NothingLeftBehind == Exited /\ cutOff = {} => Rows \subseteq settled

\* The exit cuts off a request or a worker only when the wait for requests has
\* given up; in particular no worker is started behind the drain otherwise.
OnlyLateRequestsAreCut ==
    Exited /\ (RequestsInFlight \/ WorkersInFlight) => "requests" \in cutOff

\* The shutdown never waits on work that waits on it: it ends, whatever was in
\* flight when it began.
ShutdownEnds == phase = "draining" ~> Exited

\* An order that was placed settles or is deleted, also when the process is told
\* to stop meanwhile, unless the shutdown gave up waiting for a request.
SettlesUnlessCutOff ==
    \A o \in Orders :
        Live(o) ~> \/ orders[o] \in Terminal \cup {"deleted"}
                   \/ "requests" \in cutOff
==============================================================================
