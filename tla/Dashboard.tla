------------------------------ MODULE Dashboard ------------------------------
(***************************************************************************)
(* The browser: the session useAuth keeps, and the hooks the dashboard     *)
(* mounts while somebody is signed in.  useOrders and usePortfolio fetch    *)
(* on mount, on a timer and on demand; useOrders also writes.              *)
(*                                                                         *)
(* The page runs one piece of code at a time: an action is what runs        *)
(* between two awaits.  The gateway reads or changes its orders at some     *)
(* moment between a request and its answer.  An aborted fetch is gone: its  *)
(* answer is never looked at.                                               *)
(***************************************************************************)
EXTENDS Naturals, FiniteSets

CONSTANTS
    MaxSessions,  \* bound: logins
    MaxWrites     \* bound: changes of the gateway's orders

ASSUME DashboardAssumption == MaxSessions \in Nat /\ MaxWrites \in Nat

Views == {"orders", "portfolio"}
WriteKinds == {"place", "cancel"}
Sessions == 1..MaxSessions
Versions == 0..MaxWrites
NoSession == 0

\* An answer: not there yet; the orders as of some version, for a fetch the
\* version read and for a write the one it made; 401; 404; any other failure.
Waiting == [kind |-> "waiting", version |-> 0]
Unauthorized == [kind |-> "unauthorized", version |-> 0]
NotFound == [kind |-> "gone", version |-> 0]
Failure == [kind |-> "failure", version |-> 0]
Success(n) == [kind |-> "ok", version |-> n]
Answers == {Waiting, Unauthorized, NotFound, Failure}
             \cup {Success(n) : n \in Versions}

Nothing == [token |-> NoSession, version |-> 0]

VARIABLES
    token,     \* the session signed in; tokenStore holds the same
    sessions,  \* logins so far
    valid,     \* the tokens the gateway accepts
    book,      \* how often the gateway's orders have changed
    fetches,   \* the reads in flight: view, mount, token sent, answer
    writes,    \* the writes in flight: kind, mount, token sent, answer
    shown,     \* per view, what is on screen: the session it was read for
    error,     \* the banner over the orders
    newest,    \* history: per view, the newest version this session has seen
    acked      \* history: the newest write this session was told went through

vars == <<token, sessions, valid, book, fetches, writes, shown, error,
          newest, acked>>
serverVars == <<valid, book>>

Fetch(v, mount) == [view |-> v, mount |-> mount, token |-> token,
                    answer |-> Waiting]

Init ==
    /\ token = NoSession
    /\ sessions = 0
    /\ valid = {}
    /\ book = 0
    /\ fetches = {}
    /\ writes = {}
    /\ shown = [v \in Views |-> Nothing]
    /\ error = "none"
    /\ newest = [v \in Views |-> 0]
    /\ acked = 0

SignedIn == token # NoSession

\* Whether the component that sent r is still on the page.
Mounted(r) == r.mount = token

------------------------------------------------------------------------------
(* The session *)

\* startSession: token and profile are stored, the dashboard mounts, and its
\* hooks fetch at once.
Login ==
    /\ ~SignedIn
    /\ sessions < MaxSessions
    /\ sessions' = sessions + 1
    /\ token' = sessions + 1
    /\ valid' = valid \cup {sessions + 1}
    /\ fetches' = fetches \cup
         {[Fetch(v, sessions + 1) EXCEPT !.token = sessions + 1] : v \in Views}
    /\ UNCHANGED <<book, writes, shown, error, newest, acked>>

\* A bug: what the hooks hold outlives the session.
EndSessionKeepingState ==
    /\ token' = NoSession
    /\ UNCHANGED <<shown, error, newest, acked>>

\* useAuth.logout: the session gate unmounts the dashboard, and the hooks' state
\* goes with it.
EndSession ==
    /\ token' = NoSession
    /\ shown' = [v \in Views |-> Nothing]
    /\ error' = "none"
    /\ newest' = [v \in Views |-> 0]
    /\ acked' = 0

\* The clean-up of the polling effects: this page's fetches are aborted.
Unmounted(F) == {f \in F : ~Mounted(f)}

Logout ==
    /\ SignedIn
    /\ EndSession
    /\ fetches' = Unmounted(fetches)
    /\ UNCHANGED <<sessions, serverVars, writes>>

\* The token's expiry passes.
Expire ==
    /\ SignedIn
    /\ valid' = valid \ {token}
    /\ valid' # valid
    /\ UNCHANGED <<token, sessions, book, fetches, writes, shown, error, newest,
                   acked>>

------------------------------------------------------------------------------
(* Reading *)

\* A bug: the fetch under way is not aborted.
StartedBeside(F, v, mount) == F \cup {Fetch(v, mount)}

\* refresh: the hook's fetch under way is aborted, and a new one is sent with
\* whatever token is stored now.
Started(F, v, mount) ==
    {f \in F : f.view # v \/ f.mount # mount} \cup {Fetch(v, mount)}

\* The timer, or the refresh button.
Refresh(v) ==
    /\ SignedIn
    /\ fetches' = Started(fetches, v, token)
    /\ UNCHANGED <<token, sessions, serverVars, writes, shown, error, newest,
                   acked>>

Answered(f, a) == fetches' = (fetches \ {f}) \cup {[f EXCEPT !.answer = a]}

\* The gateway accepts the token and the orders are read.
AnswerList(f) ==
    /\ f.answer = Waiting
    /\ f.token \in valid
    /\ Answered(f, Success(book))
    /\ UNCHANGED <<token, sessions, serverVars, writes, shown, error, newest,
                   acked>>

AnswerUnauthorized(f) ==
    /\ f.answer = Waiting
    /\ f.token \notin valid
    /\ Answered(f, Unauthorized)
    /\ UNCHANGED <<token, sessions, serverVars, writes, shown, error, newest,
                   acked>>

\* A network failure, a 429, an upstream that is down.
AnswerFailure(f) ==
    /\ f.answer = Waiting
    /\ Answered(f, Failure)
    /\ UNCHANGED <<token, sessions, serverVars, writes, shown, error, newest,
                   acked>>

Keep(f) == fetches' = fetches \ {f}

\* What a list on screen replaces; on an unmounted page nothing happens.
Show(f) ==
    /\ f.answer.kind = "ok"
    /\ Keep(f)
    /\ IF Mounted(f)
       THEN /\ shown' = [shown EXCEPT ![f.view] =
                   [token |-> f.token, version |-> f.answer.version]]
            /\ newest' = [newest EXCEPT ![f.view] =
                   IF f.answer.version > @ THEN f.answer.version ELSE @]
            /\ error' = IF f.view = "orders" THEN "none" ELSE error
       ELSE UNCHANGED <<shown, newest, error>>
    /\ UNCHANGED <<token, sessions, serverVars, writes, acked>>

\* A bug: any failure to read ends the session.
FailureEndsSession(f) ==
    /\ f.answer = Failure
    /\ EndSession
    /\ fetches' = Unmounted(fetches \ {f})
    /\ UNCHANGED <<sessions, serverVars, writes>>

\* A failed read leaves the orders on screen under a banner, and clears the
\* portfolio.
ShowFailure(f) ==
    /\ f.answer = Failure
    /\ Keep(f)
    /\ IF ~Mounted(f) THEN UNCHANGED <<shown, error>>
       ELSE IF f.view = "orders"
       THEN error' = "shown" /\ UNCHANGED shown
       ELSE shown' = [shown EXCEPT ![f.view] = Nothing] /\ UNCHANGED error
    /\ UNCHANGED <<token, sessions, serverVars, writes, newest, acked>>

\* A bug: a 401 is shown as any other failure.
UnauthorizedShown(f) ==
    /\ f.answer = Unauthorized
    /\ Keep(f)
    /\ error' = "shown"
    /\ UNCHANGED <<token, sessions, serverVars, writes, shown, newest, acked>>

\* onUnauthorized: a 401 ends the session that is signed in, whichever session
\* the request belonged to.
FetchUnauthorized(f) ==
    /\ f.answer = Unauthorized
    /\ EndSession
    /\ fetches' = Unmounted(fetches \ {f})
    /\ UNCHANGED <<sessions, serverVars, writes>>

Deliver(f) == Show(f) \/ ShowFailure(f) \/ FetchUnauthorized(f)

\* An order moves on by itself, or by another page's hand.
Advance ==
    /\ book + Cardinality(writes) < MaxWrites
    /\ book' = book + 1
    /\ UNCHANGED <<token, sessions, valid, fetches, writes, shown, error, newest,
                   acked>>

------------------------------------------------------------------------------
(* Writing: placeOrder, cancelOrder, and updateStatus, which differs from       *)
(* placeOrder only in its request.  A write is never aborted.                    *)

Submit(kind) ==
    /\ SignedIn
    /\ book + Cardinality(writes) < MaxWrites
    /\ writes' = writes \cup
         {[kind |-> kind, mount |-> token, token |-> token, answer |-> Waiting]}
    /\ writes' # writes
    /\ UNCHANGED <<token, sessions, serverVars, fetches, shown, error, newest,
                   acked>>

WriteAnswered(w, a) == writes' = (writes \ {w}) \cup {[w EXCEPT !.answer = a]}

\* The gateway makes the change; the answer may be lost on its way.
Apply(w) ==
    /\ w.answer = Waiting
    /\ w.token \in valid
    /\ book' = book + 1
    /\ WriteAnswered(w, Success(book + 1)) \/ WriteAnswered(w, Failure)
    /\ UNCHANGED <<token, sessions, valid, fetches, shown, error, newest, acked>>

\* It does not: a refusal, an order that is not there, no connection, or 401.
Decline(w) ==
    /\ w.answer = Waiting
    /\ \/ WriteAnswered(w, Failure)
       \/ w.token \in valid /\ WriteAnswered(w, NotFound)
       \/ w.token \notin valid /\ WriteAnswered(w, Unauthorized)
    /\ UNCHANGED <<token, sessions, serverVars, fetches, shown, error, newest,
                   acked>>

Settled(w) == writes' = writes \ {w}

\* A bug: the write is reported before the orders are read again.
ConfirmOnly(w) ==
    /\ w.answer.kind = "ok"
    /\ Settled(w)
    /\ IF Mounted(w)
       THEN error' = "none" /\ acked' = w.answer.version
       ELSE UNCHANGED <<error, acked>>
    /\ UNCHANGED <<token, sessions, serverVars, fetches, shown, newest>>

\* The write went through: the banner goes and the orders are read again.
Confirm(w) ==
    /\ w.answer.kind = "ok"
    /\ Settled(w)
    /\ fetches' = Started(fetches, "orders", w.mount)
    /\ IF Mounted(w)
       THEN /\ error' = "none"
            /\ acked' = IF w.answer.version > acked THEN w.answer.version
                        ELSE acked
       ELSE UNCHANGED <<error, acked>>
    /\ UNCHANGED <<token, sessions, serverVars, shown, newest>>

\* cancelOrder takes 404 for success.
ConfirmGone(w) ==
    /\ w.kind = "cancel"
    /\ w.answer = NotFound
    /\ Settled(w)
    /\ fetches' = Started(fetches, "orders", w.mount)
    /\ UNCHANGED <<token, sessions, serverVars, shown, error, newest, acked>>

ReportFailure(w) ==
    /\ w.answer = Failure \/ (w.answer = NotFound /\ w.kind # "cancel")
    /\ Settled(w)
    /\ error' = IF Mounted(w) THEN "shown" ELSE error
    /\ UNCHANGED <<token, sessions, serverVars, fetches, shown, newest, acked>>

WriteUnauthorized(w) ==
    /\ w.answer = Unauthorized
    /\ Settled(w)
    /\ EndSession
    /\ fetches' = Unmounted(fetches)
    /\ UNCHANGED <<sessions, serverVars>>

\* clearError.
Dismiss ==
    /\ error = "shown"
    /\ error' = "dismissed"
    /\ UNCHANGED <<token, sessions, serverVars, fetches, writes, shown, newest,
                   acked>>

------------------------------------------------------------------------------
Answer(f) == AnswerList(f) \/ AnswerUnauthorized(f) \/ AnswerFailure(f)

Settle(w) ==
    Confirm(w) \/ ConfirmGone(w) \/ ReportFailure(w) \/ WriteUnauthorized(w)

Next ==
    \/ Login \/ Logout \/ Expire \/ Dismiss \/ Advance
    \/ \E v \in Views : Refresh(v)
    \/ \E f \in fetches : Answer(f) \/ Deliver(f)
    \/ \E kind \in WriteKinds : Submit(kind)
    \/ \E w \in writes : Apply(w) \/ Decline(w) \/ Settle(w)

Spec == Init /\ [][Next]_vars

OrdersFetch(f) == f.view = "orders" /\ Mounted(f)

\* The timer goes on.  A poll aborts the fetch before it, so what is assumed is
\* that again and again the gateway refuses an expired token, and the page gets
\* to see it, before the next poll.
Fairness ==
    /\ WF_vars(Refresh("orders"))
    /\ SF_vars(\E f \in fetches : OrdersFetch(f) /\ AnswerUnauthorized(f))
    /\ SF_vars(\E f \in fetches : OrdersFetch(f) /\ FetchUnauthorized(f))

FairSpec == Spec /\ Fairness

------------------------------------------------------------------------------
(* Properties *)

Banner == {"none", "shown", "dismissed"}

TypeOK ==
    /\ token \in {NoSession} \cup Sessions
    /\ sessions \in 0..MaxSessions
    /\ valid \subseteq Sessions
    /\ book \in Versions
    /\ fetches \subseteq [view : Views, mount : Sessions,
                          token : {NoSession} \cup Sessions, answer : Answers]
    /\ \A f, g \in fetches : f.view = g.view /\ f.mount = g.mount => f = g
    /\ writes \subseteq [kind : WriteKinds, mount : Sessions, token : Sessions,
                         answer : Answers]
    /\ shown \in [Views -> [token : {NoSession} \cup Sessions,
                            version : Versions]]
    /\ error \in Banner
    /\ newest \in [Views -> Versions]
    /\ acked \in Versions

\* "Signing out must not leave the previous session's orders on screen": what is
\* on screen was read with the token of the session that is signed in, although
\* answers to requests of earlier sessions keep arriving.
OnlyOwnData ==
    \A v \in Views : shown[v] # Nothing => SignedIn /\ shown[v].token = token

\* useOrders: "a slow response can never overwrite fresher state".  However
\* polls, refreshes and the reads after a write overlap, what is on screen is
\* the newest version this session has seen.
FreshestShown ==
    \A v \in Views : shown[v] # Nothing => shown[v].version = newest[v]

\* Once a write was reported as done, the orders on screen include it, or a read
\* that will include it is under way, or there is, or was, a banner saying that
\* the read failed.
ReadsOwnWrites ==
    \/ acked = 0
    \/ shown["orders"].version >= acked
    \/ error # "none"
    \/ \E f \in fetches :
           /\ OrdersFetch(f)
           /\ f.answer.kind = "ok" => f.answer.version >= acked

\* A session the gateway still accepts ends only by its user's hand, or by the
\* one way the code leaves open: the 401 that answers a request of an earlier
\* session.
SessionEndsForCause ==
    [][(token \in valid /\ token' # token) =>
          \/ Logout
          \/ \E r \in (fetches \cup writes) \ (fetches' \cup writes') :
                 ~Mounted(r) /\ r.answer = Unauthorized]_vars

\* useAuth: "a 401 anywhere can clear the session": a page whose token has
\* expired does not stay signed in.
ExpiredSessionEnds ==
    \A s \in Sessions : (token = s /\ s \notin valid) ~> token # s
==============================================================================
