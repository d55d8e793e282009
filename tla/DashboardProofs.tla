--------------------------- MODULE DashboardProofs ---------------------------
(***************************************************************************)
(* What the dashboard guarantees for any number of sessions and writes,    *)
(* however polls, refreshes, writes and sign-outs overlap.                  *)
(*                                                                         *)
(* Everything on screen comes out of an answer, so the invariant says what *)
(* each request in flight may still bring (FetchOK, WriteOK): whose it is,  *)
(* and at least how new.  A fetch that belongs to the page carries the      *)
(* page's own token and nothing older than what the page has seen or was   *)
(* told; one of an earlier page has lost its place for good, as sessions    *)
(* are never reused.                                                       *)
(***************************************************************************)
EXTENDS Dashboard, FiniteSetTheorems, TLAPS

FetchType == [view : Views, mount : Sessions, token : {NoSession} \cup Sessions,
              answer : Answers]
WriteType == [kind : WriteKinds, mount : Sessions, token : Sessions,
              answer : Answers]

Scalars ==
    /\ token \in {NoSession} \cup Sessions /\ sessions \in 0..MaxSessions
    /\ token <= sessions
    /\ valid \subseteq 1..sessions
    /\ book \in Versions
    /\ shown \in [Views -> [token : {NoSession} \cup Sessions, version : Versions]]
    /\ error \in Banner
    /\ newest \in [Views -> 0..book]
    /\ acked \in 0..book

FetchOK(f) ==
    /\ f \in FetchType
    /\ f.mount <= sessions /\ f.token <= sessions
    /\ Mounted(f) => f.token = token
    /\ f.answer = Unauthorized => f.token \notin valid
    /\ f.answer.kind = "ok" =>
           /\ f.answer.version <= book
           /\ Mounted(f) => f.answer.version >= newest[f.view]
           /\ OrdersFetch(f) => f.answer.version >= acked

\* A hook has one fetch under way at a time.
OnePerHook ==
    \A f, g \in fetches : f.view = g.view /\ f.mount = g.mount => f = g

WriteOK(w) ==
    /\ w \in WriteType
    /\ w.mount <= sessions /\ w.token = w.mount
    /\ w.answer = Unauthorized => w.token \notin valid
    /\ w.answer.kind = "ok" => w.answer.version <= book

Undecided == {w \in writes : w.answer = Waiting}

\* The writes the gateway has yet to answer are within the bound on its changes.
WritesBounded ==
    /\ IsFiniteSet(writes)
    /\ book + Cardinality(Undecided) <= MaxWrites

Screen == OnlyOwnData /\ FreshestShown /\ ReadsOwnWrites

Inv ==
    /\ Scalars
    /\ \A f \in fetches : FetchOK(f)
    /\ OnePerHook
    /\ \A w \in writes : WriteOK(w)
    /\ WritesBounded
    /\ Screen

------------------------------------------------------------------------------
(* Answers *)

LEMMA AnswerKinds ==
  /\ Waiting \in Answers /\ Unauthorized \in Answers /\ NotFound \in Answers
  /\ Failure \in Answers
  /\ Waiting.kind # "ok" /\ Unauthorized.kind # "ok" /\ NotFound.kind # "ok"
  /\ Failure.kind # "ok"
  /\ Waiting # Unauthorized /\ Waiting # NotFound /\ Waiting # Failure
  /\ Unauthorized # NotFound /\ Unauthorized # Failure
  BY DEF Answers, Waiting, Unauthorized, NotFound, Failure

LEMMA SuccessKind ==
  ASSUME NEW n \in Versions
  PROVE  /\ Success(n) \in Answers
         /\ Success(n).kind = "ok" /\ Success(n).version = n
         /\ Success(n) # Waiting /\ Success(n) # Unauthorized
  BY DEF Answers, Success, Waiting, Unauthorized

LEMMA AnswerVersion ==
  ASSUME NEW a \in Answers PROVE a.version \in Versions
  BY DashboardAssumption DEF Answers, Success, Waiting, Unauthorized, NotFound, Failure,
     Versions

LEMMA InvInit == Init => Inv
  <1>1. Init => WritesBounded
    BY FS_EmptySet, DashboardAssumption DEF Init, WritesBounded, Undecided
  <1>. QED
    BY <1>1, DashboardAssumption
       DEF Init, Inv, Scalars, OnePerHook, Screen, OnlyOwnData, FreshestShown,
           ReadsOwnWrites, NoSession, Versions, Banner, Nothing, Views, Sessions

------------------------------------------------------------------------------
(* The bound on the gateway's changes *)

LEMMA AnsweredIsDecided ==
  ASSUME Inv, NEW w \in writes, w.answer = Waiting, NEW a \in Answers, a # Waiting,
         WriteAnswered(w, a)
  PROVE  /\ IsFiniteSet(writes')
         /\ Cardinality(Undecided') = Cardinality(Undecided) - 1
         /\ Cardinality(Undecided) \in Nat
  <1>. DEFINE v == [w EXCEPT !.answer = a]
  <1>1. v.answer = a /\ writes' = (writes \ {w}) \cup {v}
    BY DEF WriteAnswered, Inv, WriteOK, WriteType
  <1>. HIDE DEF v
  <1>2. Undecided' = Undecided \ {w} /\ w \in Undecided
    BY <1>1 DEF Undecided
  <1>3. IsFiniteSet(writes) /\ IsFiniteSet(Undecided)
    BY FS_Subset DEF Inv, WritesBounded, Undecided
  <1>. QED
    BY <1>1, <1>2, <1>3, FS_RemoveElement, FS_AddElement, FS_CardinalityType

LEMMA BoundNext == Inv /\ [Next]_vars => WritesBounded'
  <1>. SUFFICES ASSUME Inv, [Next]_vars PROVE WritesBounded'
    OBVIOUS
  <1>1. /\ IsFiniteSet(writes) /\ IsFiniteSet(Undecided)
        /\ Cardinality(writes) \in Nat /\ Cardinality(Undecided) \in Nat
        /\ Cardinality(Undecided) <= Cardinality(writes)
        /\ book \in Nat /\ MaxWrites \in Nat
        /\ book + Cardinality(Undecided) <= MaxWrites
    BY FS_Subset, FS_CardinalityType, DashboardAssumption
       DEF Inv, WritesBounded, Undecided, Scalars, Versions
  <1>2. CASE UNCHANGED <<writes, book>>
    BY <1>2 DEF Inv, WritesBounded, Undecided
  <1>3. CASE Advance
    BY <1>1, <1>3 DEF Advance, WritesBounded, Undecided
  <1>4. ASSUME NEW kind \in WriteKinds, Submit(kind) PROVE WritesBounded'
    <2>. DEFINE w == [kind |-> kind, mount |-> token, token |-> token, answer |-> Waiting]
    <2>1. writes' = writes \cup {w} /\ book' = book /\ w.answer = Waiting
      BY <1>4 DEF Submit, serverVars
    <2>. HIDE DEF w
    <2>2. Undecided' = Undecided \cup {w}
      BY <2>1 DEF Undecided
    <2>3. Cardinality(Undecided') <= Cardinality(Undecided) + 1
      <3>1. \/ Cardinality(Undecided') = Cardinality(Undecided)
            \/ Cardinality(Undecided') = Cardinality(Undecided) + 1
        BY <1>1, <2>2, FS_AddElement
      <3>. QED
        BY <1>1, <3>1
    <2>4. Cardinality(Undecided') \in Nat
      BY <1>1, <2>2, FS_AddElement, FS_CardinalityType
    <2>5. book + Cardinality(writes) < MaxWrites
      BY <1>4 DEF Submit
    <2>6. IsFiniteSet(writes')
      BY <1>1, <2>1, FS_AddElement
    <2>. QED
      BY <1>1, <2>1, <2>3, <2>4, <2>5, <2>6 DEF WritesBounded
  <1>5. ASSUME NEW w \in writes, Apply(w) PROVE WritesBounded'
    <2>1. w.answer = Waiting /\ book' = book + 1 /\ book + 1 \in Versions
      <3>1. w \in Undecided
        BY <1>5 DEF Apply, Undecided
      <3>2. Cardinality(Undecided) # 0
        BY <1>1, <3>1, FS_EmptySet
      <3>. QED
        BY <1>1, <1>5, <3>2 DEF Apply, Versions
    <2>2. PICK a \in {Success(book + 1), Failure} : WriteAnswered(w, a)
      BY <1>5 DEF Apply
    <2>3. a \in Answers /\ a # Waiting
      BY <2>1, AnswerKinds, SuccessKind
    <2>. QED
      BY <1>1, <2>1, <2>2, <2>3, AnsweredIsDecided DEF WritesBounded
  <1>6. ASSUME NEW w \in writes, Decline(w) PROVE WritesBounded'
    <2>1. PICK a \in {Failure, NotFound, Unauthorized} : WriteAnswered(w, a)
      BY <1>6 DEF Decline
    <2>2. a \in Answers /\ a # Waiting
      BY AnswerKinds
    <2>3. w.answer = Waiting /\ book' = book
      BY <1>6 DEF Decline, serverVars
    <2>. QED
      BY <1>1, <2>1, <2>2, <2>3, AnsweredIsDecided DEF WritesBounded
  <1>7. ASSUME NEW w \in writes, Settle(w) PROVE WritesBounded'
    <2>1. writes' = writes \ {w} /\ book' = book
      BY <1>7 DEF Settle, Confirm, ConfirmGone, ReportFailure, WriteUnauthorized,
                  Settled, serverVars
    <2>2. Undecided' \in SUBSET Undecided
      BY <2>1 DEF Undecided
    <2>3. Cardinality(Undecided') <= Cardinality(Undecided) /\ IsFiniteSet(writes')
          /\ Cardinality(Undecided') \in Nat
      BY <1>1, <2>1, <2>2, FS_Subset, FS_RemoveElement, FS_CardinalityType
    <2>. QED
      BY <1>1, <2>1, <2>3 DEF WritesBounded
  <1>. QED
    BY <1>2, <1>3, <1>4, <1>5, <1>6, <1>7
       DEF Next, vars, Login, Logout, Expire, Dismiss, Refresh, Answer, AnswerList,
           AnswerUnauthorized, AnswerFailure, Deliver, Show, ShowFailure,
           FetchUnauthorized, serverVars

------------------------------------------------------------------------------
(* What the requests in flight may still bring *)

\* A step that leaves the session and what it has seen alone.
SameSession ==
    /\ token' = token /\ sessions' = sessions
    /\ newest' = newest /\ acked' = acked
    /\ valid' \subseteq valid
    /\ book' \in {book, book + 1}

LEMMA KeptInSession ==
  ASSUME Inv, SameSession
  PROVE  /\ \A f : FetchOK(f) => FetchOK(f)'
         /\ \A w : WriteOK(w) => WriteOK(w)'
  <1>1. book \in Nat /\ book <= book'
    BY DEF Inv, Scalars, Versions, SameSession
  <1>2. ASSUME NEW a \in Answers, a.version <= book PROVE a.version <= book'
    BY <1>1, <1>2, AnswerVersion DEF Versions, SameSession
  <1>. QED
    BY <1>2 DEF SameSession, FetchOK, WriteOK, Mounted, OrdersFetch, FetchType, WriteType

\* A new session: no earlier request is the new page's.
LEMMA KeptByLogin ==
  ASSUME Inv, Login
  PROVE  /\ \A f : FetchOK(f) => FetchOK(f)'
         /\ \A w : WriteOK(w) => WriteOK(w)'
  <1>1. /\ token' = sessions + 1 /\ sessions' = sessions + 1
        /\ valid' = valid \cup {sessions + 1}
        /\ sessions \in Nat /\ book' = book
    BY DashboardAssumption DEF Login, Inv, Scalars
  <1>2. \A n \in {NoSession} \cup Sessions :
            n <= sessions => n <= sessions' /\ n # token' /\ n # sessions + 1
    BY <1>1, DashboardAssumption DEF Sessions, NoSession
  <1>. QED
    BY <1>1, <1>2 DEF FetchOK, WriteOK, Mounted, OrdersFetch, FetchType, WriteType

\* The session has ended: no request is the page's.
LEMMA KeptByEnd ==
  ASSUME Inv, EndSession, UNCHANGED <<sessions, serverVars>>
  PROVE  /\ \A f : FetchOK(f) => FetchOK(f)'
         /\ \A w : WriteOK(w) => WriteOK(w)'
  <1>1. \A n \in Sessions : n # NoSession
    BY DashboardAssumption DEF Sessions, NoSession
  <1>. QED
    BY <1>1 DEF EndSession, serverVars, FetchOK, WriteOK, Mounted, OrdersFetch,
                FetchType, WriteType

\* A fetch that is sent.
LEMMA FetchSent ==
  ASSUME Inv, NEW v \in Views, NEW mount \in Sessions, mount <= sessions
  PROVE  FetchOK(Fetch(v, mount))
  BY AnswerKinds DEF Inv, Scalars, FetchOK, Fetch, FetchType, Mounted

\* A fetch that is answered: with a list as new as the book, or with none.
LEMMA FetchAnswered ==
  ASSUME Inv, NEW f \in fetches, NEW a \in Answers,
         a = Unauthorized => f.token \notin valid,
         a.kind = "ok" => a.version = book
  PROVE  LET g == [f EXCEPT !.answer = a]
         IN  /\ FetchOK(g) /\ g.view = f.view /\ g.mount = f.mount
  <1>1. FetchOK(f)
    BY DEF Inv
  <1>2. newest[f.view] <= book /\ acked <= book /\ book <= book
    BY <1>1 DEF Inv, Scalars, FetchOK, FetchType, Versions
  <1>. QED
    BY <1>1, <1>2 DEF FetchOK, FetchType, Mounted, OrdersFetch

\* Started aborts what it replaces.
LEMMA StartedOne ==
  ASSUME OnePerHook, NEW v, NEW mount, fetches' = Started(fetches, v, mount)
  PROVE  OnePerHook'
  BY DEF OnePerHook, Started, Fetch

FetchesInv == OnePerHook /\ \A f \in fetches : FetchOK(f)

LEMMA FetchesNext == Inv /\ [Next]_vars => FetchesInv'
  <1>. SUFFICES ASSUME Inv, [Next]_vars PROVE FetchesInv'
    OBVIOUS
  <1>0. token \in Sessions => token <= sessions
    BY DEF Inv, Scalars
  <1>1. ASSUME SameSession, fetches' \subseteq fetches PROVE FetchesInv'
    BY <1>1, KeptInSession DEF FetchesInv, OnePerHook, Inv
  <1>2. ASSUME SameSession, NEW v \in Views, NEW mount \in Sessions, mount <= sessions,
               fetches' = Started(fetches, v, mount)
        PROVE  FetchesInv'
    <2>1. ASSUME NEW f, f = Fetch(v, mount) PROVE FetchOK(f)'
      BY <1>2, <2>1, FetchSent, KeptInSession
    <2>2. \A f \in fetches' : f \in fetches \/ f = Fetch(v, mount)
      BY <1>2 DEF Started
    <2>. QED
      BY <1>2, <2>1, <2>2, KeptInSession, StartedOne DEF FetchesInv, Inv
  <1>3. ASSUME SameSession, NEW f \in fetches, NEW a \in Answers, Answered(f, a),
               a = Unauthorized => f.token \notin valid,
               a.kind = "ok" => a.version = book
        PROVE  FetchesInv'
    <2>. DEFINE g == [f EXCEPT !.answer = a]
    <2>1. FetchOK(g) /\ g.view = f.view /\ g.mount = f.mount
      BY <1>3, FetchAnswered
    <2>2. fetches' = (fetches \ {f}) \cup {g}
      BY <1>3 DEF Answered
    <2>. HIDE DEF g
    <2>3. OnePerHook'
      BY <2>1, <2>2 DEF OnePerHook, Inv
    <2>. QED
      BY <1>3, <2>1, <2>2, <2>3, KeptInSession DEF FetchesInv, Inv
  <1>4. ASSUME EndSession, UNCHANGED <<sessions, serverVars>>, fetches' \subseteq fetches
        PROVE  FetchesInv'
    BY <1>4, KeptByEnd DEF FetchesInv, OnePerHook, Inv
  <1>5. CASE Login
    <2>1. /\ sessions' = sessions + 1 /\ sessions' \in Sessions /\ token' = sessions'
          /\ fetches' = fetches \cup
               {[Fetch(v, sessions') EXCEPT !.token = sessions'] : v \in Views}
      BY <1>5, DashboardAssumption DEF Login, Inv, Scalars, Sessions
    <2>2. ASSUME NEW v \in Views, NEW f,
                 f = [Fetch(v, sessions') EXCEPT !.token = sessions']
          PROVE  FetchOK(f)' /\ f.view = v /\ f.mount = sessions'
      <3>1. f = [view |-> v, mount |-> sessions', token |-> sessions', answer |-> Waiting]
        BY <2>2 DEF Fetch
      <3>. QED
        BY <2>1, <3>1, AnswerKinds
           DEF FetchOK, FetchType, Mounted, Sessions
    <2>3. \A f \in fetches : f.mount # sessions'
      BY <2>1, DashboardAssumption DEF Inv, Scalars, FetchOK, FetchType, Sessions
    <2>4. OnePerHook'
      BY <2>1, <2>2, <2>3 DEF OnePerHook, Inv
    <2>. QED
      BY <1>5, <2>1, <2>2, <2>4, KeptByLogin DEF FetchesInv, Inv
  <1>6. ASSUME NEW f \in fetches, Show(f), Mounted(f) PROVE FetchesInv'
    <2>1. /\ fetches' = fetches \ {f}
          /\ token' = token /\ sessions' = sessions /\ valid' = valid /\ book' = book
          /\ acked' = acked
          /\ \A v \in Views \ {f.view} : newest'[v] = newest[v]
      BY <1>6 DEF Show, Keep, serverVars, Inv, Scalars
    <2>2. ASSUME NEW g \in fetches' PROVE FetchOK(g)'
      <3>1. FetchOK(g) /\ g # f
        BY <2>1 DEF Inv
      <3>2. Mounted(g) => g.view # f.view
        BY <1>6, <2>1, <3>1 DEF Inv, OnePerHook, Mounted
      <3>. QED
        BY <2>1, <3>1, <3>2 DEF FetchOK, FetchType, Mounted, OrdersFetch
    <2>. QED
      BY <2>1, <2>2 DEF FetchesInv, OnePerHook, Inv
  <1>7. ASSUME NEW w \in writes, Confirm(w), Mounted(w) PROVE FetchesInv'
    <2>1. /\ fetches' = Started(fetches, "orders", w.mount)
          /\ token' = token /\ sessions' = sessions /\ valid' = valid /\ book' = book
          /\ newest' = newest /\ w.mount = token /\ token \in Sessions
      BY <1>7 DEF Confirm, serverVars, Mounted, Inv, WriteOK, WriteType
    <2>2. ASSUME NEW g, g = Fetch("orders", w.mount) PROVE FetchOK(g)'
      BY <2>1, <2>2, <1>0, AnswerKinds DEF FetchOK, Fetch, FetchType, Mounted, Views
    <2>3. ASSUME NEW g \in fetches, g.view # "orders" \/ g.mount # w.mount
          PROVE  FetchOK(g)'
      BY <2>1, <2>3 DEF Inv, FetchOK, Mounted, OrdersFetch
    <2>4. OnePerHook'
      BY <2>1, StartedOne DEF Inv
    <2>. QED
      BY <2>1, <2>2, <2>3, <2>4 DEF FetchesInv, Started
  <1>8. CASE UNCHANGED vars \/ Expire \/ Dismiss \/ Advance
    <2>1. SameSession /\ fetches' = fetches
      BY <1>8 DEF vars, Expire, Dismiss, Advance, SameSession, serverVars
    <2>. QED
      BY <2>1, <1>1
  <1>9. CASE Logout
    BY <1>9, <1>4 DEF Logout, Unmounted
  <1>10. ASSUME NEW v \in Views, Refresh(v) PROVE FetchesInv'
    <2>1. SameSession /\ fetches' = Started(fetches, v, token) /\ token \in Sessions
      BY <1>10 DEF Refresh, SameSession, serverVars, SignedIn, Inv, Scalars
    <2>. QED
      BY <2>1, <1>0, <1>2
  <1>11. ASSUME NEW f \in fetches, Answer(f) PROVE FetchesInv'
    <2>1. SameSession
      BY <1>11 DEF Answer, AnswerList, AnswerUnauthorized, AnswerFailure, SameSession,
                   serverVars
    <2>2. CASE AnswerList(f)
      BY <2>1, <2>2, <1>3, SuccessKind DEF AnswerList, Inv, Scalars
    <2>3. CASE AnswerUnauthorized(f) \/ AnswerFailure(f)
      BY <2>1, <2>3, <1>3, AnswerKinds DEF AnswerUnauthorized, AnswerFailure
    <2>. QED
      BY <1>11, <2>2, <2>3 DEF Answer
  <1>12. ASSUME NEW f \in fetches, Deliver(f) PROVE FetchesInv'
    <2>1. CASE Show(f) /\ ~Mounted(f)
      BY <2>1, <1>1 DEF Show, Keep, SameSession, serverVars
    <2>2. CASE ShowFailure(f)
      BY <2>2, <1>1 DEF ShowFailure, Keep, SameSession, serverVars
    <2>3. CASE FetchUnauthorized(f)
      BY <2>3, <1>4 DEF FetchUnauthorized, Unmounted
    <2>. QED
      BY <1>12, <2>1, <2>2, <2>3, <1>6 DEF Deliver
  <1>13. ASSUME NEW kind \in WriteKinds, Submit(kind) PROVE FetchesInv'
    BY <1>13, <1>1 DEF Submit, SameSession, serverVars
  <1>14. ASSUME NEW w \in writes, Apply(w) \/ Decline(w) PROVE FetchesInv'
    BY <1>14, <1>1 DEF Apply, Decline, SameSession, serverVars
  <1>15. ASSUME NEW w \in writes, Settle(w) PROVE FetchesInv'
    <2>1. w.mount \in Sessions /\ w.mount <= sessions
      BY DEF Inv, WriteOK, WriteType
    <2>2. CASE Confirm(w) /\ ~Mounted(w)
      BY <2>1, <2>2, <1>2 DEF Confirm, SameSession, serverVars, Views
    <2>3. CASE ConfirmGone(w)
      BY <2>1, <2>3, <1>2 DEF ConfirmGone, SameSession, serverVars, Views
    <2>4. CASE ReportFailure(w)
      BY <2>4, <1>1 DEF ReportFailure, SameSession, serverVars
    <2>5. CASE WriteUnauthorized(w)
      BY <2>5, <1>4 DEF WriteUnauthorized, Unmounted
    <2>. QED
      BY <1>15, <2>2, <2>3, <2>4, <2>5, <1>7 DEF Settle
  <1>. QED
    BY <1>5, <1>8, <1>9, <1>10, <1>11, <1>12, <1>13, <1>14, <1>15 DEF Next

LEMMA WritesNext == Inv /\ [Next]_vars => \A w \in writes' : WriteOK(w)'
  <1>. SUFFICES ASSUME Inv, [Next]_vars PROVE \A w \in writes' : WriteOK(w)'
    OBVIOUS
  <1>1. CASE SameSession /\ writes' \subseteq writes
    BY <1>1, KeptInSession DEF Inv
  <1>2. CASE EndSession /\ UNCHANGED <<sessions, serverVars>> /\ writes' \subseteq writes
    BY <1>2, KeptByEnd DEF Inv
  <1>3. CASE Login
    BY <1>3, KeptByLogin DEF Login, Inv
  <1>4. ASSUME UNCHANGED <<token, sessions, serverVars>>, writes' \subseteq writes
        PROVE  \A w \in writes' : WriteOK(w)'
    BY <1>4 DEF Inv, WriteOK, serverVars
  <1>5. ASSUME NEW kind \in WriteKinds, Submit(kind) PROVE \A w \in writes' : WriteOK(w)'
    <2>. DEFINE w == [kind |-> kind, mount |-> token, token |-> token, answer |-> Waiting]
    <2>1. WriteOK(w) /\ SameSession
      BY <1>5, AnswerKinds
         DEF Submit, SignedIn, serverVars, SameSession, Inv, Scalars, WriteOK, WriteType
    <2>2. writes' = writes \cup {w}
      BY <1>5 DEF Submit
    <2>. HIDE DEF w
    <2>. QED
      BY <2>1, <2>2, KeptInSession DEF Inv
  <1>6. ASSUME NEW w \in writes, NEW a \in Answers, WriteAnswered(w, a), SameSession,
               a = Unauthorized => w.token \notin valid,
               a.kind = "ok" => a.version <= book'
        PROVE  \A x \in writes' : WriteOK(x)'
    <2>. DEFINE v == [w EXCEPT !.answer = a]
    <2>1. WriteOK(w)'
      BY <1>6, KeptInSession DEF Inv
    <2>2. v \in WriteType /\ v.mount = w.mount /\ v.token = w.token /\ v.answer = a
      BY <2>1 DEF WriteOK, WriteType
    <2>3. writes' = (writes \ {w}) \cup {v}
      BY <1>6 DEF WriteAnswered
    <2>. HIDE DEF v
    <2>4. WriteOK(v)'
      BY <1>6, <2>1, <2>2 DEF WriteOK, SameSession
    <2>. QED
      BY <1>6, <2>3, <2>4, KeptInSession DEF Inv
  <1>7. ASSUME NEW w \in writes, Apply(w) PROVE \A x \in writes' : WriteOK(x)'
    <2>1. SameSession /\ book' = book + 1 /\ book + 1 \in Versions
      <3>1. book' \in Versions
        BY BoundNext, FS_CardinalityType, <1>7, FS_Subset, DashboardAssumption
           DEF Apply, Inv, Scalars, WritesBounded, Undecided, Versions
      <3>. QED
        BY <1>7, <3>1 DEF Apply, SameSession
    <2>2. CASE WriteAnswered(w, Success(book + 1))
      BY <2>1, <2>2, <1>6, SuccessKind DEF Versions
    <2>3. CASE WriteAnswered(w, Failure)
      BY <2>1, <2>3, <1>6, AnswerKinds
    <2>. QED
      BY <1>7, <2>2, <2>3 DEF Apply
  <1>8. ASSUME NEW w \in writes, Decline(w) PROVE \A x \in writes' : WriteOK(x)'
    <2>1. SameSession
      BY <1>8 DEF Decline, SameSession, serverVars
    <2>. QED
      BY <1>8, <2>1, <1>6, AnswerKinds DEF Decline
  <1>9. ASSUME NEW w \in writes, Settle(w) PROVE \A x \in writes' : WriteOK(x)'
    BY <1>9, <1>2, <1>4 DEF Settle, Confirm, ConfirmGone, ReportFailure,
                            WriteUnauthorized, Settled
  <1>10. CASE UNCHANGED vars \/ Expire \/ Dismiss \/ Advance \/ \E v \in Views : Refresh(v)
    <2>1. SameSession /\ writes' = writes
      BY <1>10 DEF vars, Expire, Dismiss, Advance, Refresh, SameSession, serverVars
    <2>. QED
      BY <2>1, <1>1
  <1>11. CASE Logout
    BY <1>11, <1>2 DEF Logout
  <1>12. ASSUME NEW f \in fetches, Answer(f) \/ Deliver(f)
         PROVE  \A x \in writes' : WriteOK(x)'
    BY <1>12, <1>2, <1>4 DEF Answer, AnswerList, AnswerUnauthorized, AnswerFailure,
       Deliver, Show, ShowFailure, FetchUnauthorized
  <1>. QED
    BY <1>3, <1>5, <1>7, <1>8, <1>9, <1>10, <1>11, <1>12 DEF Next

------------------------------------------------------------------------------
(* The page *)

LEMMA ScalarsNext == Inv /\ [Next]_vars => Scalars'
  <1>. SUFFICES ASSUME Inv, [Next]_vars PROVE Scalars'
    OBVIOUS
  <1>0. book \in Nat /\ book \in Versions /\ sessions \in Nat /\ MaxWrites \in Nat
    BY DashboardAssumption DEF Inv, Scalars, Versions
  <1>1. ASSUME SameSession, book' \in Versions, shown' = shown, error' \in Banner
        PROVE  Scalars'
    <2>1. \A n \in 0..book : n \in 0..book'
      BY <1>0, <1>1 DEF SameSession
    <2>. QED
      BY <1>1, <2>1 DEF SameSession, Inv, Scalars
  <1>2. ASSUME EndSession, UNCHANGED <<sessions, serverVars>> PROVE Scalars'
    BY <1>0, <1>2, DashboardAssumption
       DEF EndSession, serverVars, Inv, Scalars, Nothing, NoSession, Versions, Banner
  <1>3. CASE Login
    BY <1>3, DashboardAssumption DEF Login, Inv, Scalars, Sessions, NoSession
  <1>4. CASE UNCHANGED vars \/ Expire \/ Dismiss \/ \E v \in Views : Refresh(v)
    BY <1>0, <1>1, <1>4 DEF vars, Expire, Dismiss, Refresh, SameSession, serverVars,
       Banner, Inv, Scalars
  <1>5. ASSUME book' = book + 1, UNCHANGED <<token, sessions, valid, shown, error, newest,
               acked>>
        PROVE  Scalars'
    <2>1. book' \in Versions
      BY <1>0, <1>5, BoundNext, FS_Subset, FS_CardinalityType
         DEF WritesBounded, Undecided, Versions
    <2>. QED
      BY <1>1, <1>5, <2>1 DEF SameSession, Inv, Scalars
  <1>6. CASE Logout
    BY <1>6, <1>2 DEF Logout
  <1>7. ASSUME NEW f \in fetches, Answer(f) \/ Deliver(f) PROVE Scalars'
    <2>1. CASE Answer(f) \/ (Show(f) /\ ~Mounted(f))
      BY <1>0, <1>1, <2>1 DEF Answer, AnswerList, AnswerUnauthorized, AnswerFailure, Show,
         SameSession, serverVars, Inv, Scalars
    <2>2. CASE Show(f) /\ Mounted(f)
      <3>1. /\ f.view \in Views /\ f.token \in {NoSession} \cup Sessions
            /\ f.answer.version \in Versions /\ f.answer.version <= book
        BY <2>2, AnswerVersion DEF Show, Inv, FetchOK, FetchType
      <3>2. f.answer.version \in 0..book
        BY <1>0, <3>1 DEF Versions
      <3>. QED
        BY <2>2, <3>1, <3>2 DEF Show, serverVars, Inv, Scalars, Banner
    <2>3. CASE ShowFailure(f)
      BY <1>0, <2>3, DashboardAssumption
         DEF ShowFailure, serverVars, Inv, Scalars, Banner, Nothing, Versions
    <2>4. CASE FetchUnauthorized(f)
      BY <2>4, <1>2 DEF FetchUnauthorized
    <2>. QED
      BY <1>7, <2>1, <2>2, <2>3, <2>4 DEF Deliver
  <1>8. ASSUME NEW kind \in WriteKinds, Submit(kind) PROVE Scalars'
    BY <1>0, <1>1, <1>8 DEF Submit, SameSession, serverVars, Inv, Scalars
  <1>9. ASSUME NEW w \in writes, Decline(w) PROVE Scalars'
    BY <1>0, <1>1, <1>9 DEF Decline, SameSession, serverVars, Inv, Scalars
  <1>10. ASSUME NEW w \in writes, Settle(w) PROVE Scalars'
    <2>1. CASE Confirm(w)
      <3>1. w.answer.version \in Versions /\ w.answer.version <= book
        BY <2>1, AnswerVersion DEF Confirm, Inv, WriteOK, WriteType
      <3>2. w.answer.version \in 0..book
        BY <1>0, <3>1 DEF Versions
      <3>. QED
        BY <2>1, <3>2 DEF Confirm, serverVars, Inv, Scalars, Banner
    <2>2. CASE ConfirmGone(w) \/ ReportFailure(w)
      BY <2>2 DEF ConfirmGone, ReportFailure, serverVars, Inv, Scalars, Banner
    <2>3. CASE WriteUnauthorized(w)
      BY <2>3, <1>2 DEF WriteUnauthorized
    <2>. QED
      BY <1>10, <2>1, <2>2, <2>3 DEF Settle
  <1>. QED
    BY <1>3, <1>4, <1>5, <1>6, <1>7, <1>8, <1>9, <1>10 DEF Next, Advance, Apply

\* Nothing of what the hooks hold outlives a session.
LEMMA EndClears ==
  ASSUME EndSession PROVE Screen'
  BY DEF EndSession, Screen, OnlyOwnData, FreshestShown, ReadsOwnWrites

\* ReadsOwnWrites, with what FetchOK says of a read under way left out.
LEMMA OwnWritesShown ==
  Inv => \/ acked = 0
         \/ shown["orders"].version >= acked
         \/ error # "none"
         \/ \E f \in fetches : OrdersFetch(f)
  BY DEF Inv, Screen, ReadsOwnWrites

LEMMA OwnWritesNext ==
  ASSUME FetchesInv',
         \/ acked' = 0
         \/ shown'["orders"].version >= acked'
         \/ error' # "none"
         \/ \E f \in fetches' : OrdersFetch(f)'
  PROVE  ReadsOwnWrites'
  BY DEF FetchesInv, FetchOK, ReadsOwnWrites

\* A list that comes to the screen: the page's own, at least as new as what it
\* replaces, and with every write the page was told of.
LEMMA ShowKeepsScreen ==
  ASSUME Inv, FetchesInv', NEW f \in fetches, Show(f), Mounted(f)
  PROVE  Screen'
  <1>1. FetchOK(f) /\ f.answer.kind = "ok" /\ f.view \in Views /\ token' = token
    BY DEF Show, Inv, FetchOK, FetchType
  <1>2. /\ f.answer.version >= newest[f.view] /\ f.answer.version \in Int
        /\ newest[f.view] \in Int
        /\ f.token = token /\ SignedIn
    BY <1>1, AnswerVersion, DashboardAssumption
       DEF FetchOK, FetchType, Inv, Scalars, Versions, Mounted, Sessions, SignedIn, NoSession
  <1>3. /\ shown' = [shown EXCEPT ![f.view] = [token |-> f.token, version |-> f.answer.version]]
        /\ newest'[f.view] = f.answer.version
        /\ \A v \in Views \ {f.view} : newest'[v] = newest[v]
    BY <1>1, <1>2 DEF Show, Inv, Scalars
  <1>4. OnlyOwnData' /\ FreshestShown'
    BY <1>1, <1>2, <1>3 DEF Inv, Scalars, Screen, OnlyOwnData, FreshestShown, SignedIn
  <1>5. CASE f.view = "orders"
    <2>1. f.answer.version >= acked /\ acked' = acked
      BY <1>1, <1>5 DEF FetchOK, OrdersFetch, Show
    <2>2. shown'["orders"].version = f.answer.version
      BY <1>1, <1>3, <1>5 DEF Inv, Scalars
    <2>. QED
      BY <1>4, <2>1, <2>2 DEF Screen, ReadsOwnWrites
  <1>6. CASE f.view # "orders"
    <2>1. /\ shown'["orders"] = shown["orders"] /\ acked' = acked /\ error' = error
          /\ fetches' = fetches \ {f}
      BY <1>1, <1>3, <1>6 DEF Inv, Scalars, Views, Show, Keep
    <2>2. \A g \in fetches : OrdersFetch(g) => g \in fetches' /\ OrdersFetch(g)'
      BY <1>1, <1>6, <2>1 DEF OrdersFetch, Mounted
    <2>. QED
      BY <1>4, <2>1, <2>2, OwnWritesShown, OwnWritesNext DEF Screen
  <1>. QED
    BY <1>5, <1>6

\* Where a hook's fetch is replaced, the new one stands in for it.
LEMMA StartedReads ==
  ASSUME NEW v, NEW mount, fetches' = Started(fetches, v, mount)
  PROVE  /\ v = "orders" /\ mount = token => \E g \in fetches' : OrdersFetch(g)
         /\ \A f \in fetches : OrdersFetch(f) => \E g \in fetches' : OrdersFetch(g)
  <1>1. /\ Fetch(v, mount) \in fetches'
        /\ Fetch(v, mount).view = v /\ Fetch(v, mount).mount = mount
    BY DEF Started, Fetch
  <1>2. \A f \in fetches : f \in fetches' \/ (f.view = v /\ f.mount = mount)
    BY DEF Started
  <1>. QED
    BY <1>1, <1>2 DEF OrdersFetch, Mounted

LEMMA ScreenNext == Inv /\ [Next]_vars => Screen'
  <1>. SUFFICES ASSUME Inv, [Next]_vars PROVE Screen'
    OBVIOUS
  <1>0. FetchesInv'
    BY FetchesNext
  <1>1. ASSUME UNCHANGED <<token, shown, newest, acked>>,
               error' = error \/ error' # "none",
               \A f \in fetches : OrdersFetch(f) => \E g \in fetches' : OrdersFetch(g)
        PROVE  Screen'
    BY <1>0, <1>1, OwnWritesShown, OwnWritesNext
       DEF Inv, Screen, OnlyOwnData, FreshestShown, SignedIn, OrdersFetch, Mounted
  <1>2. CASE Login
    <2>1. \A v \in Views : shown[v] = Nothing
      BY <1>2 DEF Login, Inv, Screen, OnlyOwnData
    <2>2. OnlyOwnData' /\ FreshestShown'
      BY <1>2, <2>1 DEF Login, OnlyOwnData, FreshestShown
    <2>3. PICK f \in fetches' : f = [Fetch("orders", sessions + 1) EXCEPT
                                       !.token = sessions + 1]
      BY <1>2 DEF Login, Views
    <2>4. f.view = "orders" /\ f.mount = token'
      BY <1>2, <2>3 DEF Login, Fetch
    <2>5. OrdersFetch(f)'
      BY <2>4 DEF OrdersFetch, Mounted
    <2>. QED
      BY <1>0, <2>2, <2>5, OwnWritesNext DEF Screen
  <1>3. CASE UNCHANGED vars \/ Expire \/ Dismiss \/ Advance
    BY <1>1, <1>3 DEF vars, Expire, Dismiss, Advance
  <1>4. ASSUME NEW v \in Views, Refresh(v) PROVE Screen'
    <2>1. \A f \in fetches : OrdersFetch(f) => \E g \in fetches' : OrdersFetch(g)
      BY <1>4, StartedReads DEF Refresh
    <2>. QED
      BY <1>1, <1>4, <2>1 DEF Refresh
  <1>5. ASSUME NEW f \in fetches, Answer(f) PROVE Screen'
    <2>1. PICK a : Answered(f, a)
      BY <1>5 DEF Answer, AnswerList, AnswerUnauthorized, AnswerFailure
    <2>2. \A g \in fetches : OrdersFetch(g) => \E h \in fetches' : OrdersFetch(h)
      <3>1. f \in FetchType
        BY DEF Inv, FetchOK
      <3>. DEFINE h == [f EXCEPT !.answer = a]
      <3>2. h.view = f.view /\ h.mount = f.mount
        BY <3>1 DEF FetchType
      <3>3. fetches' = (fetches \ {f}) \cup {h}
        BY <2>1 DEF Answered
      <3>. HIDE DEF h
      <3>. QED
        BY <3>2, <3>3 DEF OrdersFetch, Mounted
    <2>. QED
      BY <1>1, <1>5, <2>2 DEF Answer, AnswerList, AnswerUnauthorized, AnswerFailure
  <1>6. ASSUME NEW f \in fetches, Deliver(f) PROVE Screen'
    <2>1. CASE Show(f) /\ Mounted(f)
      BY <1>0, <2>1, ShowKeepsScreen
    <2>2. CASE ~Mounted(f) /\ (Show(f) \/ ShowFailure(f))
      BY <1>1, <2>2 DEF Show, ShowFailure, Keep, OrdersFetch
    <2>3. CASE ShowFailure(f) /\ Mounted(f) /\ f.view = "orders"
      BY <1>0, <2>3, OwnWritesNext
         DEF ShowFailure, Inv, Screen, OnlyOwnData, FreshestShown, SignedIn
    <2>4. CASE ShowFailure(f) /\ Mounted(f) /\ f.view # "orders"
      <3>1. f.view \in Views
        BY DEF Inv, FetchOK, FetchType
      <3>2. /\ shown' = [shown EXCEPT ![f.view] = Nothing]
            /\ fetches' = fetches \ {f}
            /\ UNCHANGED <<token, newest, acked, error>>
        BY <2>4 DEF ShowFailure, Keep
      <3>3. OnlyOwnData' /\ FreshestShown'
        BY <3>1, <3>2 DEF Inv, Scalars, Screen, OnlyOwnData, FreshestShown, SignedIn
      <3>4. shown'["orders"] = shown["orders"]
        BY <2>4, <3>1, <3>2 DEF Inv, Scalars, Views
      <3>5. \A g \in fetches : OrdersFetch(g) => g \in fetches' /\ OrdersFetch(g)'
        BY <2>4, <3>2 DEF OrdersFetch, Mounted
      <3>. QED
        BY <1>0, <3>2, <3>3, <3>4, <3>5, OwnWritesShown, OwnWritesNext DEF Screen
    <2>5. CASE FetchUnauthorized(f)
      BY <2>5, EndClears DEF FetchUnauthorized
    <2>. QED
      BY <1>6, <2>1, <2>2, <2>3, <2>4, <2>5 DEF Deliver
  <1>7. ASSUME NEW kind \in WriteKinds, Submit(kind) PROVE Screen'
    BY <1>1, <1>7 DEF Submit
  <1>8. ASSUME NEW w \in writes, Apply(w) \/ Decline(w) PROVE Screen'
    BY <1>1, <1>8 DEF Apply, Decline
  <1>9. ASSUME NEW w \in writes, Settle(w) PROVE Screen'
    <2>1. ASSUME fetches' = Started(fetches, "orders", w.mount)
          PROVE  /\ Mounted(w) => \E g \in fetches' : OrdersFetch(g)
                 /\ \A f \in fetches : OrdersFetch(f) => \E g \in fetches' : OrdersFetch(g)
      BY <2>1, StartedReads DEF Mounted
    <2>2. CASE Confirm(w) /\ Mounted(w)
      <3>1. \E g \in fetches' : OrdersFetch(g)'
        BY <2>1, <2>2 DEF Confirm, OrdersFetch, Mounted
      <3>. QED
        BY <1>0, <2>2, <3>1, OwnWritesNext
           DEF Confirm, Inv, Screen, OnlyOwnData, FreshestShown, SignedIn
    <2>3. CASE Confirm(w) /\ ~Mounted(w)
      BY <1>1, <2>1, <2>3 DEF Confirm
    <2>4. CASE ConfirmGone(w)
      BY <1>1, <2>1, <2>4 DEF ConfirmGone
    <2>5. CASE ReportFailure(w)
      BY <1>1, <2>5 DEF ReportFailure
    <2>6. CASE WriteUnauthorized(w)
      BY <2>6, EndClears DEF WriteUnauthorized
    <2>. QED
      BY <1>9, <2>2, <2>3, <2>4, <2>5, <2>6 DEF Settle
  <1>10. CASE Logout
    BY <1>10, EndClears DEF Logout
  <1>. QED
    BY <1>2, <1>3, <1>4, <1>5, <1>6, <1>7, <1>8, <1>9, <1>10 DEF Next

LEMMA InvHolds == Spec => []Inv
  <1>1. Inv /\ [Next]_vars => Inv'
    BY FetchesNext, WritesNext, BoundNext, ScalarsNext, ScreenNext DEF Inv, FetchesInv
  <1>. QED
    BY <1>1, InvInit, PTL DEF Spec

------------------------------------------------------------------------------
\* Every variable keeps its type, and a hook never has two fetches under way.
THEOREM DashboardTyped == Spec => []TypeOK
  <1>1. Inv => TypeOK
    <2>. SUFFICES ASSUME Inv PROVE TypeOK
      OBVIOUS
    <2>1. \A n \in 0..book : n \in Versions
      BY DashboardAssumption DEF Inv, Scalars, Versions
    <2>2. \A n \in 1..sessions : n \in Sessions
      BY DashboardAssumption DEF Inv, Scalars, Sessions
    <2>. QED
      BY <2>1, <2>2 DEF Inv, Scalars, OnePerHook, FetchOK, WriteOK, FetchType, WriteType,
         TypeOK
  <1>. QED
    BY <1>1, InvHolds, PTL

\* What is on screen was read with the token of the session that is signed in,
\* however late the answers to earlier sessions' requests arrive.
THEOREM ScreenIsOwn == Spec => []OnlyOwnData
  BY InvHolds, PTL DEF Inv, Screen

\* What is on screen is the newest version this session has seen, however polls,
\* refreshes and the reads after writes overlap.
THEOREM ScreenIsFresh == Spec => []FreshestShown
  BY InvHolds, PTL DEF Inv, Screen

\* A write that was reported as done is on screen, or about to be, or a banner has
\* said that reading the orders failed.
THEOREM WritesAreShown == Spec => []ReadsOwnWrites
  BY InvHolds, PTL DEF Inv, Screen

\* While the gateway accepts the session's token, the session ends only by its
\* user's hand or by the 401 to a request of an earlier session.
THEOREM EndedForCause == Spec => SessionEndsForCause
  <1>. DEFINE Cause == \/ Logout
                       \/ \E r \in (fetches \cup writes) \ (fetches' \cup writes') :
                              ~Mounted(r) /\ r.answer = Unauthorized
  <1>1. ASSUME Inv, [Next]_vars, token \in valid, token' # token PROVE Cause
    <2>1. FetchesInv' /\ \A w \in writes' : WriteOK(w)'
      BY <1>1, FetchesNext, WritesNext
    <2>2. \A x, y : x \in FetchType /\ y \in WriteType => x # y
      <3>1. ASSUME NEW x \in FetchType PROVE "view" \in DOMAIN x
        BY DEF FetchType
      <3>2. ASSUME NEW y \in WriteType PROVE "view" \notin DOMAIN y
        BY DEF WriteType
      <3>. QED
        BY <3>1, <3>2
    <2>3. /\ \A f \in fetches, w \in writes' : f # w
          /\ \A w \in writes, f \in fetches' : f # w
      BY <1>1, <2>1, <2>2 DEF Inv, FetchesInv, FetchOK, WriteOK
    <2>4. ASSUME NEW f \in fetches, FetchUnauthorized(f) PROVE Cause
      <3>1. f \notin fetches' /\ f \notin writes'
        BY <2>3, <2>4 DEF FetchUnauthorized, Unmounted
      <3>2. ~Mounted(f)
        BY <1>1, <2>4 DEF FetchUnauthorized, Inv, FetchOK
      <3>. QED
        BY <2>4, <3>1, <3>2 DEF FetchUnauthorized
    <2>5. ASSUME NEW w \in writes, WriteUnauthorized(w) PROVE Cause
      <3>1. w \notin fetches' /\ w \notin writes'
        BY <2>3, <2>5 DEF WriteUnauthorized, Settled
      <3>2. ~Mounted(w)
        BY <1>1, <2>5 DEF WriteUnauthorized, Inv, WriteOK, Mounted
      <3>. QED
        BY <2>5, <3>1, <3>2 DEF WriteUnauthorized
    <2>6. ~Login
      <3>1. token # NoSession
        BY <1>1, DashboardAssumption DEF Inv, Scalars, NoSession
      <3>. QED
        BY <3>1 DEF Login, SignedIn
    <2>. QED
      BY <1>1, <2>4, <2>5, <2>6
         DEF Next, vars, Expire, Dismiss, Advance, Refresh, Answer, AnswerList,
             AnswerUnauthorized, AnswerFailure, Deliver, Show, ShowFailure, Submit, Apply,
             Decline, Settle, Confirm, ConfirmGone, ReportFailure
  <1>2. Inv /\ [Next]_vars =>
            [(token \in valid /\ token' # token) => Cause]_vars
    BY <1>1
  <1>. HIDE DEF Cause
  <1>3. Spec => [][(token \in valid /\ token' # token) => Cause]_vars
    BY <1>2, InvHolds, PTL DEF Spec
  <1>. QED
    BY <1>3 DEF SessionEndsForCause, Cause

==============================================================================
