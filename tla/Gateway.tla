------------------------------- MODULE Gateway -------------------------------
(***************************************************************************)
(* The api-gateway in front of its accounts: the rate limiter every request *)
(* passes first, registration and login over the users table with its two  *)
(* unique indexes, the bearer token, the verified identity stamped onto the *)
(* request, and the proxy that forwards it with or without that identity.   *)
(*                                                                         *)
(* A person has one set of registration details and keeps the latest token *)
(* received.  An account's id is the person whose registration created it. *)
(* Requests are interleaved between their calls to the database and the    *)
(* upstream; the clock is the limiter's.                                   *)
(***************************************************************************)
EXTENDS RateLimiter, FiniteSets

CONSTANTS
    Persons,
    AddressOf,     \* the client address a person's requests come from
    Username,      \* the name as typed when registering
    LoginName,     \* the name as typed when logging in
    Fold,          \* NormalizeUsername: the stored form of a typed name
    Email,         \* the address, normalised
    Password,
    Invalid,       \* persons whose details Validate rejects
    Requests,      \* concurrent requests at this replica
    TokenTTL,
    GatewayFaults  \* "db", "upstream"

ASSUME GatewayAssumption ==
    /\ AddressOf \in [Persons -> Clients]
    /\ Invalid \subseteq Persons
    /\ TokenTTL \in Nat
    /\ IsFiniteSet(Requests)
    /\ GatewayFaults \subseteq {"db", "upstream"}

\* People know the name they chose, however they type it, and nobody logs in with
\* the name and the password of somebody else.
ASSUME CredentialsAssumption ==
    \A p \in Persons :
        /\ Fold[LoginName[p]] = Fold[Username[p]]
        /\ \A a \in Persons :
              Fold[Username[a]] = Fold[Username[p]] /\ Password[a] = Password[p] => a = p

VARIABLES
    accounts,  \* the users table
    request,   \* each request: the call it is about to make, and for whom
    session,   \* the token each person holds
    upstream,  \* the latest request the upstream received: who sent it, and the
               \* account its identity headers name, if any
    hashed     \* history: password hashes computed per client address

accountVars == <<accounts, request, session, upstream, hashed>>
gatewayVars == <<vars, accountVars>>

RequestPc == {"create", "lookup", "profile", "proxy"}
RequestState == [pc : RequestPc, person : Persons, account : Persons,
                 registered : BOOLEAN]

NoToken == [account |-> "none", expires |-> 0]
Nobody == [sender |-> "none", account |-> "none"]
IdleRequest == [pc |-> "idle"]

GatewayInit ==
    /\ Init
    /\ accounts = {}
    /\ request = [r \in Requests |-> IdleRequest]
    /\ session = [p \in Persons |-> NoToken]
    /\ upstream = Nobody
    /\ hashed = [c \in Clients |-> 0]

------------------------------------------------------------------------------
(* The users table *)

\* The name an account is stored under: Normalize folds it before the insert.
StoredName(p) == Fold[Username[p]]

\* A bug: a look-up before the insert stands in for the unique indexes, and both
\* of two concurrent registrations have passed it.
NotIndexed(p) == p \notin accounts

\* The unique indexes on username and email.
Unclaimed(p) ==
    \A a \in accounts : StoredName(a) # StoredName(p) /\ Email[a] # Email[p]

\* GetByUsername: the accounts a login's WHERE clause matches.
Named(p) == {a \in accounts : StoredName(a) = Fold[LoginName[p]]}

------------------------------------------------------------------------------
(* The pipeline *)

Start(r, p, pc, account) ==
    /\ request[r] = IdleRequest
    /\ request' = [request EXCEPT ![r] =
           [pc |-> pc, person |-> p, account |-> account,
            registered |-> p \in accounts]]

\* The answer is written.
Finish(r) == request' = [request EXCEPT ![r] = IdleRequest]

At(r, pc) == request[r].pc = pc

\* A bug: the credential routes are mounted ahead of the limiter.
AdmitAll(c) == UNCHANGED vars

\* The limiter stands before every handler.
Admit(c) == Pass(c)

Hash(c) == hashed' = [hashed EXCEPT ![c] = @ + 1]

\* IssueToken, and the answer that carries it.
IssueToken(r, account) ==
    /\ session' = [session EXCEPT ![request[r].person] =
           [account |-> account, expires |-> now + TokenTTL]]
    /\ Finish(r)

\* 429, before anything is done for the caller.
TooMany(c) == Refuse(c) /\ UNCHANGED accountVars

\* Requests answered from the process alone: a probe, a body that does not parse,
\* details Validate rejects, no token or an expired one.
AnswerAtOnce(c) == Pass(c) /\ UNCHANGED accountVars

------------------------------------------------------------------------------
(* Register *)

\* Validate: every field has the shape the account rules ask for.
Acceptable(p) == p \notin Invalid

Register(r, p) ==
    /\ Acceptable(p)
    /\ Admit(AddressOf[p])
    /\ Hash(AddressOf[p])
    /\ Start(r, p, "create", p)
    /\ UNCHANGED <<accounts, session, upstream>>

\* The insert commits; registering logs in.
Create(r) ==
    /\ At(r, "create")
    /\ Unclaimed(request[r].person)
    /\ accounts' = accounts \cup {request[r].person}
    /\ IssueToken(r, request[r].person)
    /\ UNCHANGED <<vars, upstream, hashed>>

\* The insert commits and its answer is lost: 500, and no token.
CreateUnseen(r) ==
    /\ "db" \in GatewayFaults
    /\ At(r, "create")
    /\ Unclaimed(request[r].person)
    /\ accounts' = accounts \cup {request[r].person}
    /\ Finish(r)
    /\ UNCHANGED <<vars, session, upstream, hashed>>

\* 409: an index has the name or the address, perhaps from this very person.
CreateTaken(r) ==
    /\ At(r, "create")
    /\ ~Unclaimed(request[r].person)
    /\ Finish(r)
    /\ UNCHANGED <<vars, accounts, session, upstream, hashed>>

\* The database fails a call and nothing is written: 500.
CallFails(r) ==
    /\ "db" \in GatewayFaults
    /\ request[r].pc \in {"create", "lookup", "profile"}
    /\ Finish(r)
    /\ UNCHANGED <<vars, accounts, session, upstream, hashed>>

------------------------------------------------------------------------------
(* Login *)

Login(r, p) ==
    /\ Admit(AddressOf[p])
    /\ Start(r, p, "lookup", p)
    /\ UNCHANGED <<accounts, session, upstream, hashed>>

\* A bug: finding the account is taken for proving it.
NameMatches(p, a) == TRUE

\* CompareHashAndPassword.
PasswordMatches(p, a) == Password[a] = Password[p]

\* The account is found and the password is its own.
LoginGranted(r) ==
    /\ At(r, "lookup")
    /\ \E a \in Named(request[r].person) :
          /\ PasswordMatches(request[r].person, a)
          /\ IssueToken(r, a)
    /\ Hash(AddressOf[request[r].person])
    /\ UNCHANGED <<vars, accounts, upstream>>

\* No such account, or not its password: one answer, one comparison, for both.
LoginDenied(r) ==
    /\ At(r, "lookup")
    /\ \/ Named(request[r].person) = {}
       \/ \E a \in Named(request[r].person) : ~PasswordMatches(request[r].person, a)
    /\ Hash(AddressOf[request[r].person])
    /\ Finish(r)
    /\ UNCHANGED <<vars, accounts, session, upstream>>

------------------------------------------------------------------------------
(* Requests with a token *)

\* JWTAuth.
TokenValid(p) == session[p] # NoToken /\ now < session[p].expires

\* GET /auth/me: the profile is read from the table, not from the token.
Me(r, p) ==
    /\ TokenValid(p)
    /\ Admit(AddressOf[p])
    /\ Start(r, p, "profile", session[p].account)
    /\ UNCHANGED <<accounts, session, upstream, hashed>>

Profile(r) ==
    /\ At(r, "profile")
    /\ Finish(r)
    /\ UNCHANGED <<vars, accounts, session, upstream, hashed>>

\* Any /orders or /portfolio request: verified here, forwarded below.
Call(r, p) ==
    /\ TokenValid(p)
    /\ Admit(AddressOf[p])
    /\ Start(r, p, "proxy", session[p].account)
    /\ UNCHANGED <<accounts, session, upstream, hashed>>

\* A bug: the claims are parsed into a variable all requests share.
SharedIdentity(r) ==
    CHOOSE a \in Persons : \E s \in Requests : At(s, "proxy") /\ request[s].account = a

\* The identity headers JWTAuth stamps: those of the request's own token, in place of
\* any that came in.
Identity(r) == request[r].account

\* The account named by the headers that arrive upstream.  httputil.ReverseProxy takes
\* out the headers a request lists as hop-by-hop, and does so after the stamping: the
\* identity may be among them.
Arriving(r) == {Identity(r), "none"}

Forward(r) ==
    /\ At(r, "proxy")
    /\ \E account \in Arriving(r) :
          upstream' = [sender |-> request[r].person, account |-> account]
    /\ Finish(r)
    /\ UNCHANGED <<vars, accounts, session, hashed>>

\* 502.
UpstreamFails(r) ==
    /\ "upstream" \in GatewayFaults
    /\ At(r, "proxy")
    /\ Finish(r)
    /\ UNCHANGED <<vars, accounts, session, upstream, hashed>>

------------------------------------------------------------------------------
LimiterStep ==
    \/ Tick /\ UNCHANGED accountVars
    \/ \E at \in Times : Reap(at) /\ UNCHANGED accountVars
    \/ \E c \in Clients : TooMany(c) \/ AnswerAtOnce(c)

Arrive(r) == \E p \in Persons : Register(r, p) \/ Login(r, p) \/ Me(r, p) \/ Call(r, p)

RequestStep(r) ==
    \/ Create(r) \/ CreateUnseen(r) \/ CreateTaken(r) \/ CallFails(r)
    \/ LoginGranted(r) \/ LoginDenied(r) \/ Profile(r)
    \/ Forward(r) \/ UpstreamFails(r)

GatewayNext == LimiterStep \/ \E r \in Requests : Arrive(r) \/ RequestStep(r)

GatewaySpec == GatewayInit /\ [][GatewayNext]_gatewayVars

------------------------------------------------------------------------------
(* Properties *)

GatewayTypeOK ==
    /\ TypeOK
    /\ accounts \subseteq Persons \ Invalid
    /\ request \in [Requests -> RequestState \cup {IdleRequest}]
    /\ session \in [Persons -> [account : Persons, expires : Nat] \cup {NoToken}]
    /\ upstream \in [sender : Persons, account : Persons \cup {"none"}] \cup {Nobody}
    /\ hashed \in [Clients -> Nat]

\* Whoever has an account gets in with the credentials it was registered with,
\* however the name is typed, whatever answer the registration got (its insert may
\* have gone through behind a 500), and whoever else asked for that name at the
\* same moment.
OwnerSignsIn ==
    [][\A r \in Requests : LoginDenied(r) => ~request[r].registered]_gatewayVars

\* Nobody is taken for somebody else, with other people's requests verified in between,
\* names that fold to one another and registrations that collide: a token names its
\* holder's account, and what arrives upstream its sender's, or none where the proxy
\* took the identity out.  It says nothing of whom the upstream then acts for.
NoForeignIdentity ==
    /\ \A p \in Persons : session[p].account \in {p, "none"}
    /\ upstream.account \in {upstream.sender, "none"}

\* The limiter comes "before any work is done on behalf of the caller" (NewRouter):
\* the password hashes computed for an address stay within its rate.
WorkWithinRate == \A c \in Clients : hashed[c] <= Burst + Rate * now
==============================================================================
