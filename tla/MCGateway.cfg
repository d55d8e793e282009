\* One client address; long enough for its bucket to empty, be dropped and
\* empty again, and for a token to expire.
CONSTANTS
    c1 = c1
    r1 = r1
    r2 = r2
    ann = ann
    bob = bob
    cleo = cleo
    dan = dan
    eve = eve
    Ada = Ada
    ada = ada
    Clients = {c1}
    Rate = 1
    Burst = 2
    ClientTTL = 2
    MaxTime = 3
    Persons = {ann, bob, cleo, dan}
    AddressOf <- MCAddressOf
    Username <- MCUsername
    LoginName <- MCLoginName
    Fold <- MCFold
    Email <- MCEmail
    Password <- MCPassword
    Invalid = {dan}
    Requests = {r1, r2}
    TokenTTL = 1
    GatewayFaults = {"db", "upstream"}
SPECIFICATION GatewaySpec
SYMMETRY RequestSymmetry
INVARIANTS WithinRate NoForeignIdentity WorkWithinRate
PROPERTIES OwnerSignsIn ImplementsTokenBucket
