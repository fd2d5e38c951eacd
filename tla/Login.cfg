\* Two requests log in, write and rotate, two operations each in any order, one of two
\* keys kept across a login, in a bag with room for one, which the merge of two
\* requests' writes does not fit; under weak fairness of each request.
SPECIFICATION FairSpec
INVARIANTS NothingPlanted WithinCap
PROPERTIES EveryRequestAnswered NoFixation
CONSTANTS
    r1 = r1
    r2 = r2
    r3 = r3
    k1 = k1
    k2 = k2
    c1 = c1
    c2 = c2
    alice = alice
    bob = bob
    seedLogin = seedLogin
    seedValue = seedValue
    Requests = {r1, r2}
    Keys = {k1, k2}
    Values = {r1, r2, seedValue}
    NoVal = NoVal
    Preserved = {k1}
    Users = {alice}
    NoUser = NoUser
    Logins = {r1, r2, seedLogin}
    NoLogin = NoLogin
    Clients = {c1}
    NoFp = NoFp
    MaxKeys = 1
    Seed = seed
    SeedRows <- MCEmptySeeds
    NoId = NoId
    NoRow = NoRow
    NoKey = NoKey
    Ops = {"set", "take", "regenerate", "oauth", "begin", "factor"}
    MaxOps = 2
    MaxMint = 4
    SwapAttempts = 3
    CycleAttempts = 4
    Binding = FALSE
    Accept = FALSE
    StoreMayFail = FALSE
    RegistryMayFail = FALSE
    MayExpire = FALSE
    Revocations = {}
    RowsWired = FALSE
