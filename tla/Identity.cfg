\* Two clients hold the cookie of a session; every operation, one per request,
\* and the revocation of one session.
SPECIFICATION Spec
SYMMETRY MCSymmetry
INVARIANTS BoundToLoginClient
CONSTANTS
    r1 = r1
    r2 = r2
    r3 = r3
    k1 = k1
    k2 = k2
    c1 = c1
    c2 = c2
    alice = alice
    bob = bob
    seedLogin = seedLogin
    seedValue = seedValue
    Requests = {r1, r2}
    Keys = {k1, k2}
    Values = {r1, r2, seedValue}
    NoVal = NoVal
    Preserved = {}
    Users = {alice, bob}
    NoUser = NoUser
    Logins = {r1, r2, seedLogin}
    NoLogin = NoLogin
    Clients = {c1, c2}
    NoFp = NoFp
    MaxKeys = 0
    Seed = seed
    SeedRows <- MCSeeds
    NoId = NoId
    NoRow = NoRow
    NoKey = NoKey
    Ops = {"set", "take", "begin", "factor", "oauth", "impersonate", "step_up", "logout", "regenerate"}
    MaxOps = 1
    MaxMint = 4
    SwapAttempts = 3
    CycleAttempts = 4
    Binding = TRUE
    Accept = FALSE
    StoreMayFail = FALSE
    RegistryMayFail = FALSE
    MayExpire = FALSE
    Revocations = {"session"}
    RowsWired = TRUE
