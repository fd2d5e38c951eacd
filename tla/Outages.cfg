\* Every call of the store and of the registry may fail, rows and sessions expire,
\* and all sessions of a user are revoked.
SPECIFICATION Spec
SYMMETRY MCSymmetry
INVARIANTS NoFork Tracked RevokedNotHeld
PROPERTIES RevokedRefused
CONSTANTS
    r1 = r1
    r2 = r2
    r3 = r3
    k1 = k1
    k2 = k2
    c1 = c1
    c2 = c2
    alice = alice
    bob = bob
    seedLogin = seedLogin
    seedValue = seedValue
    Requests = {r1, r2}
    Keys = {k1}
    Values = {r1, r2, seedValue}
    NoVal = NoVal
    Preserved = {}
    Users = {alice}
    NoUser = NoUser
    Logins = {r1, r2, seedLogin}
    NoLogin = NoLogin
    Clients = {c1}
    NoFp = NoFp
    MaxKeys = 0
    Seed = seed
    SeedRows <- MCSeeds
    NoId = NoId
    NoRow = NoRow
    NoKey = NoKey
    Ops = {"set", "take", "oauth", "regenerate", "remove", "clear_custom", "begin", "factor"}
    MaxOps = 1
    MaxMint = 4
    SwapAttempts = 3
    CycleAttempts = 4
    Binding = FALSE
    Accept = FALSE
    StoreMayFail = TRUE
    RegistryMayFail = TRUE
    MayExpire = TRUE
    Revocations = {"user"}
    RowsWired = FALSE
