\* An administrator takes on another identity; nothing is revoked.
SPECIFICATION Spec
SYMMETRY MCSymmetry
INVARIANTS EndedOnlyIfRevoked
CONSTANTS
    r1 = r1
    r2 = r2
    r3 = r3
    k1 = k1
    k2 = k2
    c1 = c1
    c2 = c2
    alice = alice
    bob = bob
    seedLogin = seedLogin
    seedValue = seedValue
    Requests = {r1, r2}
    Keys = {}
    Values = {r1, r2, seedValue}
    NoVal = NoVal
    Preserved = {}
    Users = {alice, bob}
    NoUser = NoUser
    Logins = {r1, r2, seedLogin}
    NoLogin = NoLogin
    Clients = {c1}
    NoFp = NoFp
    MaxKeys = 0
    Seed = seed
    SeedRows <- MCAuthedSeed
    NoId = NoId
    NoRow = NoRow
    NoKey = NoKey
    Ops = {"impersonate"}
    MaxOps = 1
    MaxMint = 4
    SwapAttempts = 3
    CycleAttempts = 4
    Binding = FALSE
    Accept = FALSE
    StoreMayFail = FALSE
    RegistryMayFail = FALSE
    MayExpire = FALSE
    Revocations = {}
    RowsWired = FALSE
