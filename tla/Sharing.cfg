\* Three requests write, take and rotate one session at once.
SPECIFICATION Spec
SYMMETRY MCSymmetry
INVARIANTS TypeOK OneShot AcknowledgedKept
CONSTANTS
    r1 = r1
    r2 = r2
    r3 = r3
    k1 = k1
    k2 = k2
    c1 = c1
    c2 = c2
    alice = alice
    bob = bob
    seedLogin = seedLogin
    seedValue = seedValue
    Requests = {r1, r2, r3}
    Keys = {k1}
    Values = {r1, r2, r3, seedValue}
    NoVal = NoVal
    Preserved = {}
    Users = {alice}
    NoUser = NoUser
    Logins = {r1, r2, r3, seedLogin}
    NoLogin = NoLogin
    Clients = {c1}
    NoFp = NoFp
    MaxKeys = 0
    Seed = seed
    SeedRows <- MCSeeds
    NoId = NoId
    NoRow = NoRow
    NoKey = NoKey
    Ops = {"set", "take", "regenerate"}
    MaxOps = 2
    MaxMint = 3
    SwapAttempts = 3
    CycleAttempts = 4
    Binding = FALSE
    Accept = FALSE
    StoreMayFail = FALSE
    RegistryMayFail = FALSE
    MayExpire = FALSE
    Revocations = {}
    RowsWired = FALSE
