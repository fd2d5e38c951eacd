\* Two calls present one token, with a failing store, skewed clocks and one event from outside.
SPECIFICATION Spec
SYMMETRY MCSymmetry
INVARIANTS AccusedOnlyOnReuse RotationKeepsOne SuccessorInherits WithinCap
PROPERTIES ImplementsFamilies
CONSTANTS
    d1 = d1
    i1 = i1
    Clients <- MCClients
    Calls = {c1, c2}
    Users = {u1}
    Devices = {d1}
    Infos = {i1}
    NoDevice = NoDevice
    NoInfo = NoInfo
    NoToken = NoToken
    MaxTokens = 3
    MaxTime = 2
    MaxEvents = 1
    MaxSkew = 1
    Ttl = 2
    MaxLifetime = 2
    Grace = 1
    MaxPerUser = 1
    Rotations = {TRUE, FALSE}
    MayFail = TRUE
    Revocations = {"user", "device", "logout", "suspend", "pepper", "owner"}
\* Every call is answered and the bounds are reached.
CHECK_DEADLOCK FALSE
