\* Policies on two instances, providers on one, in the scenes of MCScenes.
SPECIFICATION Spec
CONSTANTS
    Nodes = {1, 2}
    Policies = {"p", "q", "bad"}
    Valid = {"p", "q"}
    None = None
    Capacity = 1
    Hooks <- MCHooks
    Requests = {"r"}
    Entries = {"e"}
    OAuthKeys = {"o1", "o2"}
    Fido2 = "fido2"
    Ldap = "ldap"
    NoKey = "nokey"
    Revs = {1, 2, 3}
    Rp <- MCRp
    Acknowledged = {3}
    ChannelSize = 1
    Scenes <- MCScenes
INVARIANTS CachesFollowPolicy
PROPERTIES ReloadsKeepApart Converges
