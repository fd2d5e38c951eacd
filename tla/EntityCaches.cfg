\* Lookups against invalidations, in the scenes of MCScenes.
SPECIFICATION Spec
CONSTANTS
    c1 = c1
    c2 = c2
    c3 = c3
    i1 = i1
    i2 = i2
    p1 = p1
    p2 = p2
    t1 = t1
    r1 = r1
    r2 = r2
    f = f
    None = None
    Callers = {c1, c2, c3}
    Invalidators = {i1, i2}
    Keys <- MCKeys
    Folder <- MCFolder
    Stripe <- MCStripe
    TTL = 1
    Scenes <- MCScenes
INVARIANTS LruSound NothingStaleKept SingleFlight
CHECK_DEADLOCK FALSE
SYMMETRY MCSymmetry
