SPECIFICATION Spec
CONSTANTS
    w1 = w1
    w2 = w2
    u1 = u1
    j1 = j1
    j2 = j2
    j3 = j3
    j4 = j4
    None = None
    Users <- OneUser
    Workers <- TwoWorkers
    Jtis <- FourJtis
    AccessTtl = 1
    RefreshTtl = 2
    Horizon = 2
    MaxCrashes = 1
SYMMETRY Symmetry
INVARIANTS
    EndedTogether
    LateSessionsBounded
    LiveTokensListed
    RefusedIsHarmless
PROPERTIES
    ImplementsFamilies
