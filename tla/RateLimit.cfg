SPECIFICATION Spec
CONSTANTS
    w1 = w1
    w2 = w2
    a1 = a1
    a2 = a2
    u1 = u1
    anna = anna
    ANNA = ANNA
    None = None
    Users <- OneUser
    Workers <- TwoWorkers
    Addresses <- TwoAddresses
    Spellings <- TwoSpellings
    Lowered <- Lowering
    AccountOf <- OneAccount
    Duration <- Doubling
    MaxFailed = 2
    Limit = 2
    Window = 2
    Horizon = 3
    MaxDeaths = 1
SYMMETRY Symmetry
INVARIANTS
    AdmissionBounded
    LockoutComesFirst
CHECK_DEADLOCK FALSE
