SPECIFICATION Spec
CONSTANTS
    w1 = w1
    w2 = w2
    u1 = u1
    u2 = u2
    None = None
    Users <- OneUser
    Workers <- TwoWorkers
    MfaUsers <- NoUsers
    KeyUsers <- NoUsers
    ExpiredUsers <- NoUsers
    MaxFailed = 1
    Base = 2
    Factor = 2
    MaxLockout = 4
    PreMfaTtl = 3
    Horizon = 3
    MaxCrashes = 1
SYMMETRY Symmetry
INVARIANTS
    BoundedGuesses
    LockHoldsBack
    SharedNumbers
