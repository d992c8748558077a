SPECIFICATION Spec
CONSTANTS
    w1 = w1
    w2 = w2
    u1 = u1
    u2 = u2
    None = None
    Users <- TwoUsers
    Workers <- OneWorker
    MfaUsers <- MfaUser
    KeyUsers <- OneUser
    ExpiredUsers <- ExpiredUser
    MaxFailed = 2
    Base = 1
    Factor = 2
    MaxLockout = 3
    PreMfaTtl = 3
    Horizon = 5
    MaxCrashes = 0
INVARIANTS
    LockoutAudited
    MfaAfterPassword
PROPERTIES
    AutoUnlock
    ImplementsPolicy
