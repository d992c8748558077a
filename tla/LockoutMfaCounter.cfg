SPECIFICATION Spec
CONSTANTS
    w1 = w1
    w2 = w2
    u1 = u1
    u2 = u2
    None = None
    Users <- OneUser
    Workers <- OneWorker
    MfaUsers <- MfaUser
    KeyUsers <- NoUsers
    ExpiredUsers <- NoUsers
    MaxFailed = 2
    Base = 1
    Factor = 2
    MaxLockout = 2
    PreMfaTtl = 3
    Horizon = 8
    MaxCrashes = 0
INVARIANT MfaFailuresLock
