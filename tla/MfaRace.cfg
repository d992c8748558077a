SPECIFICATION Spec
CONSTANTS
    w1 = w1
    w2 = w2
    None = None
    Workers <- TwoWorkers
    CodeCount = 2
    MaxArrived = 6
    MaxCrashes = 1
INVARIANTS
    SpendsBounded
    ListsBounded
    LateSecretsBounded
    OneCrashIsSurvived

    
CHECK_DEADLOCK FALSE
