SPECIFICATION Spec
CONSTANTS
    w1 = w1
    w2 = w2
    admin = admin
    anna = anna
    p1 = p1
    p2 = p2
    common = common
    None = None
    Setup = Setup
    Workers <- TwoWorkers
    Names <- TwoNames
    AdminName = admin
    Passwords <- ThreePasswords
    SeedPassword = p1
    Weak = {}
    Breached <- CommonOnes
    Common <- CommonOnes
    FailClosed = FALSE
    HistorySize = 3
    MaxArrived = 4
    MaxCrashes = 1
SYMMETRY Symmetry
INVARIANTS
    OneAdmin
    NoBootFails
    ProofsBounded
    CopiesBounded
    Remembered
    Vetted

    
CHECK_DEADLOCK FALSE
