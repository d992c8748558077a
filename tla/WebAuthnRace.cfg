SPECIFICATION Spec
CONSTANTS
    w1 = w1
    w2 = w2
    k1 = k1
    k2 = k2
    None = None
    Workers <- TwoWorkers
    Keys <- TwoKeys
    Counterless <- SecondKey
    MaxCount = 3
    MaxArrived = 5
    MaxCrashes = 1
SYMMETRY Symmetry
INVARIANTS
    LateKeysBounded
PROPERTIES
    CounterHolds
    RemovedForGood
CHECK_DEADLOCK FALSE
