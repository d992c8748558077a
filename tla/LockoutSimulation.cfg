SPECIFICATION SimulationSpec
CONSTANTS
    u1 = u1
    Users <- OneUser
    Duration <- Doubling
    MaxFailed = 3
    Rounds = 3
    MaxLive = 6
    LastTick = 4
INVARIANTS
    FailsForAReason
    OldLockoutsStand
CHECK_DEADLOCK FALSE
