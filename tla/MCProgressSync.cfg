SPECIFICATION MCSpec
CONSTANTS
    Devices = {d1, d2}
    Positions = {0, 1}
    Skew <- SameClock
    TieWindow = 1
    AdoptThreshold = 1
    MaxDelay = 0
    None = None
    MaxTime = 4
    MaxActs = 1
    MaxFaults = 1
    MaxKills = 1
INVARIANTS
    TypeOK
    Converged
    NewestIsReported
PROPERTIES
    UnsyncedIsResumed
SYMMETRY Symmetry
CHECK_DEADLOCK FALSE
