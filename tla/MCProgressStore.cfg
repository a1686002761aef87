SPECIFICATION Spec
CONSTANTS
    Users = {u1}
    Books = {b1, b2}
    Devices = {d1}
    Positions = {0, 2}
    Durations = {1}
    Ages <- MCAges
    Rates = {r0, r1}
    NoRate = r0
    NoDevice = NoDevice
    NoRecord = NoRecord
    NoBook = NoBook
    MaxReportAge = 2
    TieWindow = 1
    LogRetention = 1
    PruneInterval = 1
    PruneEveryN = 2
    StartTime = 3
    MaxTime = 5
    MaxSeq = 2
    MaxLogRows = 2
INVARIANTS
    TypeOK
    CursorComplete
    LogExplainsRecord
    ListenSound
    RateRowsAreNotListens
PROPERTIES
    ListenReplacedByWinner
SYMMETRY Symmetry
CHECK_DEADLOCK FALSE
