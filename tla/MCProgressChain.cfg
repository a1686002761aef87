SPECIFICATION ReportsSpec
CONSTANTS
    Users = {u1}
    Books = {b1}
    Devices = {d1}
    Positions = {0, 1}
    Durations = {0}
    Ages <- ChainAges
    Rates = {r0}
    NoRate = r0
    NoDevice = NoDevice
    NoRecord = NoRecord
    NoBook = NoBook
    MaxReportAge = 4
    TieWindow = 1
    LogRetention = 4
    PruneInterval = 4
    PruneEveryN = 9
    StartTime = 5
    MaxTime = 6
    MaxSeq = 6
    MaxLogRows = 6
INVARIANT
    OldListenCannotClobber
CHECK_DEADLOCK FALSE
