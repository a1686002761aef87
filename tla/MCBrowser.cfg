SPECIFICATION MCSpec
CONSTANTS
    Devices = {d1, d2}
    Accounts = {a, b}
    Calls = {k1, k2}
    Nobody = Nobody
    NoPrefs = NoPrefs
    Values = {1, 2}
    MaxChanges = 3
    Items = {f1, f2, f3}
    MaxConcurrent = 2
    MaxClicks = 3
INVARIANTS
    MCTypeOK
    InAgreement
    TransfersCapped
PROPERTIES
    EveryItemRuns
CHECK_DEADLOCK FALSE
