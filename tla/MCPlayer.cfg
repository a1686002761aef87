SPECIFICATION MCSpec
CONSTANTS
    Files = 2
    Units = 2
    None = None
    MaxClicks = 3
    MaxMishaps = 2
INVARIANTS
    PlayerTypeOK
    InStep
PROPERTIES
    PlaceOnlyAdvances
    BoundaryPlaysOn
    Surfaced
    SleepStops
CHECK_DEADLOCK FALSE
