SPECIFICATION PlayerSpec
CONSTANTS
    Files = 2
    Units = 2
    None = None
    MaxClicks = 2
    MaxMishaps = 0
INVARIANT
    DeliberatePauseShows
CHECK_DEADLOCK FALSE
