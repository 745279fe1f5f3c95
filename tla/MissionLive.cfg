SPECIFICATION FairSpec
CONSTANTS
    m1 = m1
    Missions <- MCOne
    None = None
    Waypoints = 1
    Repeats = 1
    SettleTicks = 0
    CallsMayFail = FALSE
    Patient = TRUE
    MaxCommands = 4
    MaxAlerts = 1
    MaxRestarts = 0
INVARIANT EndedStops
PROPERTY ActivePauseEnds
