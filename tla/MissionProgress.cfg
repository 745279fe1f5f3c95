SPECIFICATION Spec
CONSTANTS
    m1 = m1
    Missions <- MCOne
    None = None
    Waypoints = 2
    Repeats = 2
    SettleTicks = 1
    CallsMayFail = TRUE
    Patient = FALSE
    MaxCommands = 4
    MaxAlerts = 0
    MaxRestarts = 1
INVARIANTS TypeOK SuccessDroveEveryLeg
