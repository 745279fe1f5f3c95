SPECIFICATION Spec
CONSTANTS
    m1 = m1
    Missions <- MCOne
    None = None
    Waypoints = 2
    Repeats = 1
    SettleTicks = 1
    CallsMayFail = FALSE
    Patient = TRUE
    MaxCommands = 4
    MaxAlerts = 1
    MaxRestarts = 0
PROPERTY PausedGetsNoGoal
