SPECIFICATION FairSpec
CONSTANTS
    master = master
    slave = slave
    Robots <- MCRobots
    Fragile <- MCFragile
    Codes <- MCCodes
    ClearAfter <- MCClear
    Hold <- MCHold
    StaleAfter = 0
    OfflineAfter = 1
    BatteryStaleAfter = 2
    TimerCap = 1
INVARIANTS
    TypeOK
    NoBlindDrive
PROPERTIES
    AlertsAreEarned
    FaultsClear
