SPECIFICATION FairSpec
CONSTANTS
    c1 = c1
    c2 = c2
    c3 = c3
    CommandIds <- MCThree
    NoId = NoId
    RecentMax = 3
    MaxSpeed = 1
    ManualTimeout = 0
    NavTimeout = 0
    WaitTicks = 1
    CancelMayFail = FALSE
INVARIANTS TypeOK StopDisarms NoOrphanGoal DeadmanBound
PROPERTIES StopTakesEffect NavigationEnds
