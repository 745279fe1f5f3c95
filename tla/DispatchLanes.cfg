SPECIFICATION FairSpec
CONSTANTS
    r1 = r1
    r2 = r2
    stopAll = stopAll
    resetOne = resetOne
    mode = mode
    task = task
    None = None
    Robots <- MCTwo
    RobotOrder <- MCTwoOrder
    Requests <- MCLanes
    OpOf <- MCOpOf
    TargetsOf <- MCTargetsOf
    NormalMax = 1
    ConfirmTicks = 1
    StopTimeout = 1
    MaxSubmissions = 3
    MaxCrashes = 0
    MaxProtective = 0
INVARIANTS TypeOK QueueMatchesStore
PROPERTIES CommandsEnd
