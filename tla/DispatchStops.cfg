SPECIFICATION Spec
CONSTANTS
    r1 = r1
    r2 = r2
    stopAll = stopAll
    resetOne = resetOne
    mode = mode
    task = task
    None = None
    Robots <- MCTwo
    RobotOrder <- MCTwoOrder
    Requests <- MCLatch
    OpOf <- MCOpOf
    TargetsOf <- MCTargetsOf
    NormalMax = 1
    ConfirmTicks = 0
    StopTimeout = 1
    MaxSubmissions = 3
    MaxCrashes = 1
    MaxProtective = 1
INVARIANTS ProtectiveReachesAll AtMostOnce
PROPERTIES LedgerSpec
