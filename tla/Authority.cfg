SPECIFICATION FairSpec
CONSTANTS
    s1 = s1
    s2 = s2
    r1 = r1
    Tick = Tick
    None = None
    Sessions <- MCSessions
    Operators <- MCSessions
    Robots <- MCOne
    RobotOrder <- MCOneOrder
    LeaseTerm = 1
    InputLimit = 0
    MaxInputs = 2
INVARIANTS TypeOK MovingIsGuarded
PROPERTIES ExclusiveSpec LapseStops InputEnds
