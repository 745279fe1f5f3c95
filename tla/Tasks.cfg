SPECIFICATION Spec
CONSTANTS
    n1 = n1
    n2 = n2
    Navs <- MCTwo
    None = None
    LossLimit = 2
    MaxRequests = 3
    MaxBreaks = 1
    WireMax = 2
INVARIANTS TypeOK FailedLeavesNoGoal EndedLineIsSilent LossIsStopped
SYMMETRY Symmetry
