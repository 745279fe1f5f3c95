SPECIFICATION Spec
CONSTANTS
    c1 = c1
    c2 = c2
    c3 = c3
    CommandIds <- MCThree
    NoId = NoId
    RecentMax = 1
    MaxSpeed = 1
    ManualTimeout = 0
    NavTimeout = 1
    WaitTicks = 0
    CancelMayFail = FALSE
SYMMETRY Symmetry
PROPERTY ReleaseNeverResumes
