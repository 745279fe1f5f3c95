SPECIFICATION FairSpec
CONSTANTS
    go = go
    stop = stop
    pose = pose
    status = status
    Calls <- MCCalls
    Navigations <- MCNavigations
    Posts <- MCPosts
    Topics <- MCTopics
    MaxFaults = 2
    Delays = 1
INVARIANTS TypeOK ShownIsCurrent EventsAreTrue
PROPERTIES CallSpec NotHammered Reconnects
CHECK_DEADLOCK FALSE
