SPECIFICATION Spec
CONSTANTS
    Frontiers = {f1, f2, f3}
    Gaps = {g1, g2}
    Rounds = 2
    MaxRetries = 2
    InstantLimit = 2
    HomeRetries = 3
    None = None
INVARIANTS
    TypeOK
    OneDriver
    CanceledIsOver
PROPERTIES
    NoticedEndsRun
    PipelineEnds
