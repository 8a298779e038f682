SPECIFICATION FairSpec
CONSTANTS
    Producers = {p1, p2}
    Managers = {m1, m2}
    Workers = {w1, w2}
    Nobody = Nobody
    Depth = 2
    IdleModes = {TRUE}
    MaxFrames = 4
    MaxStarts = 2
CHECK_DEADLOCK FALSE
INVARIANTS
    NodeSound
PROPERTIES
    QueueSpec
    StopReturns
    FramesServed
