SPECIFICATION FairSpec
CONSTANTS
    Captures = {a1, a2}
    Outputs = {b1, b2, b3}
    None = None
    Depth = 1
    MaxFrame = 0
    WaitsMayFail = FALSE
    QueueMayFail = FALSE
CHECK_DEADLOCK FALSE
PROPERTIES
    DisplayMoves
    ShutdownEnds
