SPECIFICATION Spec
CONSTANTS
    Captures = {a1, a2}
    Outputs = {b1, b2, b3}
    None = None
    Depth = 1
    MaxFrame = 0
    WaitsMayFail = TRUE
    QueueMayFail = TRUE
CHECK_DEADLOCK FALSE
INVARIANTS
    ScannedFrameHeld
