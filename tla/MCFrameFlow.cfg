SPECIFICATION Spec
CONSTANTS
    Captures = {a1, a2}
    Outputs = {b1, b2, b3}
    None = None
    Depth = 2
    MaxFrame = 2
    WaitsMayFail = TRUE
    QueueMayFail = TRUE
SYMMETRY Symmetry
CHECK_DEADLOCK FALSE
INVARIANTS
    PathSound
    WritesUnseen
    CleanupSound
PROPERTIES
    ShowsForward
