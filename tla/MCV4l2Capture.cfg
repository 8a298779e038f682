SPECIFICATION FairSpec
CONSTANTS
    Buffers = {a1, a2, a3}
    Clients = {c1, c2}
    Camera = Camera
    Main = Main
    None = None
CHECK_DEADLOCK FALSE
INVARIANTS
    FramesSound
    CameraWritesUnheld
    DequeuedIsFree
    NoBufferLost
PROPERTIES
    CallsReturn
