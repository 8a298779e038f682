SPECIFICATION FairSpec
CONSTANTS
    Holders = {h1, h2, q1, q2}
    Threads = {h1, h2}
    Slots = {s1, s2}
    Fds = {f1, f2}
    NoFd = NoFd
    NoHolder = NoHolder
    RefMax = 3
INVARIANTS
    CountsSound
    FreeListExact
    ImagesBacked
    OneRecycler
PROPERTIES
    LoanSpec
    DroppedSlotReturns
