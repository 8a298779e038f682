\* The program's times in ticks of 500 ms, the long ones scaled down.
SPECIFICATION SupFairSpec
CONSTANTS
    Timeout = 5
    Period = 2
    StallLimit = 2
    WorkMax = 2
CHECK_DEADLOCK FALSE
PROPERTY HangEnds
