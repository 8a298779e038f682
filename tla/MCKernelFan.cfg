SPECIFICATION KFanSpec
CONSTANTS
  KernelTemps = {39, 46, 53, 60, 70}
  IntMax = 127
  ManualDuties = {}
  MaxDriverFaults = 0
  MaxFanSleeps = 1
INVARIANT
  DutyOfLevel
CHECK_DEADLOCK FALSE
