SPECIFICATION DevicesSpec
CONSTANTS
  None = None
  Nobody = Nobody
  Procs = {p1, p2}
  Items = {a, b}
  Count = 2
  Wrap = 4
  Msgs = {m}
  Posters = {q1, q2}
  Capacity = 2
  Fds = {f1, f2}
  LoopItems = {i1, i2}
  Contexts = {c1, c2}
  Wake = Wake
  MaxBatch = 2
  Readers = {r1, r2}
  NoReader = NoReader
  LightChannels = {als}
  LightSamples = 3
  Users = {u1, u2}
  NoOwner = NoOwner
  Channels <- BootChannels
  Temps = {41, 44, 60}
  KernelTemps <- RoomTemps
  IntMax = 127
  ManualDuties = {0, 200}
  Debounce = 2
  MaxEdges = 4
  MaxFaults = 2
  MaxPairFaults = 2
  MaxSysfsFaults = 2
  MaxDriverFaults = 2
  MaxKeyFaults = 2
  MaxKills = 1
  MaxCrashes = 1
  MaxSleeps = 1
  MaxPairSleeps = 1
  MaxFanSleeps = 1
  MaxKeySleeps = 1
  RingCount = 2
  HistoryCap = 3
  MaxDt = 2
  Skews = {0, 2}
  Latency = 2
  MaxTime = 5
INVARIANTS
  SensorsSound
  PoseFound
  NothingMissed
  FansSafe
PROPERTIES
  RingIsFifo
  NoStaleEvent
  DevicesLive
CHECK_DEADLOCK FALSE
