SPECIFICATION Spec
CONSTANTS
  MaxFailures = 3
  None = None
  Crtcs = {"k1", "k2"}
  Encoders = {"e1", "e2"}
  Connectors = {"c1", "c2", "c3"}
  MaxRouted = 2
  Hardware <- HardwareRange
  Timeout = 5
  Period = 2
  StallLimit = 2
  WorkMax = 2
  FirstDay = 2
  LastDay = 3
  High = 4
  Low = 3
  MaxPhotos = 2
  MaxFaults = 1
  Width = 3
  Height = 5
  Maps <- SomeMaps
  Scores = {0, 1, 2}
  MaxBoxes = 2
  PageBoxes <- SomeBoxes
  MaxFound = 3
  Glyphs = {"a", "b"}
  Blank = "-"
  Space = " "
  MaxFile = 2
  MaxSteps = 3
  MaxRoom = 2
  Letters = {"a", "b", "w"}
  Alone = {"z", "<", "/", ">"}
  Gap = "_"
  Pieces <- SomePieces
  Texts <- SomeTexts
  Bytes <- Wide
  MaxTokens = 6
  Capacities = {1, 2, 4}
  MaxCalls = 2
  MaxTrFaults = 3
INVARIANTS
  CleanEnd
  RouteSound
  RecognitionSound
  ReadingSound
PROPERTIES
  ExitSound
  ExitsLive
  ArchiveSound
CHECK_DEADLOCK FALSE
