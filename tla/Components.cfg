SPECIFICATION ComponentsSpec
CONSTANTS
  s1 = s1
  c1 = c1
  c2 = c2
  NumCollectors = 2
  HasConsole = TRUE
  HasRole = TRUE
  DelayCovers = TRUE
  Watched = {1}
  Targets = {1, 3}
  Failing = {3}
  CalmEditor = FALSE
  MinGap = 0
  Threshold = 0
  Granularity = 1
  MaxTime = 1
  MaxSaves = 1
  Source = {s1}
  MaxSeq = 2
  Client = {c1, c2}
  MaxLive = 2
  CleanupPeriod = 1
  NumDevices = 1
  DiInterval = 0
  AiInterval = 0
  AckTicks = 1
  MaxSize = 0
  CountLimit = 1
  LenLimit = 1
  Frames = {"start"}
  Quiet = FALSE
  Faults = {"cut"}
  MaxRestart = 0
  Protocols = {"rtu", "dlt645", "iec101", "iec103"}
  Reads = {"m1", "m2", "m3"}
  Coils = {"d1"}
  Foreign = {"m3"}
  MaxLeft = 1
  MaxCommands = 2
  MaxStops = 1
  Di = {"d1", "d2"}
  Ai = {"a1", "a2"}
  Layouts <- TcpLayouts
  SerialLayouts <- RtuLayouts
  Bases = {1, 101}
  AddrSpace = 8
  ByteBits = 2
  MaxDiRead = 3
  MaxAiRead = 3
  MaxDataChanges = 1
INVARIANTS TypeOK CollectorsFollowRole ShutdownComplete
INVARIANTS Attribution TakenBack ReadBack
PROPERTY Delivery
SYMMETRY Slots
