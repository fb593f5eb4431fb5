SPECIFICATION PempSpec
CONSTANTS
  s1 = s1
  c1 = c1
  c2 = c2
  c3 = c3
  Source = {s1}
  MaxSeq = 2
  Client = {c1, c2, c3}
  MaxLive = 1
  CleanupPeriod = 2
  NumDevices = 1
  DiInterval = 1
  AiInterval = 1
  AckTicks = 1
  MaxSize = 0
  CountLimit = 1
  LenLimit = 2
  Frames = {"start", "ack"}
  Quiet = TRUE
  Faults = {"cut", "stall"}
  MaxRestart = 1
INVARIANTS PempTypeOK OneAtATime ThreadsBounded
PROPERTY OrderedDelivery
SYMMETRY Slots
