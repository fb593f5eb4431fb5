SPECIFICATION ServersSpec
CONSTANTS
  s1 = s1
  c1 = c1
  Client = {c1}
  SeqModulus = 4
  DiCount = 60
  DiPlace = 1
  MaxPerFrame = 120
  MaxAsdu = 249
  Requests = {"gi", "command", "unknown", "startdt", "ack"}
  MaxRequests = 1
  MaxChanges = 2
  MaxCycles = 1
  Files <- MCFiles
  Master = {"m1", "m2"}
  From <- MCFrom
  CleanupPeriod = 2
  Frames = {"other", "malformed"}
  BindFails = FALSE
  MaxStart = 2
  MaxFrames = 2
  Interval = 2
  MaxNow = 3
  MaxBreaks = 1
  MaxStarts = 2
  MaxDiChanges = 1
INVARIANTS TellsTruth NothingLeft OnePerSlot
PROPERTIES SoeUploaded PempStopReturns InSequence Iec104StopReturns
PROPERTIES DeadPeerNoticed Reconnects ModbusStopReturns RecorderRecovers
