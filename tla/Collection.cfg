SPECIFICATION FairSpecOne
CONSTANTS
  NumCollectors = 1
  HasConsole = FALSE
  HasRole = TRUE
  DelayCovers = FALSE
  Watched = {2}
  Targets = {}
  Failing = {1}
  CalmEditor = TRUE
  MinGap = 2
  Threshold = 1
  Granularity = 2
  MaxTime = 5
  MaxSaves = 2
  do1 = do1
  ao1 = ao1
  k1 = k1
  adr1 = adr1
  adr2 = adr2
INVARIANT KeepsOldConfig
PROPERTIES OnConsumed AoFollows PulseEnds ReloadCatchesUp StopReturns
