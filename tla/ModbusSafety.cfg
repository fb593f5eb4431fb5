SPECIFICATION Spec
CONSTANTS
  do1 = do1
  do2 = do2
  ao1 = ao1
  k1 = k1
  k2 = k2
  adr1 = adr1
  adr2 = adr2
  Point = {do1, do2, ao1}
  Channel = {k1, k2}
  ChannelOf <- MCTwoChannels
  Address <- MCAddress
  IsAo <- MCAo
  Invert <- MCNone
  Pulsed <- MCAllPulsed
  Commanded <- MCBoth
  Faults = {"refused", "eof", "error"}
  EarlyCommands = TRUE
  MaxValue = 2
  MaxCommands = 1
  MaxPulses = 3
  MaxReload = 1
INVARIANT TypeOK
INVARIANT NoRepeat
