SPECIFICATION RecorderSpec
CONSTANTS
  Interval = 2
  MaxNow = 4
  MaxBreaks = 1
  MaxStarts = 2
  MaxDiChanges = 1
INVARIANT HandleProtected
CHECK_DEADLOCK FALSE
