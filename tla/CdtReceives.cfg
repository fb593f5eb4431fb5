SPECIFICATION FairSpec
CONSTANTS
  Kinds = {"YC"}
  Value = 5
  Station = 1
  MaxFrame = 256
  MaxFaults = 1
PROPERTY Receives
