SPECIFICATION FairSpec
CONSTANTS
  a = a
  b = b
  Node = {a, b}
  Peer <- MCPeer
  Priority <- MCPriority
  WinsTie <- MCNoTie
  MissedLimit = 3
  RecvTimeoutCode <- MCWindows
  Unbound = {}
  MaxConn = 1
  MaxFrames = 1
  MaxCrash = 1
  MaxConsole = 0
  MaxReload = 0
PROPERTY FailoverHappens
