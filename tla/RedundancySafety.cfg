SPECIFICATION Spec
CONSTANTS
  a = a
  b = b
  Node = {a, b}
  Peer <- MCPeer
  Priority <- MCPriority
  WinsTie <- MCNoTie
  MissedLimit = 2
  RecvTimeoutCode <- MCMixed
  Unbound = {}
  MaxConn = 1
  MaxFrames = 1
  MaxCrash = 0
  MaxConsole = 1
  MaxReload = 1
INVARIANTS TypeOK EffectsFollowRole PriorityKnown
