SPECIFICATION FairSpec
CONSTANTS
  w1 = w1
  w2 = w2
  d1 = d1
  x1 = x1
  s1 = s1
  s2 = s2
  Writer = {w1, w2}
  DoPoint = {d1}
  OtherPoint = {x1}
  Silent = {}
  Commands = {TRUE, FALSE}
  Heard = {x1}
  Subscriber = {s1, s2}
  Leaver = {s1}
  DoPulseMs = 1
  MaxLag = 1
  MaxBack = 1
  MaxPulses = 2
  Reloads = {"rolledBack"}
  MaxReloads = 1
  Owner <- MCOwner
  FirstHandlers <- MCFirstHandlers
INVARIANTS TypeOK AloneKnown
PROPERTIES PulseWhole PulseEnds
