CONSTANTS
  p1 = p1
  p2 = p2
  p3 = p3
  w1 = w1
  w2 = w2
  w3 = w3
  Profiles = {p1, p2}
  Workers = {w1, w2}
  NoProfile = NoProfile
  HeadStart = 2
  Cap = 3
  HoldCap = 2
  Poll = 1
  MaxTime = 3
  MaxClicks = 1
  MaxStops = 1
SPECIFICATION Spec
PROPERTIES PassEnds
