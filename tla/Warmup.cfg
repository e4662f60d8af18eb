CONSTANTS
  p1 = p1
  p2 = p2
  p3 = p3
  w1 = w1
  w2 = w2
  w3 = w3
  Profiles <- MCProfiles
  Workers <- MCWorkers
  NoProfile = NoProfile
  HeadStart = 2
  Cap = 3
  HoldCap = 2
  Poll = 1
  MaxTime = 3
  MaxClicks = 2
  MaxStops = 1
SPECIFICATION Spec
SYMMETRY MCSymmetry
INVARIANTS TypeOK NoLostWakeup HeldForLeader PassSettled
PROPERTIES OthersWaitForNewest GateReported
