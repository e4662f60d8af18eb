CONSTANTS
  w1 = w1
  w2 = w2
  w3 = w3
  main = main
  viewer = viewer
  Workers <- MCWorkers
  Profiles <- MCProfiles
  Nests <- MCNests
  Maintenance = Maintenance
  NoProfile = NoProfile
  MaxNested = 1
  MaxClicks = 2
SPECIFICATION Spec
INVARIANTS TypeOK ExclusiveAlone OneWorkerPerProfile
PROPERTIES MaintenanceFence OnlySelectionOvertakes ImplementsLock MaintenanceAdmitted
