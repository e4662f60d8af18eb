CONSTANTS
  MaxTx = 2
  MaxGen = 2
  MaxRuntimes = 3
  MaxRevision = 2
  MaxUpdates = 1
  MaxCrashes = 1
  MaxFailures = 1
SPECIFICATION Spec
CHECK_DEADLOCK FALSE
PROPERTIES LaunchHonoursGate
