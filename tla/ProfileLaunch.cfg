CONSTANTS
  warmup = warmup
  login = login
  task = task
  show = show
  Warmups <- MCWarmups
  Shows <- MCShows
  Logins <- MCLogins
  Tasks <- MCTasks
  Closer = Closer
  Free = Free
  MaxLaunches = 2
  MaxCloses = 1
  MaxExits = 1
  MaxCrashes = 1
SPECIFICATION Spec
CHECK_DEADLOCK FALSE
INVARIANTS TypeOK ClosedStaysClosed ExitLeavesNothing RemovedNotRunning LinkToAwaited WaitsEndWithClose
