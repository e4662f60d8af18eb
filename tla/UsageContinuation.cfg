CONSTANTS
  MaxTurns = 3
  MaxAttempts = 1
  MaxEntries = 2
  MaxCrashes = 1
  MaxFailures = 0
  NoEntry = NoEntry
SPECIFICATION Spec
CHECK_DEADLOCK FALSE
INVARIANTS TypeOK ContinuedOnce

