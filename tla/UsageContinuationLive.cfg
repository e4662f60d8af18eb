CONSTANTS
  MaxTurns = 2
  MaxAttempts = 1
  MaxEntries = 2
  MaxCrashes = 1
  MaxFailures = 1
  NoEntry = NoEntry
SPECIFICATION Spec
CHECK_DEADLOCK FALSE
PROPERTIES DecidedForGood EveryStopDecided
