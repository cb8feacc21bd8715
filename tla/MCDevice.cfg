SPECIFICATION MCSpec
CONSTANTS
  Submissions = {1, 2}
  Flushers = {f1}
  MaxAttempts = 2
  MayCorrupt = {1}
  NoCollectorId = NoCollectorId
  MaxCrashes = 1
  Ids = {c1, c2}
  MaxInterrupts = 1
  Refusable = {2}
  Sigmas = {1}
  HardSigma = 1
  NoFix = NoFix
  NoEntry = NoEntry
  CallsMayFail = TRUE
  MaxCaptures = 2
  MaxStops = 1
  MaxFixes = 1
INVARIANTS
  SentIsStored
  RetriesAreBounded
  SavedIsItsOwnBest
PROPERTIES
  NothingLeavesUnresolved
  EveryEntryIsResolved
  SavingEnds
CHECK_DEADLOCK FALSE
