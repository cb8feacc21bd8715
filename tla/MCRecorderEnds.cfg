SPECIFICATION RSpec
CONSTANTS
  Sigmas = {1}
  HardSigma = 1
  NoFix = NoFix
  NoEntry = NoEntry
  CallsMayFail = FALSE
  MaxCaptures = 2
  MaxStops = 2
  MaxFixes = 0
PROPERTIES
  SessionsTimeOut
CHECK_DEADLOCK FALSE
