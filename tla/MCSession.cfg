SPECIFICATION SSpec
CONSTANTS
  Subscribers = {s1, log}
  Sessions = {s1}
  Sigmas = {1, 2}
  MaxFixes = 3
  CallbacksMayThrow = TRUE
  NoFix = NoFix
INVARIANTS
  StreamsAreWhole
  AcceptedIsTightest
PROPERTIES
  TerminalIsFinal
  EveryFixIsHeard
CHECK_DEADLOCK FALSE
