SPECIFICATION SSpec
CONSTANTS
  Subscribers = {s1, log}
  Sessions = {s1}
  Sigmas = {1, 2}
  MaxFixes = 1
  CallbacksMayThrow = FALSE
  NoFix = NoFix
PROPERTIES
  DropNotifies
CHECK_DEADLOCK FALSE
