SPECIFICATION CSpec
CONSTANTS
  Sinks <- MCSinks
  Clients = {c1}
  MaxFixes = 1
  NoTree = NoTree
  Original <- MCOriginal
  Payloads <- MCPayloads
  MaxRuns = 3
  MaxFaults = 2
INVARIANT PreviousDataIntact
CHECK_DEADLOCK FALSE
