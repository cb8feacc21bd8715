SPECIFICATION CSpec
CONSTANTS
  Sinks <- MCSinks
  Clients = {c1, c2}
  MaxFixes = 2
  NoTree = NoTree
  Original <- MCOriginal
  Payloads <- MCPayloads
  MaxRuns = 3
  MaxFaults = 3
INVARIANTS
  NoPlotterMissesAFix
  DataIsWhole
  OneFailureIsSurvived
PROPERTIES
  EverySinkGetsEveryFix
  CtrlCEnds
  ErrorsLeaveTheData
CHECK_DEADLOCK FALSE
