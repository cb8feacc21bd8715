SPECIFICATION MCSpec
CONSTANTS
  Processes = {p1}
  Kinds <- MCKinds
  RotationSize = 4
  Retention = 1
  MaxRecords = 2
  MaxHours = 1
  MaxFaults = 1
  Ids = {c1}
  MaxInterrupts = 0
INVARIANTS
  KillsAreSurvived
CHECK_DEADLOCK FALSE
