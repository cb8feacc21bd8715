SPECIFICATION MCSpec
CONSTANTS
  Processes = {p1}
  Kinds <- MCKinds
  RotationSize = 4
  Retention = 1
  MaxRecords = 4
  MaxHours = 3
  MaxFaults = 1
  Ids = {c1, c2}
  MaxInterrupts = 1
SYMMETRY Uploads
INVARIANTS
  CrashInventsNothing
  AcknowledgedStay
  NeverPanics
  LocksAreReleased
  EntriesAreWhole
  DeletedStaysHidden
  GoneMeansUnindexed
CHECK_DEADLOCK FALSE
