SPECIFICATION MCSpec
CONSTANTS
  InputRingCapacity = 3
  StitchingWindow = 1
  Times = {0, 1, 2, 3, 4}
  BodyDetections <- MCBodyDetections
  HorizonDetections <- MCHorizonDetections
  NoDetection = NoDetection
  CaptureInOrder = TRUE
  MaxFrames = 5
  VecTimes = {0, 1, 2, 3}
  VecBodyDetections <- MCVecBodyDetections
  VecHorizonDetections <- MCVecHorizonDetections
  VecFrames = 4
INVARIANTS
  RecordsReferenceLiveFrames
  IntermediariesRetained
  QueuesInOrder
PROPERTIES
  RecordsLeaveOnlyByForce
  ImplementsStorage
CHECK_DEADLOCK FALSE
