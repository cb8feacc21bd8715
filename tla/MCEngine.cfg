SPECIFICATION ESpec
CONSTANTS
  InputRingCapacity = 3
  StitchingWindow = 1
  Times = {0, 1, 2, 3}
  BodyDetections <- MCBodies
  HorizonDetections <- MCHorizons
  NoDetection = NoDetection
  CaptureInOrder = TRUE
  MaxFrames = 4
  FullTurn = 8
  SameLookDirection = 0
  MaxAbsIntercept = 60
  OutlierK = 3
  MinSightsForOutlier = 3
  SightWindowCapacity = 3
  SightWindowSeconds = 2
  PanoramaReach = 1
  EphemerisFallback = TRUE
  ColdStartEnabled = TRUE
  LockAp = FALSE
  StaleIntercept = 20
  MinAzimuthSpread = 1
  NoFrame = NoFrame
  NoTime = NoTime
  PriorMaxAge = 1
  AppendsMayFail = FALSE
  LogsRotate = FALSE
  MaxRestarts = 0
INVARIANTS
  NoDoubleCount
  PublishedFixIsFresh
  FixesMoveForward
  FixRestsOnTwoLooks
  FixIsReproducible
PROPERTIES
  LeavesByAgeOrRank
CHECK_DEADLOCK FALSE
