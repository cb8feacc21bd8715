SPECIFICATION ESpec
CONSTANTS
  InputRingCapacity = 2
  StitchingWindow = 1
  Times = {0, 1, 2}
  BodyDetections <- MCRestartBodies
  HorizonDetections <- MCHorizons
  NoDetection = NoDetection
  CaptureInOrder = TRUE
  MaxFrames = 2
  FullTurn = 8
  SameLookDirection = 0
  MaxAbsIntercept = 60
  OutlierK = 3
  MinSightsForOutlier = 3
  SightWindowCapacity = 2
  SightWindowSeconds = 1
  PanoramaReach = 1
  EphemerisFallback = TRUE
  ColdStartEnabled = TRUE
  LockAp = FALSE
  StaleIntercept = 20
  MinAzimuthSpread = 1
  NoFrame = NoFrame
  NoTime = NoTime
  PriorMaxAge = 1
  AppendsMayFail = TRUE
  LogsRotate = TRUE
  MaxRestarts = 1
PROPERTIES
  RestartRecovers
CHECK_DEADLOCK FALSE
