SPECIFICATION MCSpec
CONSTANTS
  Condition = {"Day", "Twilight", "Night"}
  NoCondition = NoCondition
  SettleFrames = 2
  MaxUpdates = 3
  Enabled <- MCProviders
  Lines <- MCLines
  Bands = {"AboveHorizon", "Civil", "Night"}
  SkyFractions = {3, 12}
  EarlyPrecision = 5
  MaxPrecision = 4
  ConcordanceK2 = 4
  MaxSeen = 2
  MaxHypotheses = 3
  FullTurn = 8
  SameLookDirection = 1
  MaxAbsIntercept = 60
  OutlierK = 3
  MinSightsForOutlier = 3
  Azimuths = {0, 1, 2}
  Intercepts <- MCIntercepts
  Sigmas = {1, 4}
  MaxSights = 4
INVARIANTS
  SmoothedIsLastSettled
  NeverLessCertain
  RestsOnFitProviders
  NoContradictionKept
  NearestSurvivesContradiction
CHECK_DEADLOCK FALSE
