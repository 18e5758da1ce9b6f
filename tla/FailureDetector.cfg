\* A window of three samples; the sum stays an int.
CONSTANTS
  SampleSize = 3
  InitialValue = 2
  Threshold = 1
  PhiNum = 43
  PhiDen = 100
  IntHalf = 16
  MaxInterval = 5
  MaxElapsed = 12
SPECIFICATION DetectorFairSpec
INVARIANTS KeepingPaceIsUp
PROPERTIES OnlyHeartbeatRevives SilentNodeGoesDown
CHECK_DEADLOCK FALSE
