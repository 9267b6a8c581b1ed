SPECIFICATION FairSpec
CONSTANTS
  AnglePerBullet = 1
  ReverseAngle = 1
  StuckThreshold = 1
  Requests <- MCForward
  Supplies <- MCSupplies
  MaxAngle = 1
  MaxCount = 1
  Vision = TRUE
  TriggerAtBoot = FALSE
INVARIANTS NoLostWakeup WakesOnlySuspended
PROPERTIES StopWins JamAnswered
