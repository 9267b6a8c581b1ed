SPECIFICATION SKDFairSpec
CONSTANTS
  Angles = {0, 1}
  WheelSpeeds = {0, 3}
  FeedSpeeds = {2}
  BootSpeed = 2
  MaxTurn = 1
  NoCurrent = NoCurrent
INVARIANTS FlagsAgreeWithMode
PROPERTIES LoaderStaysFree RelaxReleasesLoader WheelsComeToRest TargetsReachMotors
