SPECIFICATION FairSpec
CONSTANTS
  Velocities = {0, 1}
  Far = 1
  NoCurrent = NoCurrent
PROPERTIES BrakesFirst RelaxCuts ManualFollows Shuttles
