SPECIFICATION FairSpec
CONSTANTS
  NWheels = 1
  Velocities = {0, 1}
  NoCurrent = NoCurrent
INVARIANTS OneVerdict NeverStranded
PROPERTIES FailureReleases CommandReachesWheels
