SPECIFICATION FairSpec
CONSTANTS
  Steps = {0, 1}
  MaxTarget = 1
  MaxYaw = 3
  MaxSince = 3
INVARIANTS InForce
PROPERTIES NeverByEncoder YawKept ComesRound
