SPECIFICATION Spec
CONSTANTS
  Encoder = 6
  Turn = 9
  Initial = 4
  MaxShaft = 9
PROPERTIES ImplementsOdometer ReadOffByTurns
