SPECIFICATION UIFairSpec
CONSTANTS
  Resetters = {"User", "UserAction"}
  Labels <- MCLabels
  Lines <- MCLines
  Circles <- MCCircles
  Gauge = "cap"
  Values = {"low", "high"}
  MaxLabels = 2
  MaxShapes = 4
  TxMax = 1
  MaxResets = 3
INVARIANTS Fits SentIsShown NoGhosts
PROPERTIES ScreenFollows
