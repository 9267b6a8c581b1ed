SPECIFICATION Spec
CONSTANTS
  Ids = {gyro, accel}
  Values = {old, new}
  NoId = NoId
  NoValue = NoValue
  MaxBlocks = 3
SYMMETRY Symmetry
INVARIANTS Durable Coherent
