SPECIFICATION CANSpec
CONSTANTS
  Motors <- BusMotors
  Device <- Capacitor
  Strangers <- Unlisted
  Capacity = 20
  Depth = 3
  QuietBoot = TRUE
INVARIANTS NoneForgotten EachOnce
