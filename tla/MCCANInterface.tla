--------------------------- MODULE MCCANInterface ---------------------------
(* A bus with motors at both ends of the range and a gap, the capacitor,   *)
(* and one motor that is on the bus though no profile names it.            *)
EXTENDS CANInterface

BusMotors == {1, 3, 4, 11}
Capacitor == {17}
Unlisted == {2}
=============================================================================
