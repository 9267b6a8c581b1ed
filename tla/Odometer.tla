------------------------------ MODULE Odometer ------------------------------
(***************************************************************************)
(* What a motor's feedback promises: an unbounded count of how far the     *)
(* output shaft has turned, advanced by exactly the distance turned        *)
(* between two feedback frames, whatever the encoder wraps around at.      *)
(* Clearing it is not atomic: it first drops the whole turns, then the     *)
(* rest, and a frame in between may leave one whole turn on the count.     *)
(***************************************************************************)
EXTENDS Integers

CONSTANT Turn    \* one turn of the output shaft

VARIABLES shaft,  \* where the shaft was seen last
          count   \* how far it has turned

vars == <<shaft, count>>

Init == shaft = 0 /\ count = 0

Advance == count' - count = shaft' - shaft

DropTurns ==
  /\ UNCHANGED shaft
  /\ -Turn <= 2 * count' /\ 2 * count' < Turn

Clear ==
  /\ UNCHANGED shaft
  /\ count' \in {-Turn, 0, Turn}

Next == Advance \/ DropTurns \/ Clear

Spec == Init /\ [][Next]_vars
=============================================================================
