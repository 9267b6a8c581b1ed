--------------------------- MODULE MotorFeedback ---------------------------
(***************************************************************************)
(* The feedback of one CAN motor (class CANMotorFeedback).  The encoder    *)
(* reports the rotor's position modulo one turn; process_feedback() turns  *)
(* two successive positions into a movement, adds it to an angle kept      *)
(* within half a turn of the output shaft, and counts the whole turns.     *)
(* The CAN receive thread preempts every reader, and neither               *)
(* accumulate_angle() nor reset_accumulate_angle() takes a lock, so a      *)
(* frame may fall between their two accesses.                              *)
(*                                                                         *)
(* Angles are encoder units; a turn of the output shaft is Turn of them    *)
(* (the reduction ratio times Encoder).  The rounding of floats is left    *)
(* out.  Frames may be lost.                                               *)
(***************************************************************************)
EXTENDS Integers

CONSTANTS
  Encoder,   \* 8192: encoder positions in a turn of the rotor
  Turn,      \* encoder units in a turn of the output shaft
  Initial,   \* initial_encoder_angle
  MaxShaft   \* bound: the rotor stays within -MaxShaft..MaxShaft

ASSUME MotorFeedbackAssumption ==
  /\ Encoder \in Nat /\ Encoder > 0
  /\ Turn \in Nat /\ Turn >= Encoder
  /\ Initial \in 0..(Encoder - 1)
  /\ MaxShaft \in Nat

VARIABLES
  rotor,    \* position the encoder would report now
  shaft,    \* how far the rotor has turned from its zero pose
  seen,     \* shaft as of the last frame processed
  lastRaw,  \* last_rotor_angle_raw
  angle,    \* actual_angle
  rounds,   \* round_count
  caller,   \* what a thread below the CAN receive thread is doing
  got,      \* what it has read so far, then what accumulate_angle() returned
  before    \* what accumulate_angle() would have returned as it was entered

vars == <<rotor, shaft, seen, lastRaw, angle, rounds, caller, got, before>>

Accumulated == angle + rounds * Turn

Within(x, half) == -half < x /\ x < half

(* A position that has left 0..Encoder-1 by less than a turn.              *)
Wrap(p) == IF p >= Encoder THEN p - Encoder
           ELSE IF p < 0 THEN p + Encoder ELSE p

(* The rotor starts less than half a turn from the zero pose.              *)
Init ==
  /\ shaft \in {d \in -MaxShaft..MaxShaft : Within(2 * d, Encoder)}
  /\ rotor = Wrap(Initial + shaft)
  /\ seen = 0 /\ lastRaw = Initial
  /\ angle = 0 /\ rounds = 0
  /\ caller = "idle" /\ got = 0 /\ before = 0

(* The rotor turns.  Frames come every millisecond, and a rotor takes more *)
(* than six to turn once, so even if a few frames are lost it has turned   *)
(* by less than half a turn since the last one that arrived.               *)
Rotate(d) ==
  /\ shaft + d \in -MaxShaft..MaxShaft
  /\ Within(2 * (shaft + d - seen), Encoder)
  /\ shaft' = shaft + d /\ rotor' = Wrap(rotor + d)
  /\ UNCHANGED <<seen, lastRaw, angle, rounds, caller, got, before>>

UnwrapBackOnly(m) ==   \* mutant of Unwrap: forwards over zero only
  IF 2 * m < -Encoder THEN m + Encoder ELSE m

(* Too extreme a movement went over the 0 point.                           *)
Unwrap(m) ==
  IF 2 * m < -Encoder THEN m + Encoder
  ELSE IF 2 * m > Encoder THEN m - Encoder ELSE m

(* Angle crop.                                                             *)
Crop(a, r) ==
  IF 2 * a >= Turn THEN <<a - Turn, r + 1>>
  ELSE IF 2 * a < -Turn THEN <<a + Turn, r - 1>> ELSE <<a, r>>

(* A caller is between two accesses for less than the interval of frames,  *)
(* so it sees at most one frame there.                                     *)
Hit == [idle |-> "idle", readAngle |-> "readAngleHit",
        readRounds |-> "readRoundsHit", clear |-> "clearHit"]

(* process_feedback(), in the CAN receive thread.                          *)
ProcessFeedback ==
  /\ caller \in DOMAIN Hit
  /\ LET cropped == Crop(angle + Unwrap(rotor - lastRaw), rounds) IN
       /\ angle' = cropped[1] /\ rounds' = cropped[2]
  /\ lastRaw' = rotor /\ seen' = shaft
  /\ caller' = Hit[caller]
  /\ UNCHANGED <<rotor, shaft, got, before>>

(* accumulate_angle(): the compiler may load either operand first.         *)
ReadFirst(operand) ==
  /\ caller = "idle"
  /\ caller' = operand
  /\ got' = IF operand = "readAngle" THEN angle ELSE rounds * Turn
  /\ before' = Accumulated
  /\ UNCHANGED <<rotor, shaft, seen, lastRaw, angle, rounds>>

ReadMotorTurns ==   \* mutant of ReadSecond: rounds taken as turns of the rotor
  /\ caller \in {"readAngle", "readAngleHit", "readRounds", "readRoundsHit"}
  /\ caller' = "idle"
  /\ got' = got + (IF caller \in {"readAngle", "readAngleHit"}
                     THEN rounds * Encoder ELSE angle)
  /\ UNCHANGED <<rotor, shaft, seen, lastRaw, angle, rounds, before>>

ReadSecond ==
  /\ caller \in {"readAngle", "readAngleHit", "readRounds", "readRoundsHit"}
  /\ caller' = "idle"
  /\ got' = got + (IF caller \in {"readAngle", "readAngleHit"}
                     THEN rounds * Turn ELSE angle)
  /\ UNCHANGED <<rotor, shaft, seen, lastRaw, angle, rounds, before>>

(* reset_accumulate_angle(): the rounds, then the angle.                   *)
ResetRounds ==
  /\ caller = "idle"
  /\ rounds' = 0
  /\ caller' = "clear"
  /\ UNCHANGED <<rotor, shaft, seen, lastRaw, angle, got, before>>

ResetAngle ==
  /\ caller \in {"clear", "clearHit"}
  /\ angle' = 0
  /\ caller' = "idle"
  /\ UNCHANGED <<rotor, shaft, seen, lastRaw, rounds, got, before>>

Read == ReadSecond \/ \E o \in {"readAngle", "readRounds"} : ReadFirst(o)

Reset == ResetRounds \/ ResetAngle

Next == Read \/ Reset \/ ProcessFeedback \/ \E d \in {-1, 1} : Rotate(d)

Spec == Init /\ [][Next]_vars

-----------------------------------------------------------------------------
Callers == DOMAIN Hit \cup {"readAngleHit", "readRoundsHit", "clearHit"}

TypeOK ==
  /\ rotor \in 0..(Encoder - 1) /\ lastRaw \in 0..(Encoder - 1)
  /\ shaft \in Int /\ seen \in Int
  /\ angle \in Int /\ rounds \in Int
  /\ caller \in Callers
  /\ got \in Int /\ before \in Int

(* "Actual motor angle vary from -180 to 180": one crop per frame is       *)
(* enough, for every reduction ratio of at least one.                      *)
AngleCropped == -Turn <= 2 * angle /\ 2 * angle < Turn

(* The feedback implements an odometer: over any sequence of frames, some  *)
(* of them lost, with the encoder wrapping and the angle cropped in either *)
(* direction, the accumulated angle advances by what the rotor turned, and *)
(* a reset leaves at most one whole turn.                                  *)
Odometer == INSTANCE Odometer WITH shaft <- seen, count <- Accumulated
ImplementsOdometer == Odometer!Spec

(* What an unlocked accumulate_angle() returns is off by whole turns at    *)
(* most.                                                                   *)
Returns == caller' = "idle" /\ caller \in {"readAngle", "readAngleHit",
                                          "readRounds", "readRoundsHit"}
ReadOffByTurns ==
  [][Returns => \/ got' - before \in {-Turn, 0, Turn}
                \/ got' - Accumulated \in {-Turn, 0, Turn}]_vars

(* "Get accumulate angle of the motor" (can_motor_feedback.h): what is     *)
(* returned is the accumulated angle before or after the frame that fell   *)
(* into the call, if any.                                                  *)
ReadIsAccumulated ==
  [][Returns => got' \in {before, Accumulated}]_vars

(* "Reset accumulated angle of bullet loader to 0" (shoot_scheduler.h).    *)
ResetIsZero ==
  [][caller' = "idle" /\ caller \in {"clear", "clearHit"}
       => Accumulated' = 0]_vars
=============================================================================
