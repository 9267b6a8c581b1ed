------------------------------- MODULE Gimbal -------------------------------
(***************************************************************************)
(* The yaw of the gimbal.  GimbalSKD's thread, above the others, samples   *)
(* the direction every millisecond and hands the target on to the motor    *)
(* controller, whose thread is next.  The user thread sets the mode, write *)
(* by write, moves the target and sets it, in every cycle in which the     *)
(* driver is in control.  The thread of the keys Q and E, below it, turns  *)
(* the target by a quarter.                                                *)
(*                                                                         *)
(* The infantry samples its AHRS, which tells the direction within one     *)
(* turn: GIMBAL_REF_MODE adds up the movements.  Hero and sentry take the  *)
(* encoder of the motor: CHASSIS_REF_MODE.  Angles are in quarter turns.   *)
(* The pitch, whose flags follow those of the yaw, is left out.            *)
(***************************************************************************)
EXTENDS Integers, Sequences

CONSTANTS
  Steps,      \* what the stick or the mouse adds to the target in a cycle
  MaxTarget,  \* bound: the target stays within -MaxTarget..MaxTarget
  MaxYaw,     \* bound: nobody turns the gimbal beyond -MaxYaw..MaxYaw by hand
  MaxSince    \* bound: nor by more than this while it is relaxed

ASSUME GimbalAssumption ==
  /\ Steps \subseteq Int /\ 0 \in Steps
  /\ MaxTarget \in Nat \ {0} /\ MaxYaw \in Nat /\ MaxTarget <= MaxYaw /\ MaxSince \in Nat

Turn    == 4   \* 360 degrees
Wrap    == 2   \* 200 degrees, which three quarters exceed
Quarter == 1

Tables  == {"ANGLE", "VELOCITY", "A2V", "V2I"}
Ways    == {-1, 0, 1}
NoCurrent == 2
Targets == -MaxTarget..MaxTarget

VARIABLES
  ref,        \* the mode this vehicle drives in
  mode,       \* GimbalSKD::mode
  target,     \* GimbalSKD::target_angle[YAW]
  feedback,   \* GimbalSKD::feedback_angle[YAW]
  last,       \* GimbalSKD::last_angle[YAW]
  flag,       \* whether custom feedback is registered, and the enable flags
  targetA,    \* targetA[YAW] of the motor controller
  output,     \* the way the motor is driven, or NoCurrent
  yawTarget,  \* UserI::gimbal_yaw_target_angle_
  order,      \* what the user's cycle read from the remote
  todo,       \* what the cycle has yet to write; << >> while the user sleeps
  at, reg,    \* the thread of the keys: where it is, and what it will store or set
  points,     \* where the gimbal points, within one turn
  since,      \* how far it has turned since GimbalSKD looked
  tracked     \* history: GimbalSKD looked a millisecond ago

skd   == <<mode, target, feedback, last>>
motor == <<flag, targetA, output>>
user  == <<order, todo>>
keys  == <<at, reg>>
plant == <<points, since, tracked>>
vars  == <<ref, skd, motor, yawTarget, user, keys, plant>>

Orders == {<<"RELAX", 0>>, <<"LEAVE", 0>>} \cup ({"DRIVE"} \X Steps)

Init ==
  /\ ref \in {"GIMBAL_REF", "CHASSIS_REF"}
  /\ mode = "RELAX" /\ target = 0 /\ feedback = 0 /\ last = 0
  /\ flag = [t \in Tables |-> FALSE] /\ targetA = 0 /\ output = NoCurrent
  /\ yawTarget = 0 /\ order = <<"RELAX", 0>> /\ todo = << >>
  /\ at = "WAIT" /\ reg = 0
  /\ points = 0 /\ since = 0 /\ tracked = FALSE

-----------------------------------------------------------------------------
(* The user's cycle.                                                       *)

Release  == <<<<"A2V", FALSE>>, <<"V2I", FALSE>>, <<"CURRENT", NoCurrent>>>>
Enable   == <<<<"A2V", TRUE>>, <<"V2I", TRUE>>>>
Register == <<<<"ANGLE", ref = "GIMBAL_REF">>, <<"VELOCITY", ref = "GIMBAL_REF">>>>

ModeLast(doing) ==   \* mutant of Writes: the mode after the flags
  CASE doing = "RELAX" -> Release \o <<<<"MODE", "RELAX">>>>
    [] doing = "DRIVE" -> Register \o Enable \o <<<<"MODE", ref>>, <<"AIM">>>>
    [] doing = "LEAVE" -> << >>

EnableFirst(doing) ==   \* mutant of Writes: enabled, and then the feedback set
  CASE doing = "RELAX" -> <<<<"MODE", "RELAX">>>> \o Release
    [] doing = "DRIVE" -> <<<<"MODE", ref>>>> \o Enable \o Register \o <<<<"AIM">>>>
    [] doing = "LEAVE" -> << >>

(* Of set_mode() and what follows.  While the right button of the mouse is *)
(* pressed everything is left as it is.                                    *)
Writes(doing) ==
  CASE doing = "RELAX" -> <<<<"MODE", "RELAX">>>> \o Release
    [] doing = "DRIVE" -> <<<<"MODE", ref>>>> \o Register \o Enable \o <<<<"AIM">>>>
    [] doing = "LEAVE" -> << >>

Cycle(o) ==
  /\ todo = << >> /\ yawTarget + o[2] \in Targets
  /\ order' = o /\ todo' = Writes(o[1])
  /\ UNCHANGED <<ref, skd, motor, yawTarget, keys, plant>>

Writing(tables) == todo # << >> /\ Head(todo)[1] \in tables /\ todo' = Tail(todo)

WriteMode ==
  /\ Writing({"MODE"})
  /\ mode' = Head(todo)[2]
  /\ UNCHANGED <<ref, target, feedback, last, motor, yawTarget, order, keys, plant>>

WriteFlag ==
  /\ Writing(Tables)
  /\ flag' = [flag EXCEPT ![Head(todo)[1]] = Head(todo)[2]]
  /\ UNCHANGED <<ref, skd, targetA, output, yawTarget, order, keys, plant>>

WriteCurrent ==
  /\ Writing({"CURRENT"})
  /\ output' = Head(todo)[2]
  /\ UNCHANGED <<ref, skd, flag, targetA, yawTarget, order, keys, plant>>

AimOnMove ==   \* mutant of Aim: the target is set only when it moves
  /\ Writing({"AIM"})
  /\ yawTarget' = yawTarget + order[2]
  /\ target' = IF order[2] = 0 THEN target ELSE yawTarget'
  /\ UNCHANGED <<ref, mode, feedback, last, motor, order, keys, plant>>

Aim ==
  /\ Writing({"AIM"})
  /\ yawTarget' = yawTarget + order[2]
  /\ target' = yawTarget'
  /\ UNCHANGED <<ref, mode, feedback, last, motor, order, keys, plant>>

(* Q and E.  The thread runs while the user sleeps, and a whole cycle of   *)
(* the user may come between any two of its steps.                         *)
Press(k) ==
  /\ todo = << >> /\ at = "WAIT" /\ at' = "STORE"
  /\ yawTarget + k \in Targets
  /\ reg' = yawTarget + k
  /\ UNCHANGED <<ref, skd, motor, yawTarget, user, plant>>

Store ==
  /\ todo = << >> /\ at = "STORE" /\ at' = "SET"
  /\ yawTarget' = reg
  /\ UNCHANGED <<ref, skd, motor, user, reg, plant>>

SetTarget ==
  /\ todo = << >> /\ at = "SET" /\ at' = "WAIT"
  /\ target' = reg /\ reg' = 0
  /\ UNCHANGED <<ref, mode, feedback, last, motor, yawTarget, user, plant>>

-----------------------------------------------------------------------------
(* GimbalSKD's thread, and that of the motor controller.                   *)

UnwrapUpOnly(movement) ==   \* mutant of Unwrap: one way round is forgotten
  IF movement < -Wrap THEN movement + Turn ELSE movement

Unwrap(movement) ==
  CASE movement < -Wrap -> movement + Turn
    [] movement > Wrap  -> movement - Turn
    [] OTHER            -> movement

(* What the AHRS measures: -1, 0, 1 or 2 quarters.                         *)
Angle == IF points = Turn - 1 THEN -1 ELSE points

Sample ==
  /\ mode = "GIMBAL_REF"
  /\ feedback' = feedback + Unwrap(Angle - last)
  /\ last' = Angle
  /\ since' = 0 /\ tracked' = TRUE
  /\ targetA' = target
  /\ UNCHANGED <<ref, mode, target, flag, output, yawTarget, user, keys, points>>

Encoder ==
  /\ mode = "CHASSIS_REF"
  /\ feedback' = feedback + since
  /\ since' = 0 /\ tracked' = TRUE
  /\ targetA' = target
  /\ UNCHANGED <<ref, mode, target, last, flag, output, yawTarget, user, keys, points>>

Relaxed ==
  /\ mode = "RELAX"
  /\ flag' = [flag EXCEPT !["V2I"] = FALSE]
  /\ output' = NoCurrent
  /\ tracked' = FALSE
  /\ UNCHANGED <<ref, skd, targetA, yawTarget, user, keys, points, since>>

Toward(a) == CASE a > 0 -> 1 [] a < 0 -> -1 [] OTHER -> 0

(* With the angle loop off, the motor is driven at the speed of before.    *)
Motor ==
  /\ output' =
       IF ~flag["V2I"] THEN output
       ELSE IF flag["A2V"]
       THEN Toward(targetA - feedback - IF flag["ANGLE"] THEN 0 ELSE since)
       ELSE IF output = NoCurrent THEN 0 ELSE output
  /\ UNCHANGED <<ref, skd, flag, targetA, yawTarget, user, keys, plant>>

(* The gimbal turns by no more than a quarter in a millisecond, and does   *)
(* not overshoot; while it is relaxed, it is turned by hand.               *)
Rotate(way) ==
  /\ points' = (points + way) % Turn
  /\ since' = since + way
  /\ UNCHANGED <<ref, skd, motor, yawTarget, user, keys, tracked>>

Push ==
  /\ output \in {-1, 1} /\ Rotate(output)
  /\ tracked /\ since' \in Ways
  /\ Toward(targetA - feedback - since) = output

ByHand ==
  /\ output = NoCurrent /\ \E way \in {-1, 1} : Rotate(way)
  /\ since' \in IF tracked THEN Ways ELSE -MaxSince..MaxSince
  /\ {feedback + since', feedback + Unwrap(since')} \subseteq -MaxYaw..MaxYaw

UserThread  == WriteMode \/ WriteFlag \/ WriteCurrent \/ Aim \/ \E o \in Orders : Cycle(o)
KeyThread   == Store \/ SetTarget \/ \E k \in {-Quarter, Quarter} : Press(k)
SKDThread   == Sample \/ Encoder \/ Relaxed

Next == UserThread \/ KeyThread \/ SKDThread \/ Motor \/ Push \/ ByHand

Spec == Init /\ [][Next]_vars

FairSpec ==
  Spec /\ WF_vars(UserThread) /\ WF_vars(SKDThread) /\ WF_vars(Motor) /\ WF_vars(Push)

-----------------------------------------------------------------------------
TypeOK ==
  /\ ref \in {"GIMBAL_REF", "CHASSIS_REF"} /\ mode \in {"RELAX", ref}
  /\ target \in Targets /\ targetA \in Targets /\ yawTarget \in Targets /\ reg \in Targets
  /\ feedback \in Int /\ last \in -1..2
  /\ flag \in [Tables -> BOOLEAN] /\ output \in Ways \cup {NoCurrent}
  /\ order \in Orders /\ \E n \in 1..7 : todo = SubSeq(Writes(order[1]), n, Len(Writes(order[1])))
  /\ at \in {"WAIT", "STORE", "SET"}
  /\ points \in 0..Turn - 1 /\ since \in Int /\ tracked \in BOOLEAN

(* Between two cycles of the user the motor is as the mode has it: driven, *)
(* by the feedback of that mode, or without current.                       *)
InForce ==
  todo = << >> =>
    IF mode = "RELAX"
    THEN ~flag["V2I"] /\ output = NoCurrent
    ELSE /\ flag["A2V"] /\ flag["V2I"]
         /\ (flag["ANGLE"] /\ flag["VELOCITY"]) = (ref = "GIMBAL_REF")

(* On a robot with an AHRS the controller never drives the gimbal by the   *)
(* encoder of the motor, not even while the mode is being set.             *)
NeverByEncoder ==
  [][(ref = "GIMBAL_REF" /\ output = NoCurrent /\ output' # NoCurrent)
       => flag["ANGLE"] /\ flag["VELOCITY"]]_vars

(* The yaw of the feedback means the same direction for ever, however far  *)
(* the gimbal was turned while relaxed; and while GimbalSKD looks every    *)
(* millisecond, the same number of turns.                                  *)
YawKept ==
  [][/\ (feedback' + since' - points') % Turn = 0
     /\ tracked /\ tracked' /\ points' = points => feedback' + since' = feedback + since]_vars

(* When the driver stays in control and asks for nothing more, the gimbal  *)
(* comes to point where the user's target says, and stays there.           *)
ComesRound ==
  <>[](order = <<"DRIVE", 0>> /\ at = "WAIT")
    => <>[]((points - yawTarget) % Turn = 0)

(* Not so, when a cycle of the user comes between the two steps.           *)
KeyCounts ==
  [][at = "STORE" /\ at' = "SET" => yawTarget' - yawTarget \in {-Quarter, Quarter}]_vars
=============================================================================
