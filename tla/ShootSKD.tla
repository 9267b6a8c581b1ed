------------------------------ MODULE ShootSKD ------------------------------
(***************************************************************************)
(* How a shooting command becomes motor current.  The caller (ShootLG, in  *)
(* the user and the stuck detector thread) writes the registers of         *)
(* ShootSKD and the enable flags of the motor configuration one by one.    *)
(* The ShootSKD thread copies targets into the motor controller, every     *)
(* 2 ms; the motor controller thread turns targets into currents, every    *)
(* 8 ms.  Both run in locked sections and above the caller, so each is one *)
(* step that may fall between any two writes of the caller.                *)
(***************************************************************************)
EXTENDS Integers

CONSTANTS
  Angles,       \* loader targets the caller may set
  WheelSpeeds,  \* friction wheel speeds the caller may set
  FeedSpeeds,   \* loader speeds the caller may set
  BootSpeed,    \* a2vParams[BULLET_LOADER].out_limit as compiled in
  MaxTurn,      \* bound: the loader stays within -MaxTurn..MaxTurn
  NoCurrent     \* the output "zero current"

ASSUME ShootSKDAssumption ==
  /\ Angles \subseteq Int /\ 0 \in Angles
  /\ WheelSpeeds \subseteq Nat /\ 0 \in WheelSpeeds
  /\ FeedSpeeds \subseteq Nat /\ BootSpeed \in Nat
  /\ MaxTurn \in Nat
  /\ NoCurrent \notin Int

Wheels == {"FW_UP", "FW_DOWN"}
Motors == {"LOADER"} \cup Wheels

VARIABLES
  mode,             \* ShootSKD::mode
  bulletTarget,     \* ShootSKD::bullet_target_angle
  wheelTarget,      \* ShootSKD::fw_target_velocity
  enableA2V,        \* enable_a2v[BULLET_LOADER]
  enableV2I,        \* enable_v2i
  feedSpeed,        \* a2vParams[BULLET_LOADER].out_limit
  controllerSpeed,  \* the out_limit inside a2vController[BULLET_LOADER]
  targetA,          \* targetA[BULLET_LOADER]
  targetV,          \* targetV
  output,           \* the speed each output current regulates, or NoCurrent
  accumulatedAngle, \* accumulated angle of the loader
  slow,             \* the wheels measured within 500 of rest
  caller            \* the next write of a set_mode() in progress, or "idle"

registers  == <<mode, bulletTarget, wheelTarget, feedSpeed>>
enables    == <<enableA2V, enableV2I>>
controller == <<controllerSpeed, targetA, targetV, output>>
plant      == <<accumulatedAngle, slow>>
skdVars    == <<registers, enables, controller, plant, caller>>

Modes == {"RELAX", "LIMITED"}

(* Every flag of enable_a2v and enable_v2i starts false; the motor thread  *)
(* has started, copied the PID parameters and cleared its targets.         *)
SKDInit ==
  /\ mode = "RELAX" /\ bulletTarget = 0 /\ wheelTarget = 0
  /\ enableA2V = FALSE /\ enableV2I = [m \in Motors |-> FALSE]
  /\ feedSpeed = BootSpeed /\ controllerSpeed = BootSpeed
  /\ targetA = 0 /\ targetV = [m \in Motors |-> 0]
  /\ output = [m \in Motors |-> NoCurrent]
  /\ accumulatedAngle = 0 /\ slow = Wheels
  /\ caller = "idle"

-----------------------------------------------------------------------------
(* The caller.  set_mode() writes the mode, then four enable flags: those  *)
(* of the loader follow the mode, those of the wheels are always set.      *)

SetMode(m) ==
  /\ caller = "idle"
  /\ mode' = m
  /\ caller' = "a2v"
  /\ UNCHANGED <<bulletTarget, wheelTarget, feedSpeed, enables, controller, plant>>

EnableA2V ==
  /\ caller = "a2v"
  /\ enableA2V' = (mode = "LIMITED")
  /\ caller' = "LOADER"
  /\ UNCHANGED <<registers, enableV2I, controller, plant>>

AfterFlag == [LOADER |-> "FW_UP", FW_UP |-> "FW_DOWN", FW_DOWN |-> "idle"]

LoaderStaysEnabled(m) ==   \* mutant of EnableV2I: set for every motor
  /\ caller = m
  /\ enableV2I' = [enableV2I EXCEPT ![m] = TRUE]
  /\ caller' = AfterFlag[m]
  /\ UNCHANGED <<registers, enableA2V, controller, plant>>

EnableV2I(m) ==
  /\ caller = m
  /\ enableV2I' = [enableV2I EXCEPT ![m] = m \in Wheels \/ mode = "LIMITED"]
  /\ caller' = AfterFlag[m]
  /\ UNCHANGED <<registers, enableA2V, controller, plant>>

SetLoaderTargetAngle(a) ==
  /\ caller = "idle"
  /\ bulletTarget' = a
  /\ UNCHANGED <<mode, wheelTarget, feedSpeed, enables, controller, plant, caller>>

SetFrictionWheels(v) ==
  /\ caller = "idle"
  /\ wheelTarget' = v
  /\ UNCHANGED <<mode, bulletTarget, feedSpeed, enables, controller, plant, caller>>

(* The parameter table changes; the controller has its own copy.           *)
SetLoaderTargetVelocity(s) ==
  /\ caller = "idle"
  /\ feedSpeed' = s
  /\ UNCHANGED <<mode, bulletTarget, wheelTarget, enables, controller, plant, caller>>

ResetLoaderAccumulatedAngle ==
  /\ caller = "idle"
  /\ accumulatedAngle' = 0
  /\ UNCHANGED <<registers, enables, controller, slow, caller>>

Set == \/ \E m \in Modes : SetMode(m)
       \/ \E a \in Angles : SetLoaderTargetAngle(a)
       \/ \E v \in WheelSpeeds : SetFrictionWheels(v)
       \/ \E s \in FeedSpeeds : SetLoaderTargetVelocity(s)
       \/ ResetLoaderAccumulatedAngle

Flag == EnableA2V \/ \E m \in Motors : EnableV2I(m)

-----------------------------------------------------------------------------
(* The ShootSKD thread: in LIMITED mode it copies the targets; in RELAX    *)
(* mode it drops the current of the loader, cuts the wheels that have run  *)
(* down and brakes the others.                                             *)

RelaxKeepsCurrent ==   \* mutant of Relax: the loader's current is kept
  /\ mode = "RELAX"
  /\ enableV2I' = [m \in Motors |-> enableV2I[m] /\ m \notin slow]
  /\ output' = [m \in Motors |-> IF m \in slow THEN NoCurrent ELSE output[m]]
  /\ targetV' = [m \in Motors |-> IF m \in Wheels \ slow THEN 0 ELSE targetV[m]]
  /\ UNCHANGED <<registers, enableA2V, controllerSpeed, targetA, plant, caller>>

RelaxKeepsWheels ==   \* mutant of Relax: a wheel at rest keeps its flag
  /\ mode = "RELAX"
  /\ output' = [m \in Motors |->
                 IF m = "LOADER" \/ m \in slow THEN NoCurrent ELSE output[m]]
  /\ targetV' = [m \in Motors |-> IF m \in Wheels \ slow THEN 0 ELSE targetV[m]]
  /\ UNCHANGED <<registers, enables, controllerSpeed, targetA, plant, caller>>

LimitedSameWay ==   \* mutant of Limited: both wheels turn the same way
  /\ mode = "LIMITED"
  /\ targetA' = bulletTarget
  /\ targetV' = [targetV EXCEPT !["FW_UP"] = wheelTarget, !["FW_DOWN"] = wheelTarget]
  /\ UNCHANGED <<registers, enables, controllerSpeed, output, plant, caller>>

Limited ==
  /\ mode = "LIMITED"
  /\ targetA' = bulletTarget
  /\ targetV' = [targetV EXCEPT !["FW_UP"] = -wheelTarget,
                                !["FW_DOWN"] = wheelTarget]
  /\ UNCHANGED <<registers, enables, controllerSpeed, output, plant, caller>>

Relax ==
  /\ mode = "RELAX"
  /\ enableV2I' = [m \in Motors |-> enableV2I[m] /\ m \notin slow]
  /\ output' = [m \in Motors |->
                 IF m = "LOADER" \/ m \in slow THEN NoCurrent ELSE output[m]]
  /\ targetV' = [m \in Motors |-> IF m \in Wheels \ slow THEN 0 ELSE targetV[m]]
  /\ UNCHANGED <<registers, enableA2V, controllerSpeed, targetA, plant, caller>>

SKDThread == Limited \/ Relax

(* The angle controller of the loader: its gain is large enough for the    *)
(* output to be at its limit whenever there is an error.                   *)
LoaderSpeed ==
  IF targetA > accumulatedAngle THEN controllerSpeed
  ELSE IF targetA < accumulatedAngle THEN -controllerSpeed ELSE 0

FlagsIgnored ==   \* mutant of MotorSKD: every motor is driven
  /\ targetV' = IF enableA2V THEN [targetV EXCEPT !["LOADER"] = LoaderSpeed]
                ELSE targetV
  /\ output' = targetV'
  /\ UNCHANGED <<registers, enables, controllerSpeed, targetA, plant, caller>>

(* The motor controller thread: angle to speed, then speed to current.     *)
(* An output whose controller is disabled keeps its value.                 *)
MotorSKD ==
  /\ targetV' = IF enableA2V THEN [targetV EXCEPT !["LOADER"] = LoaderSpeed]
                ELSE targetV
  /\ output' = [m \in Motors |-> IF enableV2I[m] THEN targetV'[m] ELSE output[m]]
  /\ UNCHANGED <<registers, enables, controllerSpeed, targetA, plant, caller>>

(* CAN feedback: the loader turns, the wheels speed up and run down.       *)
LoaderTurns(d) ==
  /\ accumulatedAngle + d \in -MaxTurn..MaxTurn
  /\ accumulatedAngle' = accumulatedAngle + d
  /\ UNCHANGED <<registers, enables, controller, slow, caller>>

WheelChanges(w) ==
  /\ slow' = IF w \in slow THEN slow \ {w} ELSE slow \cup {w}
  /\ UNCHANGED <<registers, enables, controller, accumulatedAngle, caller>>

Feedback == \/ \E d \in {-1, 1} : LoaderTurns(d)
            \/ \E w \in Wheels : WheelChanges(w)

SKDNext == Set \/ Flag \/ SKDThread \/ MotorSKD \/ Feedback

SKDSpec == SKDInit /\ [][SKDNext]_skdVars

(* Both scheduler threads are periodic and above the caller; a caller in   *)
(* the middle of set_mode() is a ready thread that gets to run.            *)
SKDFairness == WF_skdVars(Flag) /\ WF_skdVars(SKDThread) /\ WF_skdVars(MotorSKD)
SKDFairSpec == SKDSpec /\ SKDFairness

-----------------------------------------------------------------------------
SKDTypeOK ==
  /\ mode \in Modes
  /\ bulletTarget \in Angles /\ wheelTarget \in WheelSpeeds
  /\ enableA2V \in BOOLEAN /\ enableV2I \in [Motors -> BOOLEAN]
  /\ feedSpeed \in FeedSpeeds \cup {BootSpeed} /\ controllerSpeed \in Nat
  /\ targetA \in Angles /\ targetV \in [Motors -> Int]
  /\ output \in [Motors -> Int \cup {NoCurrent}]
  /\ accumulatedAngle \in Int /\ slow \in SUBSET Wheels
  /\ caller \in {"idle", "a2v"} \cup Motors

(* The flags always end up agreeing with the mode, although they are       *)
(* written after it and the ShootSKD thread clears some of them itself:    *)
(* once set_mode(LIMITED_SHOOTING_MODE) has returned, no motor is left     *)
(* disabled; once set_mode(FORCED_RELAX_MODE) has, the loader is.          *)
FlagsAgreeWithMode ==
  caller = "idle" =>
    IF mode = "LIMITED" THEN enableA2V /\ \A m \in Motors : enableV2I[m]
    ELSE ~enableA2V /\ ~enableV2I["LOADER"]

(* "zero force" (shoot_scheduler.h): a loader that has been let go by the  *)
(* ShootSKD thread gets no current again before the next set_mode(), in    *)
(* whatever order the two periodic threads come.                           *)
LoaderStaysFree ==
  [][mode = "RELAX" /\ caller = "idle" /\ output["LOADER"] = NoCurrent
       => output'["LOADER"] = NoCurrent]_skdVars

(* ... and it is let go.                                                   *)
RelaxReleasesLoader ==
  <>[](mode = "RELAX") => <>[](output["LOADER"] = NoCurrent)

(* A wheel that has run down is cut from the current for good, if nobody   *)
(* calls set_mode() again.                                                 *)
WheelsComeToRest ==
  \A w \in Wheels :
    <>[](mode = "RELAX" /\ caller = "idle" /\ w \in slow)
      => <>[](output[w] = NoCurrent /\ ~enableV2I[w])

(* In LIMITED_SHOOTING_MODE a target that stays set reaches the motors:    *)
(* in the end the loader is driven to it, and the wheels in opposite       *)
(* directions at the commanded speed.                                      *)
TargetsReachMotors ==
  \A a \in Angles, v \in WheelSpeeds :
    <>[](mode = "LIMITED" /\ caller = "idle" /\ bulletTarget = a /\ wheelTarget = v)
      => <>[](/\ targetA = a /\ output["LOADER"] # NoCurrent
              /\ output["FW_UP"] = -v /\ output["FW_DOWN"] = v)

(* "stop all the shooter, including the friction wheel" (force_stop() in   *)
(* shoot_logic.cpp): a wheel at rest in FORCED_RELAX_MODE is not set in    *)
(* motion.                                                                 *)
WheelsStayAtRest ==
  [][\A w \in Wheels :
       mode = "RELAX" /\ caller = "idle" /\ output[w] = NoCurrent
         => output'[w] \in {NoCurrent, 0}]_skdVars

(* "Set bullet loader target velocity (related to shoot SPEED) in          *)
(* LIMITED_SHOOTING_MODE" (shoot_scheduler.h): a speed that stays set is   *)
(* the speed the loader turns at.                                          *)
FeedSpeedTaken ==
  \A s \in FeedSpeeds :
    <>[](mode = "LIMITED" /\ caller = "idle" /\ feedSpeed = s)
      => <>[](targetV["LOADER"] \in {-s, 0, s})
=============================================================================
