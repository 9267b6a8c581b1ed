------------------------------ MODULE Infantry ------------------------------
(***************************************************************************)
(* Who decides that the infantry robot moves.  UserThread reads the        *)
(* verdict of the inspector and the switches of the remote, section by     *)
(* section, and sets the modes of gimbal, shooter and chassis.             *)
(* UserActionThread, below it, sets the mode of the chassis on a key.      *)
(* Both go through ChassisLG::set_mode(), which writes the logic mode, the *)
(* scheduler mode and the flag and current of each wheel one at a time.    *)
(* Above them three periodic threads read what they write, each in a       *)
(* locked section: the motion controller copies the target velocity to     *)
(* the scheduler, the scheduler to the motor controller, and the motor     *)
(* controller to the currents.                                             *)
(*                                                                         *)
(* Gimbal and shooter have UserThread as their only caller and are here    *)
(* only as the mode it leaves them in; ShootLG and ShootSKD open up the    *)
(* shooter.                                                                *)
(***************************************************************************)
EXTENDS Integers, FixedPriority

CONSTANTS
  NWheels,     \* wheels, numbered in the order the code writes them
  Velocities,  \* target velocities of the chassis
  NoCurrent    \* the output "zero current"

ASSUME InfantryAssumption ==
  /\ NWheels \in Nat \ {0}
  /\ Velocities \subseteq Int /\ 0 \in Velocities
  /\ NoCurrent \notin Int

Wheels    == 1..NWheels
Callers   == {"User", "UserAction"}
Positions == {"FOLLOW", "DODGE", "VISION", "PC", "SAFE"}  \* of rc.s1, rc.s2
Rank      == [User |-> 3, UserAction |-> 2, Inspector |-> 1]

VARIABLES
  failure,      \* some *_failure() of the inspector returns true
  user,         \* the section UserThread executes next
  action,       \* what UserActionThread does
  at,           \* per thread, where it stands in ChassisLG::set_mode()
  asked,        \* per thread, the mode it asks for
  wheel,        \* per thread, the wheel it writes next
  overtaken,    \* UserThread has woken within this call of UserActionThread
  gimbal,       \* GimbalLG::mode
  shooter,      \* "OFF", the friction wheels alone "SPIN", or "SHOOT"
  chassisMode,  \* ChassisLG::chassis_mode
  skdMode,      \* MecanumChassisSKD::mode
  enableV2I,    \* CANMotorCFG::enable_v2i of the wheels
  lgTarget,     \* ChassisLG::target_vx, target_vy
  skdTarget,    \* MecanumChassisSKD::target_vx, target_vy
  targetV,      \* CANMotorController::targetV of the wheels
  output        \* the velocity each output current regulates, or NoCurrent

call    == <<at, asked, wheel>>
threads == <<user, action, call, overtaken>>
others  == <<gimbal, shooter>>
modes   == <<chassisMode, skdMode>>
targets == <<lgTarget, skdTarget, targetV>>
motors  == <<enableV2I, output>>
vars    == <<failure, threads, others, modes, targets, motors>>

Init ==
  /\ failure = FALSE
  /\ user = "ASLEEP" /\ action = "WAIT" /\ at = [t \in Callers |-> "IDLE"]
  /\ asked = [t \in Callers |-> "RELAX"] /\ wheel = [t \in Callers |-> 1]
  /\ overtaken = FALSE
  /\ gimbal = "RELAX" /\ shooter = "OFF"
  /\ chassisMode = "RELAX" /\ skdMode = "RELAX"
  /\ lgTarget = 0 /\ skdTarget = 0 /\ targetV = 0
  /\ enableV2I = [w \in Wheels |-> FALSE]
  /\ output = [w \in Wheels |-> NoCurrent]

(* RefereeUILG::reset() sleeps inside either thread; here, where time does *)
(* not pass, that is the sleep the thread enters next anyway.              *)
Blocked == {t \in DOMAIN Rank : \/ t = "User" /\ user = "ASLEEP"
                                \/ t = "UserAction" /\ action = "WAIT"}

-----------------------------------------------------------------------------
(* ChassisLG::set_mode(m), called by thread t; m is RELAX, FOLLOW (that is *)
(* GIMBAL_REF_MODE) or DODGE.  The scheduler knows RELAX and GIMBAL_REF.   *)

Begin(t, m) ==
  /\ at' = [at EXCEPT ![t] = "LG"] /\ asked' = [asked EXCEPT ![t] = m]
  /\ wheel' = [wheel EXCEPT ![t] = 1]

Goto(t, l) == at' = [at EXCEPT ![t] = l] /\ UNCHANGED <<asked, wheel>>

SKDMode(m) == IF m = "RELAX" THEN "RELAX" ELSE "GIMBAL_REF"

WriteLG(t) ==
  /\ at[t] = "LG"
  /\ chassisMode' = asked[t]
  /\ Goto(t, "SKD")
  /\ UNCHANGED <<skdMode, motors>>

WriteSKD(t) ==
  /\ at[t] = "SKD"
  /\ skdMode' = SKDMode(asked[t])
  /\ Goto(t, "TEST")
  /\ UNCHANGED <<chassisMode, motors>>

(* The code tests the variable it has just written, which is neither       *)
(* atomic nor volatile: the build may test the value written or read it    *)
(* again, and find what a thread above has written since.                  *)
Test(t) ==
  /\ at[t] = "TEST"
  /\ \E seen \in {SKDMode(asked[t]), skdMode} :
       Goto(t, IF seen = "RELAX" THEN "DISABLE" ELSE "ENABLE")
  /\ UNCHANGED <<modes, motors>>

(* On to the next wheel, and after the last one to the given location.     *)
Advance(t, after) ==
  /\ IF wheel[t] < NWheels
     THEN wheel' = [wheel EXCEPT ![t] = @ + 1] /\ UNCHANGED at
     ELSE wheel' = [wheel EXCEPT ![t] = 1] /\ at' = [at EXCEPT ![t] = after]
  /\ UNCHANGED asked

Enable(t) ==
  /\ at[t] = "ENABLE"
  /\ enableV2I' = [enableV2I EXCEPT ![wheel[t]] = TRUE]
  /\ Advance(t, "IDLE")
  /\ UNCHANGED <<modes, output>>

Disable(t) ==
  /\ at[t] = "DISABLE"
  /\ enableV2I' = [enableV2I EXCEPT ![wheel[t]] = FALSE]
  /\ Advance(t, "ZERO")
  /\ UNCHANGED <<modes, output>>

Zero(t) ==
  /\ at[t] = "ZERO"
  /\ output' = [output EXCEPT ![wheel[t]] = NoCurrent]
  /\ Advance(t, "IDLE")
  /\ UNCHANGED <<modes, enableV2I>>

SetModeLogicLast(t) ==   \* mutant of SetMode: chassis_mode is written last
  /\ MayRun(t, Rank, Blocked)
  /\ \/ /\ at[t] = "LG" /\ skdMode' = SKDMode(asked[t])
        /\ Goto(t, "SKD") /\ UNCHANGED <<chassisMode, motors>>
     \/ /\ at[t] = "SKD" /\ chassisMode' = asked[t]
        /\ Goto(t, "TEST") /\ UNCHANGED <<skdMode, motors>>
     \/ Test(t) \/ Enable(t) \/ Disable(t) \/ Zero(t)
  /\ UNCHANGED <<failure, user, action, overtaken, others, targets>>

SetMode(t) ==
  /\ MayRun(t, Rank, Blocked)
  /\ WriteLG(t) \/ WriteSKD(t) \/ Test(t) \/ Enable(t) \/ Disable(t) \/ Zero(t)
  /\ UNCHANGED <<failure, user, action, overtaken, others, targets>>

-----------------------------------------------------------------------------
(* UserThread, one section at a time.  The receiver may bring another      *)
(* position of the switches, or other buttons, between two sections.       *)

(* The bound: UserThread, which wakes every 7 ms, wakes at most once while *)
(* UserActionThread executes the few instructions of one set_mode().       *)
Wake ==
  /\ user = "ASLEEP" /\ ~overtaken
  /\ user' = "GIMBAL"
  /\ overtaken' = (at["UserAction"] # "IDLE")
  /\ UNCHANGED <<failure, action, call, others, modes, targets, motors>>

(* With vision left out of the build, position VISION is no position of    *)
(* the gimbal section, and the right mouse button leaves the mode alone.   *)
GimbalSection ==
  /\ user = "GIMBAL"
  /\ \E p \in Positions, pressRight \in BOOLEAN :
       gimbal' = IF failure \/ p \in {"SAFE", "VISION"} THEN "RELAX"
                 ELSE IF p = "PC" /\ pressRight THEN gimbal ELSE "GIMBAL_REF"
  /\ user' = "SHOOT"
  /\ UNCHANGED <<failure, action, call, overtaken, shooter, modes, targets, motors>>

(* By remote the wheels spin and the thumb wheel shoots; by PC the left    *)
(* button shoots, starts the wheels if they stand, and its release stops   *)
(* the shooting alone.                                                     *)
ShootSection ==
  /\ user = "SHOOT"
  /\ \E p \in Positions, trigger \in BOOLEAN :
       shooter' = IF failure \/ p = "SAFE" THEN "OFF"
                  ELSE IF trigger THEN "SHOOT"
                  ELSE IF p = "PC" /\ shooter = "OFF" THEN "OFF" ELSE "SPIN"
  /\ user' = "CHASSIS"
  /\ UNCHANGED <<failure, action, call, overtaken, gimbal, modes, targets, motors>>

RelaxOnce ==   \* mutant of ChassisSection: relax unless it is relaxed already
  /\ user = "CHASSIS"
  /\ \E p \in Positions :
       IF failure \/ p = "SAFE"
       THEN /\ user' = "UI"
            /\ IF chassisMode = "RELAX" THEN UNCHANGED call ELSE Begin("User", "RELAX")
       ELSE /\ user' = "TARGET"
            /\ IF p = "PC" /\ chassisMode # "RELAX" THEN UNCHANGED call
               ELSE Begin("User", IF p = "DODGE" THEN "DODGE" ELSE "FOLLOW")
  /\ UNCHANGED <<failure, action, overtaken, others, modes, targets, motors>>

(* By remote the mode is set every cycle; by PC only to leave RELAX.       *)
ChassisSection ==
  /\ user = "CHASSIS"
  /\ \E p \in Positions :
       IF failure \/ p = "SAFE" THEN Begin("User", "RELAX") /\ user' = "UI"
       ELSE /\ user' = "TARGET"
            /\ IF p = "PC" /\ chassisMode # "RELAX" THEN UNCHANGED call
               ELSE Begin("User", IF p = "DODGE" THEN "DODGE" ELSE "FOLLOW")
  /\ UNCHANGED <<failure, action, overtaken, others, modes, targets, motors>>

SetTarget ==
  /\ user = "TARGET" /\ at["User"] = "IDLE"
  /\ \E v \in Velocities : lgTarget' = v
  /\ user' = "UI"
  /\ UNCHANGED <<failure, action, call, overtaken, others, modes, skdTarget, targetV, motors>>

(* Ctrl + Shift + Z: reset the client's screen; then sleep.                *)
UISection ==
  /\ user = "UI" /\ at["User"] = "IDLE"
  /\ user' = "ASLEEP"
  /\ UNCHANGED <<failure, action, call, overtaken, others, modes, targets, motors>>

UserThread == \/ Wake \/ GimbalSection \/ ShootSection \/ ChassisSection
              \/ SetTarget \/ UISection

-----------------------------------------------------------------------------
(* UserActionThread: Z and X set the mode of the chassis, whatever the     *)
(* inspector and the switches say.  One event may bring both.              *)

KeyPress ==
  /\ action = "WAIT"
  /\ action' \in {"Z", "X"}
  /\ UNCHANGED <<failure, user, call, overtaken, others, modes, targets, motors>>

(* With Ctrl and Shift held a key does something else: Z resets the screen *)
(* and X lifts the limits of the shooter.                                  *)
HandleKey ==
  /\ action \in {"Z", "X"} /\ MayRun("UserAction", Rank, Blocked)
  /\ \/ Begin("UserAction", IF action = "Z" THEN "FOLLOW" ELSE "DODGE")
     \/ UNCHANGED call
  /\ action' = IF action = "Z" THEN "AFTER_Z" ELSE "AFTER_X"
  /\ UNCHANGED <<failure, user, overtaken, others, modes, targets, motors>>

KeyDone ==
  /\ action \in {"AFTER_Z", "AFTER_X"} /\ at["UserAction"] = "IDLE"
  /\ MayRun("UserAction", Rank, Blocked)
  /\ action' \in IF action = "AFTER_Z" THEN {"X", "WAIT"} ELSE {"WAIT"}
  /\ overtaken' = FALSE
  /\ UNCHANGED <<failure, user, call, others, modes, targets, motors>>

UserActionThread == HandleKey \/ KeyDone

-----------------------------------------------------------------------------
(* The inspector, below both, changes its verdict.                         *)
InspectorUnrestrained ==   \* mutant of Inspector: it may preempt UserThread
  /\ failure' = ~failure
  /\ UNCHANGED <<threads, others, modes, targets, motors>>

Inspector ==
  /\ MayRun("Inspector", Rank, Blocked)
  /\ failure' = ~failure
  /\ UNCHANGED <<threads, others, modes, targets, motors>>

FollowForgotten ==   \* mutant of MotionController: nothing copied in FOLLOW
  /\ chassisMode = "DODGE"
  /\ skdTarget' = lgTarget
  /\ UNCHANGED <<failure, threads, others, modes, lgTarget, targetV, motors>>

(* The target velocity, with the rotation the mode asks for, to the        *)
(* scheduler; nothing in RELAX.                                            *)
MotionController ==
  /\ chassisMode # "RELAX"
  /\ skdTarget' = lgTarget
  /\ UNCHANGED <<failure, threads, others, modes, lgTarget, targetV, motors>>

(* RELAX drops the currents, otherwise the targets go to the wheels.       *)
ChassisSKD ==
  IF skdMode = "RELAX"
  THEN /\ enableV2I' = [w \in Wheels |-> FALSE]
       /\ output' = [w \in Wheels |-> NoCurrent]
       /\ UNCHANGED <<failure, threads, others, modes, targets>>
  ELSE /\ targetV' = skdTarget
       /\ UNCHANGED <<failure, threads, others, modes, lgTarget, skdTarget, motors>>

(* An output whose controller is disabled keeps its value.                 *)
MotorSKD ==
  /\ output' = [w \in Wheels |-> IF enableV2I[w] THEN targetV ELSE output[w]]
  /\ UNCHANGED <<failure, threads, others, modes, targets, enableV2I>>

Next == \/ \E t \in Callers : SetMode(t)
        \/ UserThread \/ KeyPress \/ UserActionThread
        \/ Inspector \/ MotionController \/ ChassisSKD \/ MotorSKD

Spec == Init /\ [][Next]_vars

(* The periodic threads keep running.  UserThread sleeps in every cycle    *)
(* for longer than the threads below need to finish what they do.          *)
Fairness ==
  /\ WF_vars(UserThread) /\ WF_vars(SetMode("User"))
  /\ WF_vars(MotionController) /\ WF_vars(ChassisSKD) /\ WF_vars(MotorSKD)
  /\ SF_vars(SetMode("UserAction")) /\ SF_vars(UserActionThread)
FairSpec == Spec /\ Fairness

-----------------------------------------------------------------------------
ControlTypeOK ==
  /\ failure \in BOOLEAN /\ overtaken \in BOOLEAN
  /\ user \in {"ASLEEP", "GIMBAL", "SHOOT", "CHASSIS", "TARGET", "UI"}
  /\ action \in {"WAIT", "Z", "X", "AFTER_Z", "AFTER_X"}
  /\ gimbal \in {"RELAX", "GIMBAL_REF"} /\ shooter \in {"OFF", "SPIN", "SHOOT"}
  /\ chassisMode \in {"RELAX", "FOLLOW", "DODGE"} /\ skdMode \in {"RELAX", "GIMBAL_REF"}

CallTypeOK ==
  /\ at \in [Callers -> {"IDLE", "LG", "SKD", "TEST", "ENABLE", "DISABLE", "ZERO"}]
  /\ asked \in [Callers -> {"RELAX", "FOLLOW", "DODGE"}]
  /\ wheel \in [Callers -> Wheels]

MotorTypeOK ==
  /\ {lgTarget, skdTarget, targetV} \subseteq Velocities
  /\ enableV2I \in [Wheels -> BOOLEAN]
  /\ output \in [Wheels -> Velocities \cup {NoCurrent}]

TypeOK == ControlTypeOK /\ CallTypeOK /\ MotorTypeOK

Released == skdMode = "RELAX" /\ \A w \in Wheels : output[w] = NoCurrent /\ ~enableV2I[w]

(* The three sections of a cycle ask the inspector separately and get one  *)
(* answer: when a section finds a failure, the earlier sections have found *)
(* it too and left gimbal and shooter safe, and a cycle that finds one     *)
(* ends with every wheel without current, whatever UserActionThread was    *)
(* in the middle of.                                                       *)
OneVerdict ==
  failure =>
    /\ user \in {"SHOOT", "CHASSIS", "TARGET", "UI"} => gimbal = "RELAX"
    /\ user \in {"CHASSIS", "TARGET", "UI"} => shooter = "OFF"
    /\ user = "UI" /\ at["User"] = "IDLE" => chassisMode = "RELAX" /\ Released

(* By PC, UserThread leaves the chassis alone unless the logic mode is     *)
(* RELAX.  So when nobody is inside set_mode(), a relaxed scheduler under  *)
(* a logic mode that is not RELAX must not occur: the wheels would stay    *)
(* dead until the driver turns the switch away and back.                   *)
NeverStranded ==
  (\A t \in Callers : at[t] = "IDLE") /\ skdMode = "RELAX" => chassisMode = "RELAX"

(* "Safe Mode" (user_infantry.cpp): while a failure lasts everything ends  *)
(* up relaxed, the chassis for good once the driver leaves the keys alone, *)
(* even if a key was being handled when it came.                           *)
FailureReleases ==
  <>[]failure => /\ <>[](gimbal = "RELAX" /\ shooter = "OFF")
                 /\ []<>(skdMode = "RELAX")
                 /\ (<>[](action = "WAIT") => <>[]Released)

(* A driver who keeps control over the chassis moves it: if there is no    *)
(* failure, the logic mode stays out of RELAX and the target stays put,    *)
(* every wheel ends up regulated at the target, none is left disabled.     *)
CommandReachesWheels ==
  \A v \in Velocities :
    <>[](~failure /\ action = "WAIT" /\ chassisMode # "RELAX" /\ lgTarget = v)
      => <>[](\A w \in Wheels : output[w] = v)
=============================================================================
