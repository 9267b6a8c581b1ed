--------------------------- MODULE InfantryProofs ---------------------------
(***************************************************************************)
(* The safety of Infantry for every number of wheels and every set of      *)
(* velocities.                                                             *)
(***************************************************************************)
EXTENDS Infantry, TLAPS

USE InfantryAssumption DEF Wheels, Callers, vars, threads, call, others, modes, targets, motors

(* Type correctness: set_mode() never runs past the last wheel.            *)
THEOREM Typing == Spec => []TypeOK
<1> USE DEF ControlTypeOK, CallTypeOK, MotorTypeOK
<1>1. Init => TypeOK
  <2> SUFFICES ASSUME Init PROVE TypeOK
    OBVIOUS
  <2>1. ControlTypeOK
    BY DEF Init
  <2>2. CallTypeOK
    BY DEF Init
  <2>3. MotorTypeOK
    BY DEF Init
  <2> QED
    BY <2>1, <2>2, <2>3 DEF TypeOK
<1>2. TypeOK /\ [Next]_vars => TypeOK'
  <2> SUFFICES ASSUME TypeOK, [Next]_vars PROVE TypeOK'
    OBVIOUS
  <2> USE DEF TypeOK
  <2>1. ASSUME NEW t \in Callers, SetMode(t) PROVE TypeOK'
    <3>1. ControlTypeOK'
      BY <2>1 DEF SetMode, WriteLG, WriteSKD, SKDMode, Test, Enable, Disable, Zero
    <3>2. CallTypeOK'
      <4>1. CASE Enable(t) \/ Disable(t) \/ Zero(t)
        BY <4>1 DEF Enable, Disable, Zero, Advance
      <4> QED
        BY <2>1, <4>1 DEF SetMode, WriteLG, WriteSKD, Test, Goto
    <3>3. MotorTypeOK'
      BY <2>1 DEF SetMode, WriteLG, WriteSKD, Test, Enable, Disable, Zero
    <3> QED
      BY <3>1, <3>2, <3>3
  <2>2. CASE UserThread
    <3>1. ControlTypeOK'
      <4>1. CASE Wake
        BY <4>1 DEF Wake
      <4>5. CASE SetTarget
        BY <4>5 DEF SetTarget
      <4>6. CASE UISection
        BY <4>6 DEF UISection
      <4>2. CASE GimbalSection
        BY <4>2 DEF GimbalSection
      <4>3. CASE ShootSection
        BY <4>3 DEF ShootSection
      <4>4. CASE ChassisSection
        BY <4>4 DEF ChassisSection
      <4> QED
        BY <2>2, <4>1, <4>2, <4>3, <4>4, <4>5, <4>6 DEF UserThread
    <3>2. CallTypeOK'
      BY <2>2 DEF UserThread, Wake, GimbalSection, ShootSection, ChassisSection,
                  SetTarget, UISection, Begin
    <3>3. MotorTypeOK'
      BY <2>2 DEF UserThread, Wake, GimbalSection, ShootSection, ChassisSection,
                  SetTarget, UISection
    <3> QED
      BY <3>1, <3>2, <3>3
  <2>3. CASE UserActionThread
    <3>1. ControlTypeOK'
      <4>1. CASE HandleKey
        BY <4>1 DEF HandleKey
      <4>2. CASE KeyDone
        BY <4>2 DEF KeyDone
      <4> QED
        BY <2>3, <4>1, <4>2 DEF UserActionThread
    <3>2. CallTypeOK'
      BY <2>3 DEF UserActionThread, HandleKey, KeyDone, Begin
    <3>3. MotorTypeOK'
      BY <2>3 DEF UserActionThread, HandleKey, KeyDone
    <3> QED
      BY <3>1, <3>2, <3>3
  <2>4. CASE KeyPress \/ Inspector
    <3>1. ControlTypeOK'
      <4>1. CASE KeyPress
        BY <4>1 DEF KeyPress
      <4>2. CASE Inspector
        BY <4>2 DEF Inspector
      <4> QED
        BY <2>4, <4>1, <4>2
    <3>2. CallTypeOK' /\ MotorTypeOK'
      BY <2>4 DEF KeyPress, Inspector
    <3> QED
      BY <3>1, <3>2
  <2>5. CASE MotionController \/ ChassisSKD \/ MotorSKD
    <3>1. ControlTypeOK' /\ CallTypeOK'
      BY <2>5 DEF MotionController, ChassisSKD, MotorSKD
    <3>2. MotorTypeOK'
      <4>1. CASE MotionController
        BY <4>1 DEF MotionController
      <4>2. CASE ChassisSKD
        BY <4>2 DEF ChassisSKD
      <4>3. CASE MotorSKD
        BY <4>3 DEF MotorSKD
      <4>4. QED
        BY <2>5, <4>1, <4>2, <4>3
    <3> QED
      BY <3>1, <3>2
  <2>6. CASE UNCHANGED vars
    BY <2>6
  <2> QED
    BY <2>1, <2>2, <2>3, <2>4, <2>5, <2>6 DEF Next
<1> QED
  BY <1>1, <1>2, PTL DEF Spec

-----------------------------------------------------------------------------
(* Why the chassis is never stranded: a relaxed scheduler under a logic    *)
(* mode that is not RELAX is always one write away from being mended.      *)
(* UserThread cannot be overtaken between its two writes, and              *)
(* UserActionThread never asks for RELAX.                                  *)
Owned ==
  /\ at["User"] # "IDLE" => user \in {"TARGET", "UI"}
  /\ at["User"] = "SKD" => chassisMode = asked["User"]
  /\ at["UserAction"] # "IDLE" =>
       asked["UserAction"] # "RELAX" /\ action \in {"AFTER_Z", "AFTER_X"}
  /\ skdMode = "RELAX" /\ chassisMode # "RELAX" =>
       \E t \in Callers : at[t] = "SKD" /\ asked[t] # "RELAX"

(* A thread below UserThread runs only while that one sleeps.              *)
LEMMA OnlyAsleep ==
  ASSUME MayRun("UserAction", Rank, Blocked) \/ MayRun("Inspector", Rank, Blocked)
  PROVE  user = "ASLEEP"
BY DEF MayRun, Rank, Blocked

(* The invariant above: who may be inside set_mode(), and that a relaxed   *)
(* scheduler under another logic mode is about to be mended.               *)
THEOREM Ownership == Spec => []Owned
<1>1. Init => Owned
  BY DEF Init, Owned
<1>2. TypeOK /\ Owned /\ [Next]_vars => Owned'
  <2> SUFFICES ASSUME TypeOK, Owned, [Next]_vars PROVE Owned'
    OBVIOUS
  <2> USE DEF TypeOK, ControlTypeOK, CallTypeOK, Owned
  <2>1. CASE SetMode("User")
    <3>1. CASE WriteLG("User")
      BY <2>1, <3>1 DEF SetMode, WriteLG, Goto
    <3>2. CASE WriteSKD("User")
      BY <2>1, <3>2 DEF SetMode, WriteSKD, SKDMode, Goto
    <3>3. CASE Test("User")
      BY <2>1, <3>3 DEF SetMode, Test, Goto
    <3>4. CASE Enable("User") \/ Disable("User") \/ Zero("User")
      BY <2>1, <3>4 DEF SetMode, Enable, Disable, Zero, Advance
    <3> QED
      BY <2>1, <3>1, <3>2, <3>3, <3>4 DEF SetMode
  <2>2. CASE SetMode("UserAction")
    <3>0. user = "ASLEEP"
      BY <2>2, OnlyAsleep DEF SetMode
    <3>1. CASE WriteLG("UserAction")
      BY <2>2, <3>0, <3>1 DEF SetMode, WriteLG, Goto
    <3>2. CASE WriteSKD("UserAction")
      BY <2>2, <3>0, <3>2 DEF SetMode, WriteSKD, SKDMode, Goto
    <3>3. CASE Test("UserAction")
      BY <2>2, <3>3 DEF SetMode, Test, Goto
    <3>4. CASE Enable("UserAction") \/ Disable("UserAction") \/ Zero("UserAction")
      BY <2>2, <3>4 DEF SetMode, Enable, Disable, Zero, Advance
    <3> QED
      BY <2>2, <3>1, <3>2, <3>3, <3>4 DEF SetMode
  <2>3. CASE ChassisSection
    BY <2>3 DEF ChassisSection, Begin
  <2>4. CASE Wake \/ GimbalSection \/ ShootSection \/ SetTarget \/ UISection
    BY <2>4 DEF Wake, GimbalSection, ShootSection, SetTarget, UISection
  <2>5. CASE HandleKey
    BY <2>5 DEF HandleKey, Begin
  <2>6. CASE KeyDone \/ KeyPress
    BY <2>6 DEF KeyDone, KeyPress
  <2>7. CASE Inspector \/ MotionController \/ ChassisSKD \/ MotorSKD
    BY <2>7 DEF Inspector, MotionController, ChassisSKD, MotorSKD
  <2>8. CASE UNCHANGED vars
    BY <2>8
  <2> QED
    BY <2>1, <2>2, <2>3, <2>4, <2>5, <2>6, <2>7, <2>8 DEF Next, UserThread, UserActionThread
<1> QED
  BY <1>1, <1>2, Typing, PTL DEF Spec

(* When nobody is inside set_mode(), a relaxed scheduler means a relaxed   *)
(* logic mode, so that by PC UserThread sees that it has to enable the     *)
(* chassis again.                                                          *)
THEOREM Unstranded == Spec => []NeverStranded
<1>1. Owned => NeverStranded
  BY DEF Owned, NeverStranded
<1> QED
  BY <1>1, Ownership, PTL

-----------------------------------------------------------------------------
(* How far UserThread has come in relaxing the chassis.  The verdict of    *)
(* the inspector is the same in the whole cycle, because the inspector     *)
(* runs only while UserThread sleeps; what is already off stays off,       *)
(* because the motor controller leaves a disabled motor alone.             *)
RelaxProgress ==
  /\ asked["User"] = "RELAX" /\ at["User"] # "ENABLE"
  /\ at["User"] # "LG" => chassisMode = "RELAX"
  /\ at["User"] \notin {"LG", "SKD"} => skdMode = "RELAX"
  /\ at["User"] = "DISABLE" => \A w \in Wheels : w < wheel["User"] => ~enableV2I[w]
  /\ at["User"] \in {"ZERO", "IDLE"} => \A w \in Wheels : ~enableV2I[w]
  /\ at["User"] = "ZERO" => \A w \in Wheels : w < wheel["User"] => output[w] = NoCurrent
  /\ at["User"] = "IDLE" => \A w \in Wheels : output[w] = NoCurrent

VerdictHeld ==
  /\ at["User"] \in {"LG", "SKD", "TEST"} => wheel["User"] = 1
  /\ failure =>
       /\ user \in {"SHOOT", "CHASSIS", "UI"} => gimbal = "RELAX"
       /\ user \in {"CHASSIS", "UI"} => shooter = "OFF"
       /\ user # "TARGET"
       /\ user = "UI" => RelaxProgress

(* The sections of a cycle of UserThread act on one verdict, and a cycle   *)
(* that finds a failure ends with every wheel disabled and without current. *)
THEOREM Verdict == Spec => []OneVerdict
<1>1. Init => VerdictHeld
  BY DEF Init, VerdictHeld
<1>2. TypeOK /\ Owned /\ VerdictHeld /\ [Next]_vars => VerdictHeld'
  <2> SUFFICES ASSUME TypeOK, Owned, VerdictHeld, [Next]_vars PROVE VerdictHeld'
    OBVIOUS
  <2> USE DEF TypeOK, CallTypeOK, ControlTypeOK, MotorTypeOK, VerdictHeld, RelaxProgress
  <2>1. CASE SetMode("User")
    <3> USE <2>1 DEF SetMode, Owned
    <3>1. CASE WriteLG("User")
      BY <3>1 DEF WriteLG, Goto
    <3>2. CASE WriteSKD("User")
      BY <3>2 DEF WriteSKD, SKDMode, Goto
    <3>3. CASE Test("User")
      BY <3>3 DEF Test, SKDMode, Goto
    <3>4. CASE Enable("User")
      BY <3>4 DEF Enable, Advance
    <3>5. CASE Disable("User")
      BY <3>5 DEF Disable, Advance
    <3>6. CASE Zero("User")
      BY <3>6 DEF Zero, Advance
    <3> QED
      BY <3>1, <3>2, <3>3, <3>4, <3>5, <3>6
  <2>2. CASE SetMode("UserAction")
    <3>1. user = "ASLEEP" /\ user' = user
      BY <2>2, OnlyAsleep DEF SetMode
    <3>2. at'["User"] = at["User"] /\ wheel'["User"] = wheel["User"]
      BY <2>2 DEF SetMode, WriteLG, WriteSKD, Test, Enable, Disable, Zero, Goto, Advance
    <3> QED
      BY <3>1, <3>2
  <2>3. CASE ChassisSection
    BY <2>3 DEF ChassisSection, Begin
  <2>4. CASE Wake \/ SetTarget \/ UISection
    BY <2>4 DEF Wake, SetTarget, UISection
  <2>5. CASE GimbalSection
    BY <2>5 DEF GimbalSection
  <2>6. CASE ShootSection
    BY <2>6 DEF ShootSection
  <2>7. CASE HandleKey \/ KeyDone \/ Inspector
    <3>1. user = "ASLEEP" /\ user' = user
      BY <2>7, OnlyAsleep DEF HandleKey, KeyDone, Inspector
    <3>2. at'["User"] = at["User"] /\ wheel'["User"] = wheel["User"]
      BY <2>7 DEF HandleKey, KeyDone, Inspector, Begin
    <3> QED
      BY <3>1, <3>2
  <2>8. CASE KeyPress \/ MotionController
    BY <2>8 DEF KeyPress, MotionController
  <2>9. CASE ChassisSKD
    BY <2>9 DEF ChassisSKD
  <2>10. CASE MotorSKD
    BY <2>10 DEF MotorSKD
  <2>11. CASE UNCHANGED vars
    BY <2>11
  <2> QED
    BY <2>1, <2>2, <2>3, <2>4, <2>5, <2>6, <2>7, <2>8, <2>9, <2>10, <2>11
       DEF Next, UserThread, UserActionThread
<1>3. VerdictHeld => OneVerdict
  BY DEF VerdictHeld, RelaxProgress, OneVerdict, Released
<1> QED
  BY <1>1, <1>2, <1>3, Typing, Ownership, PTL DEF Spec
=============================================================================
