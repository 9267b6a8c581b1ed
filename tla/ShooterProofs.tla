--------------------------- MODULE ShooterProofs ----------------------------
(***************************************************************************)
(* Theorems about the shooter, for every value of the constants.           *)
(*                                                                         *)
(* ShootLG: the inductive invariant says where the two threads can be when *)
(* the state and the started flag have the values they have; it needs no   *)
(* bound and no fairness.                                                  *)
(*                                                                         *)
(* ShootSKD: what makes the flags agree with the mode is the progress of   *)
(* set_mode(): each flag agrees from the step that writes it, and the      *)
(* ShootSKD thread, which clears flags of its own, does so only when the   *)
(* mode is already RELAX.                                                  *)
(***************************************************************************)
EXTENDS ShootLG, ShootSKD, TLAPS

(* ShootLG.                                                                *)

Shooting == {"zero", "limited", "aim", "wake"}

(* started is false only before the detector first suspends and while it   *)
(* is suspended.                                                           *)
StartedInv ==
  /\ ~started => pc.Stuck \in {"check", "suspended"}
  /\ pc.Stuck = "suspended" => ~started

(* The user thread is inside shoot() only in state SHOOTING; STUCK is left *)
(* before the detector loops.                                              *)
StateInv ==
  /\ pc.User \in Shooting => shooterState = "SHOOTING"
  /\ shooterState = "STUCK" => pc.Stuck \in {"reverse", "reversing", "resume"}

(* No detector started under a state other than STOP: shoot() is on its    *)
(* way to the wake-up.                                                     *)
WatchInv ==
  ~started /\ shooterState # "STOP" => pc.User \in Shooting

IInv == StartedInv /\ StateInv /\ WatchInv

(* roundf() of a quotient of integers is an integer.                       *)
LEMMA BulletsInt ==
  ASSUME NEW angle \in Int PROVE Bullets(angle) \in Int
BY ShootLGAssumption DEF Bullets

(* The detector takes a step only while the user thread sleeps.            *)
LEMMA DetectorNeedsIdleUser ==
  ASSUME Running("Stuck") PROVE pc.User = "idle"
BY DEF Running, MayRun, Blocked, Rank

(* Type correctness of the shooting logic (class ShootLG).                 *)
THEOREM Typing == Spec => []TypeOK
<1>1. Init => TypeOK
  <2> SUFFICES ASSUME Init PROVE TypeOK
    OBVIOUS
  <2>1. pc \in [User : UserLabels, Stuck : StuckLabels]
    BY DEF Init, UserLabels, StuckLabels
  <2>2. /\ targetCount \in Int /\ remaining \in Int
        /\ loaderTarget \in Int /\ loaderAngle \in Int
        /\ stuckCount \in 0..(StuckThreshold + 1)
    BY ShootLGAssumption DEF Init
  <2>3. QED
    BY <2>1, <2>2, Zenon DEF Init, TypeOK, Commands
<1>2. TypeOK /\ [Next]_vars => TypeOK'
  <2> SUFFICES ASSUME TypeOK, [Next]_vars PROVE TypeOK'
    OBVIOUS
  <2> USE ShootLGAssumption DEF TypeOK, At, Goto, UserLabels, StuckLabels,
                                logic, loader, watch
  <2>1. CASE UserCycle
    BY <2>1 DEF UserCycle, Commands
  <2>2. ASSUME NEW n \in Requests, Shoot(n) PROVE TypeOK'
    BY <2>2 DEF Shoot
  <2>3. CASE ShootZero \/ ShootLimited
    BY <2>3 DEF ShootZero, ShootLimited
  <2>4. CASE ShootAim
    BY <2>4 DEF ShootAim
  <2>5. CASE ShootWake
    <3>1. CASE started
      BY <2>5, <3>1 DEF ShootWake
    <3>2. CASE ~started
      BY <2>5, <3>2 DEF ShootWake
    <3>3. QED
      BY <3>1, <3>2
  <2>6. CASE ForceStop \/ StopZero \/ StopAim
    <3>1. CASE ForceStop \/ StopZero
      BY <3>1 DEF ForceStop, StopZero
    <3>2. CASE StopAim
      BY <3>2 DEF StopAim
    <3>3. QED
      BY <2>6, <3>1, <3>2
  <2>7. CASE StopCount
    BY <2>7, BulletsInt DEF StopCount
  <2>8. CASE Park \/ InitialWait \/ Paused \/ TestState
    <3>1. CASE Park \/ InitialWait
      BY <3>1 DEF Park, InitialWait
    <3>2. CASE Paused \/ TestState
      BY <3>2 DEF Paused, TestState
    <3>3. QED
      BY <2>8, <3>1, <3>2
  <2>9. CASE Sample
    BY <2>9 DEF Sample, NextStuckCount
  <2>10. CASE MarkStuck \/ Reverse \/ RestoreTarget \/ Resume \/ Nap
    <3>1. CASE MarkStuck \/ Reverse
      BY <3>1 DEF MarkStuck, Reverse
    <3>2. CASE RestoreTarget \/ Resume \/ Nap
      BY <3>2 DEF RestoreTarget, Resume, Nap
    <3>3. QED
      BY <2>10, <3>1, <3>2
  <2>11. CASE Environment
    <3>1. ASSUME NEW d \in {-1, 1}, LoaderMoves(d) PROVE TypeOK'
      BY <3>1 DEF LoaderMoves
    <3>2. CASE Jam
      BY <3>2 DEF Jam
    <3>3. ASSUME NEW n \in Supplies, SupplyBullets(n) PROVE TypeOK'
      BY <3>3 DEF SupplyBullets
    <3>4. ASSUME NEW c \in Commands, Operate(c) PROVE TypeOK'
      BY <3>4 DEF Operate
    <3>5. QED
      BY <2>11, <3>1, <3>2, <3>3, <3>4 DEF Environment
  <2>12. CASE UNCHANGED vars
    BY <2>12 DEF vars
  <2>13. QED
    BY <2>1, <2>2, <2>3, <2>4, <2>5, <2>6, <2>7, <2>8, <2>9, <2>10, <2>11,
       <2>12 DEF Next, User, UserStep, StuckDetector
<1>3. QED
  BY <1>1, <1>2, PTL DEF Spec

-----------------------------------------------------------------------------
(* The inductive invariant of the wake-up protocol between                 *)
(* ShootLG::shoot() and ShootLG::StuckDetectorThread::main().              *)
THEOREM Inductive == Spec => []IInv
<1>1. Init => IInv
  BY DEF Init, IInv, StartedInv, StateInv, WatchInv, Shooting
<1>2. TypeOK /\ IInv /\ [Next]_vars => IInv'
  <2> SUFFICES ASSUME TypeOK, IInv, [Next]_vars PROVE IInv'
    OBVIOUS
  <2> USE DEF TypeOK, IInv, StartedInv, StateInv, WatchInv, Shooting, At,
              Goto, UserLabels, StuckLabels, logic, loader, watch
  <2>1. CASE UserCycle
    <3>1. pc'.Stuck = pc.Stuck /\ pc'.User \in {"idle", "shoot", "relax", "stop"}
      BY <2>1 DEF UserCycle, Commands
    <3>2. pc.User = "idle" /\ UNCHANGED <<shooterState, started>>
      BY <2>1 DEF UserCycle
    <3>3. QED
      BY <3>1, <3>2
  <2>2. ASSUME NEW n \in Requests, Shoot(n) PROVE IInv'
    BY <2>2 DEF Shoot
  <2>3. CASE ShootZero \/ ShootLimited \/ ShootAim
    BY <2>3 DEF ShootZero, ShootLimited, ShootAim
  <2>4. CASE ShootWake
    BY <2>4 DEF ShootWake
  <2>5. CASE ForceStop \/ StopCount \/ StopZero \/ StopAim
    BY <2>5 DEF ForceStop, StopCount, StopZero, StopAim
  <2>6. CASE StuckDetector
    <3>1. pc.User = "idle"
      BY <2>6, DetectorNeedsIdleUser DEF StuckDetector, Park, InitialWait,
         Paused, TestState, Sample, MarkStuck, Reverse, RestoreTarget, Resume,
         Nap
    <3>2. CASE Park
      <4>1. CASE shooterState # "SHOOTING"
        <5>1. started' = FALSE /\ pc'.Stuck = "suspended" /\ pc'.User = "idle"
          BY <3>1, <3>2, <4>1 DEF Park
        <5>2. shooterState' = "STOP"
          BY <3>2, <4>1 DEF Park
        <5>3. QED
          BY <5>1, <5>2
      <4>2. CASE shooterState = "SHOOTING"
        <5>1. pc'.Stuck = "initial" /\ pc'.User = "idle"
          BY <3>1, <3>2, <4>2 DEF Park
        <5>2. pc.Stuck = "check" /\ UNCHANGED <<shooterState, started>>
          BY <3>2, <4>2 DEF Park
        <5>3. started
          BY <3>1, <5>2, <4>2
        <5>4. QED
          BY <4>2, <5>1, <5>2, <5>3
      <4>3. QED
        BY <4>1, <4>2
    <3>3. CASE InitialWait \/ Paused \/ TestState \/ Sample
      BY <3>1, <3>3 DEF InitialWait, Paused, TestState, Sample
    <3>4. CASE MarkStuck \/ Reverse \/ RestoreTarget \/ Resume \/ Nap
      BY <3>1, <3>4 DEF MarkStuck, Reverse, RestoreTarget, Resume, Nap
    <3>5. QED
      BY <2>6, <3>2, <3>3, <3>4 DEF StuckDetector
  <2>7. CASE Environment
    BY <2>7 DEF Environment, LoaderMoves, Jam, Operate, SupplyBullets
  <2>8. CASE UNCHANGED vars
    BY <2>8 DEF vars
  <2>9. QED
    BY <2>1, <2>2, <2>3, <2>4, <2>5, <2>6, <2>7, <2>8 DEF Next, User, UserStep
<1>3. QED
  BY <1>1, <1>2, Typing, PTL DEF Spec

(* Once shoot() has returned, a shooter that is SHOOTING or STUCK never    *)
(* has a suspended detector.                                               *)
THEOREM NoWakeupLost == Spec => []NoLostWakeup
<1>1. IInv => NoLostWakeup
  BY DEF IInv, StartedInv, WatchInv, NoLostWakeup, Shooting
<1>2. QED
  BY <1>1, Inductive, PTL

(* Past start-up, chSchWakeupS() in shoot() is only ever applied to a      *)
(* suspended detector.                                                     *)
THEOREM WakesSuspended == Spec => []WakesOnlySuspended
<1>1. IInv => WakesOnlySuspended
  BY DEF IInv, StartedInv, WakesOnlySuspended, Booting
<1>2. QED
  BY <1>1, Inductive, PTL

-----------------------------------------------------------------------------
(* ShootSKD.                                                               *)

FlagsProgress ==
  /\ caller # "a2v" => (enableA2V <=> mode = "LIMITED")
  /\ caller \notin {"a2v", "LOADER"} =>
       (enableV2I["LOADER"] <=> mode = "LIMITED")
  /\ mode = "LIMITED" /\ caller \in {"FW_DOWN", "idle"} => enableV2I["FW_UP"]
  /\ mode = "LIMITED" /\ caller = "idle" => enableV2I["FW_DOWN"]

USE ShootSKDAssumption DEF Motors, Wheels, Modes

(* Every register, flag and output always has its type: what a thread      *)
(* copies from the registers is what the caller may set.                   *)
THEOREM SKDTyping == SKDSpec => []SKDTypeOK
<1>1. SKDInit => SKDTypeOK
  BY DEF SKDInit, SKDTypeOK
<1>2. SKDTypeOK /\ [SKDNext]_skdVars => SKDTypeOK'
  <2> SUFFICES ASSUME SKDTypeOK, [SKDNext]_skdVars PROVE SKDTypeOK'
    OBVIOUS
  <2>1. CASE Set
    <3>1. ASSUME NEW m \in Modes, SetMode(m) PROVE SKDTypeOK'
      BY <3>1 DEF SKDTypeOK, SetMode, enables, controller, plant
    <3>2. ASSUME NEW a \in Angles, SetLoaderTargetAngle(a) PROVE SKDTypeOK'
      BY <3>2 DEF SKDTypeOK, SetLoaderTargetAngle, enables, controller, plant
    <3>3. ASSUME NEW v \in WheelSpeeds, SetFrictionWheels(v) PROVE SKDTypeOK'
      BY <3>3 DEF SKDTypeOK, SetFrictionWheels, enables, controller, plant
    <3>4. ASSUME NEW s \in FeedSpeeds, SetLoaderTargetVelocity(s) PROVE SKDTypeOK'
      BY <3>4 DEF SKDTypeOK, SetLoaderTargetVelocity, enables, controller, plant
    <3>5. CASE ResetLoaderAccumulatedAngle
      BY <3>5 DEF SKDTypeOK, ResetLoaderAccumulatedAngle, registers, enables, controller
    <3>6. QED
      BY <2>1, <3>1, <3>2, <3>3, <3>4, <3>5 DEF Set
  <2>2. CASE EnableA2V
    BY <2>2 DEF SKDTypeOK, EnableA2V, registers, controller, plant
  <2>3. ASSUME NEW m \in Motors, EnableV2I(m) PROVE SKDTypeOK'
    <3>1. enableV2I' \in [Motors -> BOOLEAN]
      BY <2>3 DEF SKDTypeOK, EnableV2I
    <3>2. caller' \in {"idle", "a2v"} \cup Motors
      BY <2>3 DEF EnableV2I, AfterFlag
    <3>3. QED
      BY <2>3, <3>1, <3>2 DEF SKDTypeOK, EnableV2I, registers, controller, plant
  <2>4. CASE Limited
    <3>1. targetV' \in [Motors -> Int] /\ targetA' \in Angles
      BY <2>4 DEF SKDTypeOK, Limited
    <3>2. QED
      BY <2>4, <3>1 DEF SKDTypeOK, Limited, registers, enables, plant
  <2>5. CASE Relax
    BY <2>5 DEF SKDTypeOK, Relax, registers, plant
  <2>6. CASE MotorSKD
    <3>1. LoaderSpeed \in Int
      BY DEF SKDTypeOK, LoaderSpeed
    <3>2. targetV' \in [Motors -> Int]
      BY <2>6, <3>1 DEF SKDTypeOK, MotorSKD
    <3>3. output' \in [Motors -> Int \cup {NoCurrent}]
      BY <2>6, <3>2 DEF SKDTypeOK, MotorSKD
    <3>4. QED
      BY <2>6, <3>2, <3>3 DEF SKDTypeOK, MotorSKD, registers, enables, plant
  <2>7. CASE Feedback
    <3>1. ASSUME NEW d \in {-1, 1}, LoaderTurns(d) PROVE SKDTypeOK'
      BY <3>1 DEF SKDTypeOK, LoaderTurns, registers, enables, controller
    <3>2. ASSUME NEW w \in Wheels, WheelChanges(w) PROVE SKDTypeOK'
      BY <3>2 DEF SKDTypeOK, WheelChanges, registers, enables, controller
    <3>3. QED
      BY <2>7, <3>1, <3>2 DEF Feedback
  <2>8. CASE UNCHANGED skdVars
    BY <2>8 DEF SKDTypeOK, skdVars, registers, enables, controller, plant
  <2>9. QED
    BY <2>1, <2>2, <2>3, <2>4, <2>5, <2>6, <2>7, <2>8 DEF SKDNext, Flag, SKDThread
<1>3. QED
  BY <1>1, <1>2, PTL DEF SKDSpec

(* The progress of set_mode() is an invariant of every step, those of the  *)
(* two periodic threads included.                                          *)
THEOREM Progress == SKDSpec => []FlagsProgress
<1>1. SKDInit => FlagsProgress
  BY DEF SKDInit, FlagsProgress
<1>2. SKDTypeOK /\ FlagsProgress /\ [SKDNext]_skdVars => FlagsProgress'
  <2> SUFFICES ASSUME SKDTypeOK, FlagsProgress, [SKDNext]_skdVars PROVE FlagsProgress'
    OBVIOUS
  <2>1. CASE Set
    BY <2>1 DEF FlagsProgress, Set, SetMode, SetLoaderTargetAngle, SetFrictionWheels,
       SetLoaderTargetVelocity, ResetLoaderAccumulatedAngle, registers, enables
  <2>2. CASE EnableA2V
    BY <2>2 DEF FlagsProgress, EnableA2V, registers
  <2>3. ASSUME NEW m \in Motors, EnableV2I(m) PROVE FlagsProgress'
    BY <2>3 DEF FlagsProgress, SKDTypeOK, EnableV2I, AfterFlag, registers
  <2>4. CASE Limited
    BY <2>4 DEF FlagsProgress, Limited, registers, enables
  <2>5. CASE Relax
    BY <2>5 DEF FlagsProgress, SKDTypeOK, Relax, registers
  <2>6. CASE MotorSKD
    BY <2>6 DEF FlagsProgress, MotorSKD, registers, enables
  <2>7. CASE Feedback
    BY <2>7 DEF FlagsProgress, Feedback, LoaderTurns, WheelChanges, registers, enables
  <2>8. CASE UNCHANGED skdVars
    BY <2>8 DEF FlagsProgress, skdVars, registers, enables
  <2>9. QED
    BY <2>1, <2>2, <2>3, <2>4, <2>5, <2>6, <2>7, <2>8 DEF SKDNext, Flag, SKDThread
<1>3. QED
  BY SKDTyping, <1>1, <1>2, PTL DEF SKDSpec

(* Once set_mode() has returned the enable flags agree with the mode, even *)
(* though ShootSKD::SKDThread::main clears some of them on its own.        *)
THEOREM FlagsAgree == SKDSpec => []FlagsAgreeWithMode
<1>1. SKDTypeOK /\ FlagsProgress => FlagsAgreeWithMode
  BY DEF SKDTypeOK, FlagsProgress, FlagsAgreeWithMode
<1>2. QED
  BY SKDTyping, Progress, <1>1, PTL

(* FORCED_RELAX_MODE is "zero force" for the loader: no order of the       *)
(* ShootSKD and motor controller threads powers it again.                  *)
THEOREM LoaderFree == SKDSpec => LoaderStaysFree
<1> DEFINE Kept == mode = "RELAX" /\ caller = "idle" /\ output["LOADER"] = NoCurrent
                     => output'["LOADER"] = NoCurrent
<1>1. SKDTypeOK /\ FlagsProgress /\ [SKDNext]_skdVars => [Kept]_skdVars
  <2> SUFFICES ASSUME SKDTypeOK, FlagsProgress, [SKDNext]_skdVars,
                      mode = "RELAX", caller = "idle", output["LOADER"] = NoCurrent
               PROVE  output'["LOADER"] = NoCurrent
    BY DEF skdVars, controller
  <2>1. ~enableV2I["LOADER"]
    BY DEF FlagsProgress
  <2>2. CASE Relax
    BY <2>2 DEF Relax
  <2>3. CASE MotorSKD
    BY <2>1, <2>3 DEF MotorSKD
  <2>4. CASE Limited
    BY <2>4 DEF Limited
  <2>5. CASE Set \/ Flag \/ Feedback \/ UNCHANGED skdVars
    BY <2>5 DEF Set, SetMode, SetLoaderTargetAngle, SetFrictionWheels,
       SetLoaderTargetVelocity, ResetLoaderAccumulatedAngle, Flag, EnableA2V, EnableV2I,
       Feedback, LoaderTurns, WheelChanges, skdVars, controller
  <2>6. QED
    BY <2>2, <2>3, <2>4, <2>5 DEF SKDNext, SKDThread
<1>2. QED
  BY SKDTyping, Progress, <1>1, PTL DEF SKDSpec, LoaderStaysFree
=============================================================================
