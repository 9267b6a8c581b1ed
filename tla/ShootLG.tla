------------------------------ MODULE ShootLG ------------------------------
(***************************************************************************)
(* The shooting logic of a vehicle (class ShootLG): the user thread fires  *)
(* and stops the bullet loader, the stuck detector thread watches it and,  *)
(* when it jams, turns it back and then forward again.  The user thread    *)
(* has the higher priority, so it preempts the detector between any two    *)
(* of the detector's steps, while the detector only ever sees the user     *)
(* thread asleep.  The loader angle moves under both of them, because CAN  *)
(* feedback is handled by a thread above every other.                      *)
(*                                                                         *)
(* Angles are whole units: a bullet is AnglePerBullet of them.             *)
(***************************************************************************)
EXTENDS Integers, FixedPriority

CONSTANTS
  AnglePerBullet,   \* ShootLG::angle_per_bullet
  ReverseAngle,     \* STUCK_REVERSE_ANGLE
  StuckThreshold,   \* STUCK_THRESHOLD_COUNT
  Requests,         \* the numbers of bullets the user thread may ask for
  Supplies,         \* the numbers of bullets one supply may drop
  MaxAngle,         \* bound: the loader stays within -MaxAngle..MaxAngle
  MaxCount,         \* bound: the counter stays within -MaxCount..MaxCount
  Vision,           \* ENABLE_VISION
  TriggerAtBoot     \* may the trigger be held before the detector first runs?

ASSUME ShootLGAssumption ==
  /\ AnglePerBullet \in Nat \ {0} /\ ReverseAngle \in Nat
  /\ StuckThreshold \in Nat
  /\ Requests \subseteq Int /\ Supplies \subseteq Nat
  /\ MaxAngle \in Nat /\ MaxCount \in Nat
  /\ Vision \in BOOLEAN /\ TriggerAtBoot \in BOOLEAN

VARIABLES
  shooterState,   \* shooter_state
  limitMode,      \* mode
  targetCount,    \* target_bullet_count
  remaining,      \* remaining_bullet_count
  skdMode,        \* ShootSKD::mode
  loaderTarget,   \* ShootSKD::bullet_target_angle
  loaderAngle,    \* accumulated angle of the loader since its last reset
  jammed,         \* the loader draws a high current and does not move
  started,        \* stuck_detector_thread.started
  pausedOnce,     \* stuck_detector_thread.paused_once
  stuckCount,     \* stuck_detector_thread.stuck_count
  cmd,            \* what the operator and the inspector ask for
  pc              \* where each thread is

logic  == <<shooterState, limitMode, targetCount, remaining>>
loader == <<skdMode, loaderTarget, loaderAngle>>
watch  == <<started, pausedOnce, stuckCount>>
vars   == <<logic, loader, watch, jammed, cmd, pc>>

Commands == {"fire", "visionFire", "neutral", "release", "safe", "failure"}

(* A user step that ends a stop() puts the thread back to sleep.           *)
UserLabels == {"idle", "shoot", "zero", "limited", "aim", "wake",
               "relax", "stop", "stopZero", "stopAim"}
StuckLabels == {"check", "suspended", "initial", "pausing", "test", "sample",
                "mark", "reverse", "reversing", "resume", "nap", "corrupt"}
Sleeping == {"suspended", "pausing", "reversing", "nap"}

Rank == [User |-> 2, Stuck |-> 1]
Blocked == {t \in DOMAIN Rank : IF t = "User" THEN pc.User = "idle"
                                ELSE pc.Stuck \in Sleeping}

(* A thread inserted twice in the ready list halts the kernel: from then   *)
(* on nothing runs.                                                        *)
Running(t) == pc.Stuck # "corrupt" /\ MayRun(t, Rank, Blocked)

At(t, label) == Running(t) /\ pc[t] = label
Goto(t, label) == pc' = [pc EXCEPT ![t] = label]

(* roundf(angle / angle_per_bullet): halves away from zero.                *)
Bullets(angle) ==
  IF angle >= 0 THEN (2 * angle + AnglePerBullet) \div (2 * AnglePerBullet)
  ELSE -((2 * (-angle) + AnglePerBullet) \div (2 * AnglePerBullet))

Init ==
  /\ shooterState = "STOP" /\ limitMode = "UNLIMITED"
  /\ targetCount = 0 /\ remaining = 0
  /\ skdMode = "RELAX" /\ loaderTarget = 0 /\ loaderAngle = 0
  /\ jammed = FALSE
  /\ started = FALSE /\ pausedOnce = FALSE /\ stuckCount = 0
  /\ cmd = "neutral"
  /\ pc = [User |-> "idle", Stuck |-> "check"]

(* The detector is created ready, with started still false; it has a lower *)
(* priority than the main thread, so the user thread may run before it.    *)
Booting == pc.Stuck = "check" /\ ~started

-----------------------------------------------------------------------------
(* The user thread: one cycle looks at the switches and the inspector's    *)
(* flags once for the shooter, and calls shoot(), stop() or force_stop().  *)

UserCycle ==
  /\ At("User", "idle")
  /\ limitMode' = CASE cmd \in {"fire", "neutral"} -> "UNLIMITED"
                    [] cmd = "visionFire" -> "VISION_LIMITED"
                    [] OTHER -> limitMode
  /\ Goto("User",
       CASE cmd \in {"fire", "visionFire"} ->
              IF shooterState = "STOP" /\ limitMode' = "UNLIMITED"
                THEN "shoot" ELSE "idle"
         [] cmd = "neutral" -> IF shooterState # "STOP" THEN "stop" ELSE "idle"
         [] cmd \in {"release", "failure"} -> "stop"
         [] cmd = "safe" -> "relax")
  /\ UNCHANGED <<shooterState, targetCount, remaining, loader, watch, jammed, cmd>>

(* shoot(): the target and the state ...                                   *)
Shoot(n) ==
  /\ At("User", "shoot")
  /\ targetCount' = n /\ shooterState' = "SHOOTING"
  /\ Goto("User", "zero")
  /\ UNCHANGED <<limitMode, remaining, loader, watch, jammed, cmd>>

(* ... reset_loader_accumulated_angle() ...                                *)
ShootZero ==
  /\ At("User", "zero")
  /\ loaderAngle' = 0
  /\ Goto("User", "limited")
  /\ UNCHANGED <<logic, skdMode, loaderTarget, watch, jammed, cmd>>

(* ... ShootSKD::set_mode(LIMITED_SHOOTING_MODE) ...                       *)
ShootLimited ==
  /\ At("User", "limited")
  /\ skdMode' = "LIMITED"
  /\ Goto("User", "aim")
  /\ UNCHANGED <<logic, loaderTarget, loaderAngle, watch, jammed, cmd>>

(* ... set_loader_target_angle() ...                                       *)
ShootAim ==
  /\ At("User", "aim")
  /\ loaderTarget' = targetCount * AnglePerBullet
  /\ Goto("User", "wake")
  /\ UNCHANGED <<logic, skdMode, loaderAngle, watch, jammed, cmd>>

(* ... and, in one locked section, the wake-up of a detector that is not   *)
(* started.  chSchWakeupS() on a thread that is not suspended inserts it   *)
(* in the ready list a second time.                                        *)
ShootWake ==
  /\ At("User", "wake")
  /\ IF started
       THEN /\ Goto("User", "idle")
            /\ UNCHANGED <<started, pausedOnce>>
       ELSE /\ started' = TRUE /\ pausedOnce' = FALSE
            /\ pc' = [pc EXCEPT !.User = "idle",
                                !.Stuck = IF @ = "suspended" THEN "initial"
                                          ELSE "corrupt"]
  /\ UNCHANGED <<logic, loader, stuckCount, jammed, cmd>>

(* force_stop(): ShootSKD::set_mode(FORCED_RELAX_MODE), then stop().       *)
ForceStop ==
  /\ At("User", "relax")
  /\ skdMode' = "RELAX"
  /\ Goto("User", "stop")
  /\ UNCHANGED <<logic, loaderTarget, loaderAngle, watch, jammed, cmd>>

StopForgetsState ==   \* mutant of StopAim: the state is left as it was
  /\ At("User", "stopAim")
  /\ loaderTarget' = 0
  /\ Goto("User", "idle")
  /\ UNCHANGED <<logic, skdMode, loaderAngle, watch, jammed, cmd>>

(* stop(): the count is taken in a locked section ...                      *)
StopCount ==
  /\ At("User", "stop")
  /\ remaining' = remaining - Bullets(loaderAngle)
  /\ Goto("User", "stopZero")
  /\ UNCHANGED <<shooterState, limitMode, targetCount, loader, watch, jammed, cmd>>

(* ... the angle it was taken from is reset after the lock is released ... *)
StopZero ==
  /\ At("User", "stopZero")
  /\ loaderAngle' = 0
  /\ Goto("User", "stopAim")
  /\ UNCHANGED <<logic, skdMode, loaderTarget, watch, jammed, cmd>>

(* ... and the target and the state are set last.                          *)
StopAim ==
  /\ At("User", "stopAim")
  /\ loaderTarget' = 0 /\ shooterState' = "STOP"
  /\ Goto("User", "idle")
  /\ UNCHANGED <<limitMode, targetCount, remaining, skdMode, loaderAngle,
                 watch, jammed, cmd>>

UserStep == \/ \E n \in Requests : Shoot(n)
            \/ ShootZero \/ ShootLimited \/ ShootAim \/ ShootWake
            \/ ForceStop \/ StopCount \/ StopZero \/ StopAim

User == UserCycle \/ UserStep

-----------------------------------------------------------------------------
(* The stuck detector thread.                                              *)

ParkStarted ==   \* mutant of Park: started is not cleared
  /\ At("Stuck", "check")
  /\ Goto("Stuck", IF shooterState # "SHOOTING" THEN "suspended" ELSE "initial")
  /\ UNCHANGED <<logic, loader, watch, jammed, cmd>>

ParkAsleep ==   \* mutant of Park: sleeps until the next round, not suspended
  /\ At("Stuck", "check")
  /\ IF shooterState # "SHOOTING"
       THEN started' = FALSE /\ Goto("Stuck", "nap")
       ELSE Goto("Stuck", "initial") /\ UNCHANGED started
  /\ UNCHANGED <<logic, loader, pausedOnce, stuckCount, jammed, cmd>>

(* The locked section: nothing to watch, so the thread suspends itself.    *)
Park ==
  /\ At("Stuck", "check")
  /\ IF shooterState # "SHOOTING"
       THEN started' = FALSE /\ Goto("Stuck", "suspended")
       ELSE Goto("Stuck", "initial") /\ UNCHANGED started
  /\ UNCHANGED <<logic, loader, pausedOnce, stuckCount, jammed, cmd>>

InitialWait ==
  /\ At("Stuck", "initial")
  /\ Goto("Stuck", IF pausedOnce THEN "test" ELSE "pausing")
  /\ UNCHANGED <<logic, loader, watch, jammed, cmd>>

Paused ==
  /\ At("Stuck", "pausing")
  /\ pausedOnce' = TRUE
  /\ Goto("Stuck", "test")
  /\ UNCHANGED <<logic, loader, started, stuckCount, jammed, cmd>>

(* Stopped during the pause: back to the head of the loop.                 *)
TestState ==
  /\ At("Stuck", "test")
  /\ Goto("Stuck", IF shooterState = "SHOOTING" THEN "sample" ELSE "check")
  /\ UNCHANGED <<logic, loader, watch, jammed, cmd>>

CountToThreshold ==   \* mutant of NextStuckCount: never above the threshold
  IF ~jammed THEN 0
  ELSE IF stuckCount >= StuckThreshold THEN stuckCount ELSE stuckCount + 1

(* A sample of torque and velocity.  Above the threshold the exact count   *)
(* no longer matters, so it is kept at StuckThreshold + 1.                 *)
NextStuckCount ==
  IF ~jammed THEN 0
  ELSE IF stuckCount > StuckThreshold THEN stuckCount ELSE stuckCount + 1

Sample ==
  /\ At("Stuck", "sample")
  /\ stuckCount' = NextStuckCount
  /\ Goto("Stuck", IF stuckCount' > StuckThreshold THEN "mark" ELSE "nap")
  /\ UNCHANGED <<logic, loader, started, pausedOnce, jammed, cmd>>

MarkStuck ==
  /\ At("Stuck", "mark")
  /\ shooterState' = "STUCK"
  /\ Goto("Stuck", "reverse")
  /\ UNCHANGED <<limitMode, targetCount, remaining, loader, watch, jammed, cmd>>

Reverse ==
  /\ At("Stuck", "reverse")
  /\ loaderTarget' = loaderAngle - ReverseAngle
  /\ Goto("Stuck", "reversing")
  /\ UNCHANGED <<logic, skdMode, loaderAngle, watch, jammed, cmd>>

(* After STUCK_REVERSE_TIME the original target is put back ...            *)
RestoreTarget ==
  /\ At("Stuck", "reversing")
  /\ loaderTarget' = targetCount * AnglePerBullet
  /\ Goto("Stuck", "resume")
  /\ UNCHANGED <<logic, skdMode, loaderAngle, watch, jammed, cmd>>

(* ... and the state set to SHOOTING, whatever the user did meanwhile.     *)
Resume ==
  /\ At("Stuck", "resume")
  /\ shooterState' = "SHOOTING"
  /\ Goto("Stuck", "nap")
  /\ UNCHANGED <<limitMode, targetCount, remaining, loader, watch, jammed, cmd>>

Nap ==
  /\ At("Stuck", "nap")
  /\ Goto("Stuck", "check")
  /\ UNCHANGED <<logic, loader, watch, jammed, cmd>>

StuckDetector == \/ Park \/ InitialWait \/ Paused \/ TestState
                 \/ Sample \/ MarkStuck \/ Reverse \/ RestoreTarget
                 \/ Resume \/ Nap

-----------------------------------------------------------------------------
(* What happens around the two threads.                                    *)

(* A CAN feedback frame moves the loader angle; the thread that handles it *)
(* preempts everybody.                                                     *)
LoaderMoves(d) ==
  /\ pc.Stuck # "corrupt"
  /\ ~jammed
  /\ loaderAngle + d \in -MaxAngle..MaxAngle
  /\ remaining \in -MaxCount..MaxCount
  /\ loaderAngle' = loaderAngle + d
  /\ UNCHANGED <<logic, skdMode, loaderTarget, watch, jammed, cmd, pc>>

(* The switches, the wheel, the mouse and the inspector's flags change     *)
(* freely between two looks of the user thread.                            *)
Operate(c) ==
  /\ pc.Stuck # "corrupt" /\ pc.User = "idle"
  /\ c = "visionFire" => Vision
  /\ c = "fire" => TriggerAtBoot \/ ~Booting
  /\ cmd' = c
  /\ UNCHANGED <<logic, loader, watch, jammed, pc>>

Jam ==
  /\ pc.Stuck # "corrupt"
  /\ jammed' = ~jammed
  /\ UNCHANGED <<logic, loader, watch, cmd, pc>>

(* The bullet counter thread adds a supply in a locked section; it has the *)
(* lowest priority of the three.                                           *)
SupplyBullets(n) ==
  /\ pc.User = "idle" /\ pc.Stuck \in Sleeping
  /\ remaining + n <= MaxCount
  /\ remaining' = remaining + n
  /\ UNCHANGED <<shooterState, limitMode, targetCount, loader, watch, jammed,
                 cmd, pc>>

Environment == \/ \E d \in {-1, 1} : LoaderMoves(d)
               \/ Jam
               \/ \E c \in Commands : Operate(c)
               \/ \E n \in Supplies : SupplyBullets(n)

Next == User \/ StuckDetector \/ Environment

Spec == Init /\ [][Next]_vars

(* The user thread runs every cycle.  The detector is preempted by it, but *)
(* the user thread sleeps most of the time, so the detector advances       *)
(* whenever it keeps being able to.  The detector's shortest sleep (10 ms) *)
(* is longer than the user thread's period (7 ms), so a detector that      *)
(* keeps napping is overtaken by a user cycle now and then.                *)
Fairness ==
  /\ WF_vars(User)
  /\ SF_vars(StuckDetector)
  /\ SF_vars(UserCycle /\ pc.Stuck = "nap")
FairSpec == Spec /\ Fairness

-----------------------------------------------------------------------------
TypeOK ==
  /\ shooterState \in {"STOP", "SHOOTING", "STUCK"}
  /\ limitMode \in {"UNLIMITED", "VISION_LIMITED"}
  /\ targetCount \in Int /\ remaining \in Int
  /\ skdMode \in {"RELAX", "LIMITED"}
  /\ loaderTarget \in Int /\ loaderAngle \in Int
  /\ jammed \in BOOLEAN
  /\ started \in BOOLEAN /\ pausedOnce \in BOOLEAN
  /\ stuckCount \in 0..(StuckThreshold + 1)
  /\ cmd \in Commands
  /\ pc \in [User : UserLabels, Stuck : StuckLabels]

(* Nobody shoots unwatched: once shoot() has returned, a shooter that is   *)
(* SHOOTING or STUCK has a detector that will look at it, never one left   *)
(* suspended.  It rests on the state being tested and the thread being     *)
(* suspended in one locked section (ShootLG::StuckDetectorThread::main),   *)
(* and on shoot() setting the state before it tests started.               *)
NoLostWakeup ==
  pc.User = "idle" /\ shooterState # "STOP" => pc.Stuck # "suspended"

(* The kernel's precondition for chSchWakeupS(), past start-up: the thread *)
(* shoot() is about to wake is suspended, not asleep or ready.             *)
WakesOnlySuspended ==
  pc.User = "wake" /\ ~started /\ ~Booting => pc.Stuck = "suspended"

(* chschd.c: "The thread must not be already inserted in any list" when    *)
(* chSchWakeupS() is called, start-up included.                            *)
WakeupPrecondition ==
  pc.User = "wake" /\ ~started => pc.Stuck = "suspended"

(* "Stop shooting" (shoot_logic.h): once stop() has set STOP, only the     *)
(* next shoot() ends it.                                                   *)
StopIsFinal ==
  [][shooterState = "STOP" /\ shooterState' # "STOP" => pc.User = "shoot"]_vars

(* "recover original target" (shoot_logic.cpp): whenever the state is      *)
(* SHOOTING and both threads are at rest, the loader is aimed at the       *)
(* bullets that were asked for.                                            *)
AimedWhileShooting ==
  shooterState = "SHOOTING" /\ pc.User = "idle" /\ pc.Stuck = "nap"
    => loaderTarget = targetCount * AnglePerBullet

(* "Bullet loader target ACCUMULATED angle [positive, degree]"             *)
(* (shoot_scheduler.h): shoot() never aims the loader backwards.           *)
ShootsForward ==
  pc.User = "wake" => loaderTarget >= 0

(* A detector in the middle of a reversal may undo a stop(), but not for   *)
(* ever: if from some time on the operator never fires, the shooter ends   *)
(* stopped, aimed at where it is, with the detector suspended.             *)
Withheld == cmd \notin {"fire", "visionFire"}
StopWins ==
  <>[]Withheld =>
    <>[](shooterState = "STOP" /\ loaderTarget = 0 /\ pc.Stuck = "suspended")

(* A loader that stays jammed under a trigger that stays pressed is        *)
(* reversed again and again.                                               *)
JamAnswered ==
  (<>[](cmd = "fire") /\ <>[]jammed) => []<>(shooterState = "STUCK")
=============================================================================
