# TLA+ models and proofs for Meta-Embedded

Meta-Embedded is the firmware of a team's RoboMaster robots: C++ on ChibiOS/RT,
one STM32 per robot. These modules specify the parts of it that decide whether
a robot moves, shoots and stops as it is told, under every order in which its
threads can come. TLC checks them on small instances; TLAPS proves the most
important results for all values of the constants. The vehicle modelled is the infantry
robot, the one all other vehicles were derived from; the gimbal is modelled for
all of them, and the chassis of the sentry, which is its own, beside it.

To repeat a check: `tlc -config ShootLG.cfg MCShootLG.tla`, with any other pair from
the table of runs (`Infantry.tla` where there is no MC module). To repeat a proof:
`tlapm ShooterProofs.tla`.

Contents: [1 the system](#1-the-system), [2 modules](#2-modules),
[3 runs](#3-runs-and-what-they-show), [4 fairness](#4-fairness),
[5 proofs](#5-proofs), [6 what does not hold](#6-what-does-not-hold),
[7 what is left out](#7-what-is-left-out), [8 plan](#8-plan).

## 1 The system

### Threads

Everything runs on one core, preemptively, with a distinct static priority per
thread (`src/dev/application/vehicles/infantry/thread_priorities.h`). A thread
executes only while all threads above it are blocked, and may be preempted by
them between any two instructions unless it holds `chSysLock()`. Highest first:

| thread | period | does |
|---|---|---|
| CAN1_RX, CAN2_RX | event | give each received frame to the callbacks |
| GIMBAL_SKD | 1 ms | gimbal targets to the motor controller |
| CHASSIS_SKD | 5 ms | chassis targets to the motor controller |
| SHOOT_SKD | 2 ms | shooter targets to the motor controller |
| AHRS | event | attitude |
| MOTOR_SKD | 8 ms | motor targets to currents |
| FEEDBACK | 20 ms | prints feedback while parameters are tuned |
| CHASSIS_LG | 2 ms | chassis motion controller |
| GIMBAL_LG_VISION | event | auto-aim, not enabled |
| USER | 7 ms | switches and keys to modes and targets |
| USER_ACTION | event | keys pressed |
| main | | start-up |
| SUPERCAP_INIT | once | initial power of the capacitor |
| REFEREE_SKD, VISION_SKD | event | send to the referee system and the vision computer |
| INSPECTOR | 20 ms | looks for failures |
| STUCK_DETECT | 10 ms, 500 ms, 1 s | turns back a jammed bullet loader |
| BULLET_COUNTER, SHOOT_LG_VISION | event | counts supplies; auto-fire |
| SHELL, BUZZER | | text; music |

The order matters throughout. The threads that *decide* (User, User action,
inspector, stuck detector) are below those that *act* (schedulers, motor
controller), and those are below the ones that *measure*. So every decision,
which the code writes variable by variable and nearly always without a lock, can
be observed half done by whoever acts on it. The other way round a lower thread
always sees a higher one asleep. `FixedPriority.tla` is this rule, as the guard
`MayRun`, and every module with several threads below each other uses it.

### Components

| component | state | operations | talks to | what is hard | what makes it correct |
|---|---|---|---|---|---|
| **ShootLG** shooting logic and stuck detector | state STOP/SHOOTING/STUCK, bullets asked for and left | `shoot` `stop` `force_stop`, detector thread | called by User; writes ShootSKD; reads CAN feedback | detector sleeps 1 s in the middle of a reversal and then writes; hand-made suspend and wake-up | a stop wins, no wake-up is lost, a jam is answered |
| **ShootSKD** and motor controller | mode, targets, enable flags, output currents | `set_mode`, setters; two periodic threads | written by ShootLG, writes motor outputs | mode and four flags written one by one under two higher threads, one of which writes the flags too | flags agree with the mode; relaxed motors stay without current |
| **CANMotorFeedback** | last raw position, angle, rounds | `process_feedback` `accumulate_angle` `reset_accumulate_angle` | CAN thread writes, everybody reads | unlocked reads and resets of two fields; wrap-around; lost frames | an odometer |
| **User threads** of the infantry | none of their own but what they set | a section each for gimbal, shooter, chassis, screen; a handler per key | read remote and inspector; call the logics | two threads set the mode of the chassis; each section asks the inspector anew | a failure relaxes everything; a driver in control is not left with dead wheels |
| **ChassisLG, MecanumChassisSKD** | logic mode, scheduler mode, targets, flags | `set_mode` `set_target`, motion controller, scheduler | called by both user threads | `set_mode` is not atomic and tests a shared variable it has just written | as above |
| **Remote** | fields of the last frame, `synchronizing` | UART callback, `uart_synchronize` | UART driver, inspector, User | frames without a mark where they begin; the callback and the inspector share the driver | always armed outside of synchronisation; comes back |
| **Inspector** | a failure flag each for remote, gimbal, chassis | a loop of checks | Remote, motors, Buzzer; read by User | looks at the data twice; does nothing else while it resynchronises | losses are noticed, recovery is noticed, no frame is dropped silently |
| **Buzzer** | song, place in it, alert flag, state of the PWM driver | `play_sound` `alert_on` `alert_off`, thread | called by the inspector and main | lowest priority: preempted between any two steps by callers that use the same driver | the alert sounds; the song goes on after it |
| **RefereeUI** | lists of labels and shapes, to be sent or not | `reset`, `add_*`, `revise_*`, `remove_all`, sending thread | User, User action, main; referee system | two resets at once, each with waits of a second; no answer ever comes | arrays hold; screen agrees with lists |
| **CANInterface, CANMotorIF** | list of callbacks, which motors are mapped | `register_callback`, receiving thread, `init` | CAN driver, everyone with a motor | an interrupt that masks itself; registration under a running receiver | no frame forgotten; each to one callback |
| **GimbalSKD, GimbalLG** | mode, feedback source, accumulated yaw, targets | `set_mode` `set_target`, thread, the keys Q and E | User, User action, AHRS, motors | mode, feedback source and flags written one by one under two higher threads; the yaw is unwrapped only in one mode | never driven by the wrong feedback; the yaw means the same direction for ever; it comes to point where it is told |
| **Referee** (reception) and bullet counter | status of the receiver, the last packet of each kind, flags of events | UART callback, counting thread | referee system; events to the counter and the logics | bytes lost and altered; no mark where a packet begins; an event is sent although the checksum failed | finds the next packet again; counts a supply once |
| **SDCard** | header and blocks, on the card and in RAM | `init` `read_all` `get_data` `write_data` `erase` | start-up, calibration | header written before the block; failing writes; power cuts | what was reported as stored is there after the next start |
| **SChassisLG, SChassisSKD** of the sentry | order, destination, mode, targets, flags, the braking loop | `set_mode` `set_target`, two threads, the rail | sentry's User | the braking loop sleeps, and looks at the wheels and not at the mode | brakes before it lets go; obeys the last order |
| Capacitor | voltage, power | CAN callback, `send` | chassis | two senders | |
| AHRS, IMU, PID, filters, vision, shell, LED, OLED, lidar, USB, button, parameter adjustment, tests, other vehicles, ChibiOS | | | | | see section 7 |

All but the last two rows are modelled. `PROJECT.json` lists every component with its
sources and every hazard with its line.

## 2 Modules

One module per component; an `MC...` module where the instance needs values a
`.cfg` cannot write. The theorems are in `...Proofs` modules, of one component or of
two; where two share one, names of one component carry a prefix (`SKDSpec`, `CANSpec`,
`UISpec`, `BuzzerSpec`).

    FixedPriority          the scheduler's rule
      ShootLG              MCShootLG        ShooterProofs
      Infantry                              InfantryProofs
      CANInterface         MCCANInterface   MotorProofs
    ShootSKD                                ShooterProofs
    Odometer  (abstract)
      MotorFeedback                         MotorProofs
    Remote
      Inspector  (composes Remote)          InspectorProofs
    Buzzer                 MCBuzzer         InspectorProofs
    RefereeUI              MCRefereeUI      RefereeProofs
    Referee                                 RefereeProofs
    SDCard                 MCSDCard         SDCardProofs
    Gimbal                                  GimbalProofs
    SentryChassis                           SentryChassisProofs

Conventions: variables carry the source's names in TLA+ form. A program counter
has one label per write that somebody above can observe; what happens in a
locked section, or touches nothing shared, is one step. Time is not modelled: a
sleeping thread may wake at any moment. Where a timing bound has to exclude
something (a user period within two instructions of a lower thread), the guard
that does it has a comment that begins "The bound". Operators marked "mutant of"
are the component with a plausible mistake in it; no specification uses them.
Each exists to see that a property of section 3 notices the mistake.

**ShootLG** (`shoot_logic.cpp`, shooter section of `user_infantry.cpp`).
`UserCycle` is the shooter section up to its call; `Shoot` ... `ShootWake`,
`ForceStop`, `StopCount` ... `StopAim` are the calls write by write; `Park` ...
`Nap` is the detector thread, with `Sleeping` the labels at which it is asleep
or suspended. `LoaderMoves` is the CAN thread, `SupplyBullets` the bullet
counter, `Operate` and `Jam` the world. Waking a thread that is not suspended
puts it in the ready list twice; the model halts (`"corrupt"`).

**ShootSKD** (`shoot_scheduler.cpp`, `can_motor_controller.cpp`). `SetMode`,
`EnableA2V` and `EnableV2I` are `set_mode()` write by write, the other `Set`
actions the setters, `Limited` and `Relax` the scheduler thread, `MotorSKD` the
controller of the three shooter motors. A current is represented by the speed
it regulates. The controller keeps its own copy of the speed limit
(`controllerSpeed`), because the code constructs it from a copy.

**Odometer, MotorFeedback** (`can_motor_feedback.cpp`). The detailed module
has the encoder, `Unwrap`, `Crop`, and reads and resets as two accesses that a
frame may divide. `Odometer` is what the component promises; `shaft <- seen` and
`count <- angle + rounds * Turn` map one to the other. The real encoder has 8192
positions, the real ratios are 1, 3591/187 and 36.

**Infantry** (`user_infantry.cpp`, `chassis_logic.cpp`,
`mecanum_chassis_scheduler.cpp`). `Wake`, `GimbalSection`, `ShootSection`,
`ChassisSection`, `SetTarget` and `UISection` are UserThread; `KeyPress`,
`HandleKey`, `KeyDone` are UserActionThread; `WriteLG` ... `Zero` is
`ChassisLG::set_mode()`, run by either of them (`at[t]`). `Test` reads either the
value just written or the variable again, as the compiler may choose, since it is
neither atomic nor volatile. `MotionController`, `ChassisSKD`, `MotorSKD` are the
three threads above.

**Remote, Inspector** (`remote_interpreter.cpp`, `inspector_infantry.cpp`). A
frame is good or bad, the receiver in step or not; `FrameEnds` and `FramePieced`
are the callback, `Enter` ... `Leave` are `uart_synchronize()`. `Inspector` adds
the loop around it and the checks. In `Infantry` all of it is one variable,
`failure`, which only changes while UserThread sleeps: that is justified by the
priorities, and `OneVerdict` breaks without it.

**Buzzer** (`buzzer_scheduler.cpp`, `buzzer_interface.cpp`). The thread has the
lowest priority, so its callers are one step each, and the thread has a label for
every load and store they can come between, down to `current_pointer++` (`TimeUp`,
`Advance`) and the call of the clock before it (`CLOCK`). The PWM driver halts the
system when it is used while stopped (`halted`).

**RefereeUI** (`referee_UI_logic.cpp`, `referee_UI_update_scheduler.cpp`).
`Resetters` draw the `Script` anew, testing for room (`Test`) before they take the
mutex (`Add`); `Fetch` and `Revise` are the measured value; `SendDeletion`,
`SendLabel`, `SendShapes` the sending thread. `screen` is at the other end and
sees nothing before the robot's number is known (`known`). `lost` is a history
variable: something was sent before that. `add_line()` fills a copy of the array
element, so `Add` lists a line with whatever its element held before.

**CANInterface** (`can_interface.cpp`, `can_motor_interface.cpp`, the receive
path of ChibiOS's CAN driver and events). `Arrive` and `Interrupt` are the
hardware, `Register` ... `Dispatch` the receiving thread, `Prepare`, `Take`, `Fill`
are `main()`: a motor is mapped and its feedback initialised, then each field of
consecutive identifiers takes an entry of the list, whose count is stored before
its content.

**Referee** (`referee_interface.cpp`, BulletCounterThread in `shoot_logic.cpp`).
A packet is a start byte, the rest of a header, and the rest; `Byte` is one byte
of it on the line, and what becomes of it is its `fate`. `Start`, `Header` and
`Packet` are the three cases of `uart_rx_callback()`, `Fill` the driver between two
callbacks. A packet that is `odd` holds a 0xA5 or bytes whose 8-bit checksum
happens to be right. The header's checksum can be wrong about any bytes, and the length
in them may then be any of 16 bits (`Claims`); the callback passes it to the driver
unread, also when it is more than `pak` holds behind the header (`Room`; 115 bytes in
the code). The 16-bit checksum is taken to be right about all bytes. What the driver
overwrites behind `pak` is not modelled. `TakeFlags` and `Count` are the thread,
`owed` is a history variable: bullets that fell less those it counted.

**SDCard** (`sd_card_interface.cpp`). `header` and `sector` are the card, `sd_info`
and `blk` the copy in RAM. `Begin`, `HeaderWritten` and `BlockWritten` are
`write_data()` from sector to sector; a write that fails, or that a power cut ends,
leaves what the sector held, what was written, or what no checksum accepts
(`Remains`). `loaded`, `read` and `sound` are history variables: whether a read
succeeded and no operation has failed since; whether one succeeded and no read has
failed since, a write perhaps; and whether each write since the last `erase()` began
when the first was so. The callers (`ca_ahrs.cpp`, the vehicles' `main()`) do not
look at what `read_all()` returned; a write on top of a failed read starts at block
1 again, and the properties do not speak of it. That nothing enforces
`MAX_BLOCK_COUNT` is the bound `MaxBlocks`.

**Gimbal** (`gimbal_scheduler.cpp`, `gimbal_logic.cpp`, gimbal section of the
users). The yaw, in quarter turns. `Writes` are the writes of a user's cycle in
their order, `Sample`, `Encoder` and `Relaxed` the scheduler thread in each mode,
`Motor` the controller, `Press`, `Store` and `SetTarget` the thread of the keys Q
and E. `since` is how far the gimbal has turned since the scheduler looked, so
that `feedback + since` is what the feedback ought to be. The unwrapping is exact
while relaxed, too, up to whole turns: this is what `YawKept` says.

**SentryChassis** (`sentry_chassis_logic.cpp`, `sentry_chassis_scheduler.cpp`).
`User` and `Write` are a cycle of the user, write by write, in the order in which
a chained assignment writes; `Turn` and `HandOn` are SChassisLG's thread,
`CopyTargets`, `Brake` and `Cut` SChassisSKD's, with `braking` while it is in the
loop that waits for the wheels. `Approach`, `Settle` and `Slide` are the rail.

## 3 Runs and what they show

Twelve runs, all of which pass. Every invariant and every action property in the
table is a theorem as well (section 5); what no theorem states is what needs
fairness. The other way round, some theorems are in no run: the type invariants,
that the angle stays within half a turn, that frames are dropped only under a
reported failure, that a motor's callback sees frames of initialised motors only.

| run | instance | properties |
|---|---|---|
| `shoot_logic` | ShootLG.cfg | NoLostWakeup WakesOnlySuspended StopWins JamAnswered |
| `shoot_skd` | ShootSKD.cfg | FlagsAgreeWithMode LoaderStaysFree RelaxReleasesLoader WheelsComeToRest TargetsReachMotors |
| `motor_feedback` | MotorFeedback.cfg | ImplementsOdometer ReadOffByTurns |
| `infantry` | Infantry.cfg | OneVerdict NeverStranded FailureReleases CommandReachesWheels |
| `inspector` | Inspector.cfg | ReceiverArmed LossNoticed Recovers AlertFollows |
| `buzzer` | Buzzer.cfg | InSong Awoken SongEnds |
| `referee_ui` | RefereeUI.cfg | Fits SentIsShown NoGhosts ScreenFollows |
| `can` | CANInterface.cfg | NoneForgotten EachOnce |
| `referee` | Referee.cfg | Accounted Resync |
| `sd_card` | SDCard.cfg | Durable Coherent |
| `gimbal` | Gimbal.cfg | InForce NeverByEncoder YawKept ComesRound |
| `sentry_chassis` | SentryChassis.cfg | BrakesFirst RelaxCuts ManualFollows Shuttles |

**shoot_logic.** The detector suspends itself by hand and `shoot()` wakes it by
hand. The run shows that after `shoot()` nobody shoots unwatched (`NoLostWakeup`)
and that past start-up no thread is woken that is not suspended. A stop *can* be
undone by a reversal in progress (section 6), but not for ever: once nobody fires
any more the shooter ends in STOP, aimed at 0, the detector suspended
(`StopWins`). `JamAnswered`: a jam under a pressed trigger is turned back again
and again. *Bounds*: one bullet is one unit, so angles -1, 0 and 1 have the loader
short of, at and past its target, and the reversal target distinct from both; one
count of the threshold (the real one is 100) separates below, at and above it; one
bullet asked for. `Vision` is TRUE, which adds the one command a build with vision
has; `TriggerAtBoot` is FALSE, and section 6 shows what is excluded by it. The
count of bullets left decides nothing that a property here looks at, so it is kept
within -1..1.

**shoot_skd.** The ShootSKD thread clears flags that a preempted `set_mode()` is
about to set, and the motor thread drives whatever is enabled. Nevertheless the
flags end up right, a released loader is never powered again by any order of the
two threads, wheels that have run down are cut, and a target that stays set is
what the motors regulate to. *Bounds*: two loader targets and two wheel speeds are
what a stale value needs to be told from a new one; the wheels differ only by the
sign, which is kept.

**motor_feedback.** Encoder 6 and Turn 9, a ratio of 1.5: no turn of the rotor
falls together with one of the shaft, movements of one and two units in either
direction, wraps in both directions, the exact half turn in reach. The rotor is
bounded by 9 units from its zero, so that the shaft turns by half in both
directions and, after resets, by more. `Rotate` keeps the rotor within half a
turn since the last frame: at 1 kHz and at most 9000 rpm it takes more than 6 ms
for one turn, so several frames in a row may be lost.

**infantry.** UserActionThread may be preempted between any two writes of
`set_mode()` by UserThread calling the same function, and both by the motor
threads. `OneVerdict`: a cycle never relaxes the gimbal and drives the chassis.
`NeverStranded`: by PC the mode is only set when the logic mode is relaxed, so a
relaxed scheduler under another logic mode would leave a driver without wheels; it
does not arise. `FailureReleases` includes a failure that comes while a key is
being handled. *Bounds*: one wheel in the listed run; the wheels differ only in
the order in which they are written, and `InfantryWheels.cfg` (two wheels, about
two minutes) passes the same properties. Velocities 0 and 1 tell an old target
from a new one. `overtaken` bounds UserThread to one cycle within one
`set_mode()` of the thread below it, 7 ms against a few dozen instructions.

**inspector.** The remote is switched off and on at any time, in the middle of a
frame too, and the receiver starts in or out of step. No interleaving leaves the
UART unarmed outside of `uart_synchronize()`; frames are only dropped while a
failure is reported; a lasting loss is reported for good and a recovered robot
drives again. There is no bound but the small state itself and two guards:
`FrameEnds` not between the last two instructions of `uart_synchronize()` (a
frame takes 2 ms), `Outdated` not while frames come.

**buzzer.** Two songs, one that ends and one that repeats, each with notes and a
rest; two calls of `play_sound()`, so that one can interrupt another at every
step; alerts without a bound. `SongEnds` leaves out behaviours in which the
driver's assertion has halted the robot, and the run does not check deadlock for
that reason.

**referee_ui.** Two threads reset at once, three resets in all (so that one
overlaps with two others), two threads' worth of room, one label (the gauge), one
line and one circle, one graphic per message so that a batch is divided.
`SentIsShown` and `NoGhosts` relate the lists to a screen that never answers.

**can.** Motors 1, 3, 4, 11: two fields of one motor at either end of the
range, one of two, gaps of one and of many; 2 is a motor that is on the bus and in
no profile; 17 is another device. The FIFO holds the 3 frames of the controller,
so overruns occur. 20 is the real capacity of the list.

**referee.** `Resync`: when the line stays good, the receiver is in step from some
moment on, whatever state the faults before left it in and whatever length a false
header promised, as long as that is no more than `pak` holds: the property assumes
`InBuffer`, which the code does not ensure (section 6). `Accounted`: on a line that
was always good, the bullets that fell are counted but for those the thread is about
to count; so the several steps a supply is reported in, and the other packets
between them, neither add nor lose one. Faults break that (section 6). *Bounds*: the
header has its real length, so that a false one may end in the next packet; packets
of two lengths, 10 and 14 bytes with their header. A false header may promise less
than the shortest packet, as much as either, 20 bytes, which swallow a whole packet
with parts of those beside it, or 26, more than the room of 24. `Prompt` has the
thread done before the next packet is: it runs for microseconds, a packet takes a
millisecond. With `Prompt` FALSE `Accounted` is violated, as flags of two packets
add up and the thread looks at the last supply only.

**sd_card.** Writes, rewrites, erasures and reads in any order, any of which may
fail, and power cuts at any step. `Durable`: a value whose write was reported as
successful is what the next start reads, through everything that fails later; so a
block that is counted before it is written never hides a finished one. `Coherent`
relates RAM and card. After a read that succeeded, and as long as no operation has
failed, `get_data()` answers for every identifier what the card holds. Once a write has
failed the two differ; what was reported as stored is still answered, and the failed
write has displaced nobody's block. What the failed write was about is answered from
RAM, though the card has not got it: section 6. All of it as long as no write was
begun after a failure before a read or an erasure succeeded (`sound`). *Bounds*: two
identifiers, two values, three blocks (a repeated identifier needs two, the third
is a block counted and never written); symmetry in identifiers and values.

**gimbal.** For a vehicle with an AHRS and one without. The motor thread may run
between any two writes of `set_mode()`; a gimbal with an AHRS is nevertheless never
driven by the encoder (`NeverByEncoder`), and between cycles flags, feedback and
mode fit together (`InForce`). `ComesRound` follows the target through three
threads to where the gimbal points. *Bounds*: a quarter turn, so that one turn has
positions on both sides of the wrap and the unwrapping threshold is exceeded by
one movement only; targets within one quarter of 0, movements by hand up to three
quarters either way, hence past the wrap.

**sentry_chassis.** The user relaxes, goes manual or automatic at any time, also
while the scheduler is in its braking loop. The wheels lose their current only when
one of them was slow (`BrakesFirst`); whichever order lasts is what the chassis
ends up doing. `BrakesFirst` rests on an order nobody wrote down: a chained
assignment enables the right wheel before the left, and whether to brake is
decided by the left one. *Bounds*: standing and one speed; the rail has two places, its ends.

## 4 Fairness

Safety properties are checked and proved without any. For liveness:

- *Periodic threads* (`WF`): User, the schedulers, the motor controllers, the
  motion controller, the inspector, the sending thread. They sleep for a constant
  time in an endless loop, and the processor has time left for them; nothing
  waits without bound while holding a lock.
- *Threads that are preempted again and again* (`SF`): the stuck detector and
  UserActionThread are enabled only while UserThread sleeps. It sleeps 7 ms in
  every cycle, far longer than they need for a step.
- *Timing facts* are stated as strong fairness of a step under a condition. In
  ShootLG: a detector that keeps napping 10 ms sees a user cycle, every 7 ms,
  within its nap. In Remote: gaps are longer than 5 ms, so a synchronisation that
  keeps trying gets to time out in one; the 10 ms the inspector sleeps afterwards
  contain a whole frame. In Inspector: a good frame does not come between its two
  looks at the data every single time. In Buzzer: time passes between looks at the
  clock. In Referee: packets vary, so a receiver that is out of step is not for
  ever given packets that each hold a 0xA5 which passes for a header. In
  SentryChassis: SChassisLG's thread finds the user asleep again and again, and its
  sleep is far longer than the cycle.
- *The world*: bytes and packets keep coming (Referee); a gimbal that is driven
  moves, by no more than a quarter in a millisecond and without overshooting
  (Gimbal); a chassis that is sent arrives, and a wheel regulated at zero comes to
  rest (SentryChassis). Without these the properties would be about motors.
- *Not fair*: the operator, jams, failures, frames that may be lost, bytes
  that are lost or altered, movements by hand, alerts, resets,
  and the moment at which the referee system first speaks. Properties
  speak of what follows if they stay as they are.

Sizes, for a reader who changes a bound (distinct states): shoot_logic 112
thousand, shoot_skd 367 thousand, motor_feedback 1.5 million, infantry 219
thousand, inspector 12 thousand, buzzer 3 thousand, referee_ui 217 thousand, can
535 thousand, referee 168 thousand, sd_card 2.7 million, gimbal 573 thousand,
sentry_chassis 264 thousand; none takes much more than a minute.

## 5 Proofs

What TLAPS proves, for all values of the constants that satisfy the named
assumptions of the module, without bounds other than those in the guards and
without fairness:

| module | theorem | says |
|---|---|---|
| ShooterProofs | Typing, NoWakeupLost, WakesSuspended | no shooter without a watching detector, no thread woken that is not suspended, for every threshold, angle and set of requests |
| | SKDTyping, FlagsAgree, LoaderFree | flags agree with the mode after `set_mode()`; a released loader is not powered again |
| MotorProofs | Cropped, Refinement, ReadsOffByTurns | the angle stays within half a turn; the feedback implements `Odometer`; a read that a frame divides is off by a turn or not at all: for every encoder resolution and every ratio of at least 1 |
| | CANTyping, Remembered, Once, Known | no frame without an interrupt, an event or a thread that will see to it; no frame to two callbacks; only frames of initialised motors to theirs, for every set of motors and every depth of the FIFO |
| | ReachesOne | each frame of a motor or the device reaches exactly one callback once `main()` is through, if the list has room (`Roomy`) |
| InfantryProofs | Typing, Unstranded, Verdict | a driver in control is not stranded; one verdict per cycle, for every number of wheels |
| InspectorProofs | Typing, Armed, Shield | the UART is armed outside of `uart_synchronize()`; frames are dropped only under a reported failure |
| | NeverOversleeps, BuzzerTyping, StaysInSong | the music thread sleeps only during an alert whose end will wake it, for all songs; its pointer stays in the song, if the rows fit (`RowsFit`) |
| RefereeProofs | Typing, NeverOutOfStep, WithinBuffer, Counted | on a good line the receiver is never out of step, whatever the packets hold, and the driver never asked for more than `pak` holds; bullets are counted once (assuming `Prompt`), for every length of header and packets |
| | UITyping, NeverOverrun, SentLabelsShow, NothingOutlivesItsList | the arrays of the screen hold, what was sent is shown, what is shown is listed or about to be deleted, for every script, number of resetters and size of a batch |
| SDCardProofs | Typing, Kept, Agreement | what was reported as stored is on the card, through failures and power cuts; after a successful read `get_data()` answers what the card holds until a write fails, and what was reported as stored even then: for every number of blocks, identifiers and values |
| GimbalProofs | Typing, DrivenAsTheModeHasIt, EncoderNeverDrives, YawNeverSlips | the gimbal is driven as its mode has it and by no other feedback; its yaw means the same direction for ever: for all steps of the target and all bounds on movement |
| SentryChassisProofs | Typing, LeftFlagTells, BrakedBeforeLetGo | no wheel loses its current while both are fast, for every set of velocities and every rail |

Hypotheses, other than the assumptions on constants that each module states and TLC
evaluates:

- `Roomy`: the list has room for all fields and the device. `ListIsLongEnough`
  derives it from `Capacity > LastSID`; the code has 20 entries and 11
  identifiers (`can_interface.h:93`).
- `RowsFit`: a song that loops goes back to a note of itself, and of every other song,
  since `play_sound()` may replace the song between the look at the loop and the
  step back. `OneSongFits` derives it for a robot that plays one song and
  whose song ends, or loops within itself; every vehicle calls `play_sound()` once, with
  a song that ends. With all songs of `buzzer_scheduler.h` at hand, as in the
  unit test of the buzzer, it does not hold: `sound_nyan_cat` goes back to row 26,
  and `sound_infinity_warning` to row 0 (section 6).
- `Prompt` (Counted), `QuietBoot` (Remembered): constants, see sections 3 and 6. The
  theorems say nothing of the instances that have them FALSE.

Most of these properties are not inductive. The strengthenings, and why
they are what they are:

- *ShootLG* (`IInv`). `started` is false only before the first suspension and
  during one (`StartedInv`); STUCK is left before the loop goes round
  (`StateInv`); if the detector is not started under a state other than STOP,
  `shoot()` is on its way to the wake-up (`WatchInv`). The last one rests on the
  detector's test and suspension being in one locked section, and on `shoot()`
  setting the state before it looks at `started`.
- *ShootSKD* (`FlagsProgress`). Each flag agrees from the write that sets it; the
  scheduler thread clears flags only in a mode in which they may be clear.
- *MotorFeedback* (`IInv`). The raw positions differ by what the rotor turned, up
  to one turn of the encoder (`InStep`). Three lemmas do the arithmetic:
  `UnwrapExact`, `CropExact` (one crop is enough) and `FrameExact`. The
  refinement has a step per action; a reset needs in addition that at most one
  frame fell into it (`ResetProgress`), a bound that `Hit` states; a divided read
  likewise (`ReadProgress`). Rounding of floats is left out of the model.
- *Infantry* (`Owned`, `RelaxProgress`, `VerdictHeld`). A relaxed scheduler
  under another logic mode is one write from being mended, by the thread that is
  in `set_mode()`. For the verdict: the inspector runs only while UserThread
  sleeps, UserThread cannot be overtaken by the other caller, and an output that
  is off stays off because the motor controller leaves disabled motors alone; so
  the wheels already disabled and cleared grow with `wheel`.
- *Inspector* (`Progress`, `Caller`). What the driver is armed for follows from
  how far `uart_synchronize()` has come, and it is called in one place only.
- *Buzzer* (`PointerKept`). The pointer is on a note, not the end, whenever there is a
  song; the place computed for it may be stale once `play_sound()` has come, but is
  still one of a song. `Awoken` is inductive as it stands.
- *CANInterface*. `Listening`: nothing is received before the thread listens, and
  the interrupt is masked only while the FIFO holds something. This needs
  `QuietBoot` (section 6). `Entries`: an entry of the list is a field or the
  device, no longer to be done, or a blank that `main()` is about to fill, and no
  two are equal; with the lemma that maximal runs of identifiers are equal or
  disjoint, no frame has two. `Prepared`: fields are taken after the last motor
  is initialised. `Covered`: what is no longer to be done is in the list; that
  the list is never full is a count of the fields, of which there are no more than
  identifiers, as each has a least one of its own (`FieldsAreFew`).
- *RefereeUI*. `RoomKept`: the entries in use and those that the resets under way may
  still add (`Owed`) fit together; each `Add` turns one of the latter into one of the
  former, and a reset that starts empties the lists and owes no more than its own share
  of the arrays (`SizeAssumption`). `LabelsShown`: a label that was sent once is only
  modified from then on, and is on the screen unless it is to be deleted; while a
  deletion waits, none of the new labels has been sent. `NoGhosts` needs only types
  and `Fits`.
- *Referee* (`InOrder`, `OneEvent`). On an untouched line the receiver's state and
  what it still needs are a function of the place in the packet, the buffer is intact,
  and the data is waited for only behind the header, so that its length is that of the
  packet. For the count: at most one event is between the callback and the thread.
  `Counted` assumes `Prompt`, without which it does not hold.
- *SDCard* (`Mirror`, `Progress`, `Stored`, `Held`). RAM mirrors the card below the count,
  but for the block or header that `op` says is being written; a finished value has
  a first block with its identifier, and no write under way is of an earlier one
  unless it is of that identifier. `get_data()` takes the first block that matches:
  that there is one is the well-foundedness of the natural numbers (`Least`). `Held` is
  the same of RAM after a failed write, when `Mirror` is gone: the first block with the
  identifier of a finished value has that value.
- *Gimbal* (`FlagsFollow`). The flags are a function of the order and of how many of its
  writes the cycle has `Made`: what a write has set agrees with the mode from then on,
  and what is not yet written is as the last cycle left it. The threads between the
  writes change only what the mode already lets them change. `Directed` has the
  yaw: modulo a turn, the feedback with what came since is where the gimbal points,
  and the feedback is what the AHRS said last; so a movement that is unwrapped wrongly
  is wrong by whole turns (`Measured`). `Ranges`: the keys move the target only while
  the user's cycle is not under way.
- *SentryChassis* (`Cycle`, `LeftTells`). The loop that brakes looks at one flag. That is
  enough because while a wheel is enabled or has a current, that flag is set or
  still to come in this cycle, and a cycle in which it is to come is not one that
  relaxes.

Finding a proof changed two definitions. `Motor` of the gimbal chose among
cases whose guards overlapped, of which TLC takes the first and TLA+ any one; it is an
IF now, in the order of the code. `Rewind` of the buzzer took the row from another
song than the one whose end the thread had read.

Only model-checked: everything under fairness (StopWins, JamAnswered,
RelaxReleasesLoader, WheelsComeToRest, TargetsReachMotors, FailureReleases,
CommandReachesWheels, LossNoticed, Recovers, AlertFollows, SongEnds,
ScreenFollows, Resync, ComesRound, RelaxCuts, ManualFollows, Shuttles), which is
out of the prover's reach.

## 6 What does not hold

Each configuration named here ends in a counterexample; TLC prints the trace. In
the first four a comment or document says what the code does not do.

- **A stop can be undone** (ShootLGStopUndone.cfg, `StopIsFinal`).
  `shoot_logic.h:121-128` documents `stop()` as "Stop shooting." and `force_stop()`
  as "Stop shooting immediately." A detector that is turning the loader back sleeps
  one second and then restores target and SHOOTING, whatever happened meanwhile:
  after a stop the loader turns to the old target again. The next cycle of
  UserThread with the trigger released stops it again, hence `StopWins`.
- **Wheels at rest are driven** (ShootSKDWheels.cfg, `WheelsStayAtRest`).
  `shoot_logic.cpp:117` has `force_stop()` "stop all the shooter, including the
  friction wheel". Each call enables the wheels' speed controllers on the target
  they last had, until the ShootSKD thread cuts them again; in SAFE position that is
  every 7 ms.
- **A reset may leave a turn** (MotorFeedbackReset.cfg, `ResetIsZero`).
  `shoot_scheduler.h`: "Reset accumulated angle of bullet loader to 0". A frame
  between the two writes may crop the old angle and count a round. `Odometer` has
  this in `Clear`.
- **An alert may be silent** (BuzzerAlert.cfg, `AlertSounds`).
  `buzzer/README.md:30`: "Stop the playing music (if any) and start alerting." The
  thread may be past its look at `alerting_`, play its note over the alert's and only
  then go to sleep; the inspector calls `alert_on()` once per failure.

More that the models show:

| configuration | property | what happens |
|---|---|---|
| ShootLGMisaimed.cfg | AimedWhileShooting | a stop between the restored target and the restored state leaves SHOOTING aimed at 0; a trigger pressed again does not fire, since the state is not STOP |
| ShootLGBoot.cfg | WakeupPrecondition | the trigger held while the robot starts: `started` is false though the detector is ready, and `shoot()` inserts it in the ready list a second time |
| ShootLGBackwards.cfg | ShootsForward | heat above the limit makes the number of bullets negative, and the loader turns backwards |
| MotorFeedbackTorn.cfg | ReadIsAccumulated | an unlocked `accumulate_angle()` returns a value a whole turn off; `ReadOffByTurns` says no worse can happen |
| BuzzerDriver.cfg | DriverReady | an alert between `pwmStop()` and `buzzer_idle = true` uses the stopped driver, and the assertion halts the robot |
| BuzzerRow.cfg | InSong | a song that repeats from row 0, as `sound_infinity_warning` does, reads in front of the array |
| CANInterfaceBoot.cfg | NoneForgotten | a frame that is complete between the start of the driver and the thread's registration masks the interrupt and tells nobody: the bus stays deaf |
| RefereeAgain.cfg | CountedFell | a packet of a supply arrives damaged, its event is broadcast all the same, and the thread counts the supply before it a second time |
| RefereeLong.cfg | InBuffer | a byte is altered, the 8-bit checksum accepts what is no header, and the driver is told to receive as many bytes as its length says, past the end of `pak`; the length is not compared with anything (`referee_interface.cpp:194-196`). A length near 65535 exceeds the 16-bit counter of the DMA besides |
| SDCardFailed.cfg | ServedIsStored | a write whose header is on the card fails at its block: `available_blk` and `blk[]` have it in RAM, `write_data()` reports the failure, and `get_data()` answers the value, which the next start will not have |
| SDCardErased.cfg | ErasedStaysErased | after `erase()` a write counts a block and the power is cut before the block is written: the next start reads what the sector held before the erasure |
| SentryChassisStop.cfg | StopsFirst | the braking loop ends when one of the two wheels is slow, and the other is let go at speed |
| GimbalKeys.cfg | KeyCounts | Q or E adds to a target read before a whole cycle of the user: what the stick added meanwhile is lost |

The window of CANInterfaceBoot is a few instructions long and a controller that has
just started has not yet received anything, so `QuietBoot` is assumed elsewhere.

Seen while reading and built into the models, where they cannot contradict a
property: `add_line()` fills a copy, so lines are never drawn; a reset during
start-up, before the referee system has said which robot this is, counts as sent
and is lost; Ctrl + Shift + Z makes both user threads reset the screen at the
same time; overlapping resets list every graphic twice and a later value revises
only the first; `can_motor_interface.cpp:93` says fields are sorted from wide to
narrow and the comparison sorts them the other way; a song that repeats skips the
note it goes back to; a loader speed set after start-up stays in the table and
never reaches the controller's copy (`FeedSpeedTaken` in ShootSKD); a header of the
card that is torn by a power cut loses every block; Q and E are obeyed in the SAFE
position, too, and the gimbal turns as soon as that is left; a gimbal that becomes active
again may be driven for a millisecond on the yaw of before; the identifiers of the
operator's screen are set by the first packet on the state of the robot only;
`sentry_chassis_logic.h:15` says the chassis moves to "randomly picked positions" and
the code goes back and forth between the ends.

## 7 What is left out

*Of the modelled components.* ShootLG: VisionShootThread. Infantry: what the
sections compute as angles (the keys Q and E are in Gimbal). ChassisLG: the
rotation, the controller of the spin, CapacitorSetThread. Remote: the contents of a
frame but for being in range; key events are in Infantry. Inspector: the start-up
checks. RefereeUI: `remove_layer()`, `add_rect()`, `add_int()`, `add_float()`,
`revise_shape_loc()`, `revise_line()`, which no robot calls. CANInterface: sending,
which gives up after 1 ms; the error thread, which only logs; the copying of a
callback entry is one step. Gimbal: the pitch, whose flags follow those of the yaw
and whose feedback in CHASSIS_REF_MODE is, in the code, read from the yaw motor; the
vision mode; the rotation of the frame for the coordinated chassis. Referee: the
contents of every packet but those of a supply; what lies behind `pak` and is
overwritten by a packet that is too long; sending, which is in RefereeUI.
SentryChassis: while it brakes the scheduler sets the target velocity of every motor
of the robot to 0 (`sentry_chassis_scheduler.cpp:115-117`), not only of the two
wheels; what that does to the gimbal and the shooter of the sentry is not modelled.
SDCard: a second caller between the two writes of `write_data()`, which only the
program for calibration has.

Everywhere: real time other than through fairness and the named bounds;
floating point; the output of a PID controller, represented by what it regulates.

*Whole components.* Capacitor: its callback stores four numbers of one frame.
SUPERCAP_INIT asks for 55 W until the device reports that, and then suspends
itself for good; after three seconds without, or if `set_timeout`, which is never
initialised, happens to be true, it goes on asking, beside CapacitorSetThread with
other figures. Which of the two the device obeys is not in this code. Vision is
compiled out of every vehicle (`ENABLE_VISION` FALSE). AHRS, IMU, PID, Kalman
filters and trajectories are numerical. Shell, USB, LED, OLED, lidar and button
are output, or one variable written by one callback. The programs for parameter
adjustment and the unit tests run on a bench. The users and inspectors of hero and
sentry vary those of the infantry; aerial and engineer are no targets of the
build. ChibiOS and the DSP library are vendored: of ChibiOS the scheduler's rule
is a module of its own, and the CAN driver and the events are modelled as far as
`CANInterface` uses them.

## 8 Plan

Done, in this order: the shooter (ShootLG, ShootSKD), the feedback all motors
share (Odometer, MotorFeedback), who moves the robot (Infantry), what can take
that away (Remote, Inspector), how it tells (Buzzer), the operator's screen
(RefereeUI), the bus under it all (CANInterface), what is kept from one start to
the next (SDCard), the sentry's chassis (SentryChassis), where the gimbal points
(Gimbal), and what the referee system says (Referee).

What would come next, in this order:

1. **Composition** of ShootLG with ShootSKD: the property across both is that a
   lasting safe position leaves the loader without current, whatever the detector
   does. Each half is checked now: `StopWins`, which ends in a target of 0 and a
   detector that is suspended, and `RelaxReleasesLoader`.
2. **Proofs** of what is under the liveness properties and does not need fairness: that
   a reversal which outlives a stop is the only thing that undoes it (ShootLG), that a
   current once cut stays cut while the order to relax lasts (SentryChassis, ShootSKD),
   that a receiver once in step on a good line stays so (Referee).
3. **Capacitor**, if what the device does with two requests becomes known.
4. **A second caller of SDCard**: the shell beside the calibration program.
