--------------------------- MODULE SentryChassis ---------------------------
(***************************************************************************)
(* The chassis of the sentry, which runs on a rail.  The user thread sets  *)
(* the mode in every cycle, write by write: that of SChassisLG, that of    *)
(* SChassisSKD, and the enable flags of the two wheels.  SChassisLG's      *)
(* thread sends the chassis from one end of the rail to the other, or      *)
(* hands on the velocity of the stick.  SChassisSKD's thread copies        *)
(* targets into the motor controller, and brakes before it relaxes the     *)
(* wheels: a loop that sleeps, and looks at the wheels and not at the      *)
(* mode.  SChassisSKD and the motor controller preempt the user between    *)
(* any two writes; SChassisLG's thread has the lowest priority and runs    *)
(* only while the user sleeps.                                             *)
(***************************************************************************)
EXTENDS Integers, Sequences

CONSTANTS
  Velocities,  \* what the stick asks for
  Far,         \* the other end of the shuttle: 50000, in steps of the model
  NoCurrent    \* the output "zero current"

ASSUME SentryAssumption ==
  /\ Velocities \subseteq Int /\ 0 \in Velocities /\ Far \in Nat \ {0}

Wheels == {"LEFT", "RIGHT"}
Places == 0..Far

(* What the controller regulates a wheel at: a speed, or a place by way of *)
(* the angle loop.                                                         *)
Speed(v)  == <<"speed", v>>
Toward(p) == <<"place", p>>
Aims      == {Speed(v) : v \in Velocities} \cup {Toward(p) : p \in Places}

ASSUME NoCurrentAssumption == NoCurrent \notin Aims

Relax     == <<"RELAX", 0>>
Automatic == <<"AUTO", 0>>
Manual(v) == <<"MANUAL", v>>
Orders    == {Relax, Automatic} \cup {Manual(v) : v \in Velocities}

VARIABLES
  order,           \* SChassisLG::mode and, in MANUAL, SChassisLG::target_velocity
  todo,            \* flags the cycle has yet to write; << >> while the user sleeps
  destination,     \* SChassisLG::set_destination
  mode,            \* SChassisSKD::mode
  targetPosition,  \* SChassisSKD::target_position
  targetVelocity,  \* SChassisSKD::target_velocity
  braking,         \* its thread is in the loop that waits for the wheels
  enableA2V, enableV2I,  \* the enable flags
  targetA, targetV,      \* targets of the motor controller
  output,          \* what the output current regulates, or NoCurrent
  place,           \* present_position()
  slow             \* wheels measured within 5 of rest

user  == <<order, todo>>
skd   == <<mode, targetPosition, targetVelocity, braking>>
motor == <<enableA2V, enableV2I, targetA, targetV, output>>
plant == <<place, slow>>
vars  == <<user, destination, skd, motor, plant>>

Both(x) == [w \in Wheels |-> x]

Init ==
  /\ order = Relax /\ todo = << >>
  /\ destination = 0
  /\ mode = "RELAX" /\ targetPosition = 0 /\ targetVelocity = 0 /\ braking = FALSE
  /\ enableA2V = Both(FALSE) /\ enableV2I = Both(FALSE)
  /\ targetA = 0 /\ targetV = Both(Speed(0)) /\ output = Both(NoCurrent)
  /\ place \in Places /\ slow = Wheels

-----------------------------------------------------------------------------
(* The user.                                                               *)

FlagsLeftFirst(c) ==   \* mutant of Flags: in the order they are written down
  CASE c[1] = "RELAX"  -> <<<<"A2V", "LEFT">>, <<"A2V", "RIGHT">>>>
    [] c[1] = "MANUAL" -> <<<<"A2V", "LEFT">>, <<"A2V", "RIGHT">>,
                            <<"V2I", "LEFT">>, <<"V2I", "RIGHT">>>>
    [] c[1] = "AUTO"   -> <<<<"V2I", "LEFT">>, <<"V2I", "RIGHT">>,
                            <<"A2V", "LEFT">>, <<"A2V", "RIGHT">>>>

FlagsKeepAngle(c) ==   \* mutant of Flags: the manual mode leaves the angle loop alone
  CASE c[1] = "RELAX"  -> <<<<"A2V", "RIGHT">>, <<"A2V", "LEFT">>>>
    [] c[1] = "MANUAL" -> <<<<"V2I", "RIGHT">>, <<"V2I", "LEFT">>>>
    [] c[1] = "AUTO"   -> <<<<"V2I", "RIGHT">>, <<"V2I", "LEFT">>,
                            <<"A2V", "RIGHT">>, <<"A2V", "LEFT">>>>

(* A chained assignment writes its last operand first.                     *)
Flags(c) ==
  CASE c[1] = "RELAX"  -> <<<<"A2V", "RIGHT">>, <<"A2V", "LEFT">>>>
    [] c[1] = "MANUAL" -> <<<<"A2V", "RIGHT">>, <<"A2V", "LEFT">>,
                            <<"V2I", "RIGHT">>, <<"V2I", "LEFT">>>>
    [] c[1] = "AUTO"   -> <<<<"V2I", "RIGHT">>, <<"V2I", "LEFT">>,
                            <<"A2V", "RIGHT">>, <<"A2V", "LEFT">>>>

(* A cycle begins: what SChassisLG keeps is read only when the cycle is    *)
(* over, so that it is set with the mode of SChassisSKD.                   *)
User(c) ==
  /\ todo = << >>
  /\ order' = c
  /\ mode' = c[1]
  /\ todo' = Flags(c)
  /\ UNCHANGED <<destination, targetPosition, targetVelocity, braking, motor, plant>>

Write ==
  /\ todo # << >>
  /\ todo' = Tail(todo)
  /\ enableA2V' = [w \in Wheels |->
                     IF Head(todo) = <<"A2V", w>> THEN order = Automatic ELSE enableA2V[w]]
  /\ enableV2I' = [w \in Wheels |-> enableV2I[w] \/ Head(todo) = <<"V2I", w>>]
  /\ UNCHANGED <<order, destination, skd, targetA, targetV, output, plant>>

-----------------------------------------------------------------------------
(* SChassisLG's thread.                                                    *)

TurnUntold ==   \* mutant of Turn: the scheduler is not told
  /\ todo = << >> /\ order = Automatic
  /\ place = destination
  /\ destination' = Far - destination
  /\ UNCHANGED <<user, skd, motor, plant>>

Turn ==
  /\ todo = << >> /\ order = Automatic
  /\ place = destination
  /\ destination' = Far - destination
  /\ targetPosition' = destination'
  /\ UNCHANGED <<user, mode, targetVelocity, braking, motor, plant>>

HandOn ==
  /\ todo = << >> /\ order[1] = "MANUAL"
  /\ targetVelocity' = order[2]
  /\ UNCHANGED <<user, destination, mode, targetPosition, braking, motor, plant>>

-----------------------------------------------------------------------------
(* SChassisSKD's thread.                                                   *)

CopyTargets ==
  /\ ~braking
  /\ \/ mode = "AUTO" /\ targetA' = targetPosition /\ UNCHANGED targetV
     \/ mode = "MANUAL" /\ targetV' = Both(Speed(targetVelocity)) /\ UNCHANGED targetA
  /\ UNCHANGED <<user, destination, skd, enableA2V, enableV2I, output, plant>>

(* One round of the loop.  It sets the target of every motor of the robot, *)
(* gimbal and shooter too, to 0; the model has those of the wheels.        *)
Brake ==
  /\ \/ braking /\ UNCHANGED enableA2V
     \/ ~braking /\ mode = "RELAX" /\ enableV2I["LEFT"] /\ enableA2V' = Both(FALSE)
  /\ slow = {}
  /\ targetV' = Both(Speed(0))
  /\ braking' = TRUE
  /\ UNCHANGED <<user, destination, mode, targetPosition, targetVelocity,
                 enableV2I, targetA, output, plant>>

CutCurrentOnly ==   \* mutant of Cut: the velocity loop stays enabled
  /\ \/ braking /\ slow # {} /\ UNCHANGED enableA2V
     \/ /\ ~braking /\ mode = "RELAX" /\ (enableV2I["LEFT"] => slow # {})
        /\ enableA2V' = IF enableV2I["LEFT"] THEN Both(FALSE) ELSE enableA2V
  /\ output' = Both(NoCurrent)
  /\ braking' = FALSE
  /\ UNCHANGED <<user, destination, mode, targetPosition, targetVelocity,
                 enableV2I, targetA, targetV, plant>>

Cut ==
  /\ \/ braking /\ slow # {} /\ UNCHANGED enableA2V
     \/ /\ ~braking /\ mode = "RELAX" /\ (enableV2I["LEFT"] => slow # {})
        /\ enableA2V' = IF enableV2I["LEFT"] THEN Both(FALSE) ELSE enableA2V
  /\ enableV2I' = Both(FALSE)
  /\ output' = Both(NoCurrent)
  /\ braking' = FALSE
  /\ UNCHANGED <<user, destination, mode, targetPosition, targetVelocity,
                 targetA, targetV, plant>>

(* The motor controller thread.                                            *)
Motor ==
  /\ targetV' = [w \in Wheels |-> IF enableA2V[w] THEN Toward(targetA) ELSE targetV[w]]
  /\ output' = [w \in Wheels |-> IF enableV2I[w] THEN targetV'[w] ELSE output[w]]
  /\ UNCHANGED <<user, destination, skd, enableA2V, enableV2I, targetA, plant>>

-----------------------------------------------------------------------------
(* The rail.  A wheel comes to rest when it is regulated at zero, and the  *)
(* chassis where both are sent; else it moves anyhow.                      *)

Sent(p) == output = Both(Toward(p))
Held    == {w \in Wheels : output[w] = Speed(0) \/ Sent(place)}

Approach ==
  /\ \E p \in Places : Sent(p) /\ place # p /\ place' = IF p < place THEN place - 1 ELSE place + 1
  /\ slow' \in SUBSET Wheels
  /\ UNCHANGED <<user, destination, skd, motor>>

Settle ==
  /\ ~(Held \subseteq slow)
  /\ slow' = slow \cup Held
  /\ UNCHANGED <<user, destination, skd, motor, place>>

Slide ==
  /\ Held # Wheels /\ \A p \in Places : ~Sent(p)
  /\ place' \in {place - 1, place, place + 1} \cap Places
  /\ slow' \in {s \in SUBSET Wheels : slow \cap Held \subseteq s}
  /\ UNCHANGED <<user, destination, skd, motor>>

UserThread == Write \/ \E c \in Orders : User(c)
LGThread   == Turn \/ HandOn
SKDThread  == CopyTargets \/ Brake \/ Cut
Rail       == Approach \/ Settle

Next == UserThread \/ LGThread \/ SKDThread \/ Motor \/ Rail \/ Slide

Spec == Init /\ [][Next]_vars

(* Every thread sleeps and wakes.  SChassisLG's thread finds the user      *)
(* asleep again and again: its cycle takes far less than its sleep.        *)
FairSpec ==
  /\ Spec
  /\ WF_vars(UserThread) /\ WF_vars(SKDThread) /\ WF_vars(Motor) /\ SF_vars(LGThread)
  /\ WF_vars(Rail)

-----------------------------------------------------------------------------
TypeOK ==
  /\ order \in Orders
  /\ \E n \in 1..5 : todo = SubSeq(Flags(order), n, Len(Flags(order)))
  /\ targetVelocity \in Velocities
  /\ destination \in {0, Far} /\ targetPosition \in {0, Far} /\ targetA \in {0, Far}
  /\ mode \in {"RELAX", "AUTO", "MANUAL"} /\ braking \in BOOLEAN
  /\ enableA2V \in [Wheels -> BOOLEAN] /\ enableV2I \in [Wheels -> BOOLEAN]
  /\ targetV \in [Wheels -> Aims] /\ output \in [Wheels -> Aims \cup {NoCurrent}]
  /\ place \in Places /\ slow \subseteq Wheels

(* The chassis is braked before it is let go: no wheel that is driven      *)
(* loses its current while both are fast.  The thread looks at the flag of *)
(* the left wheel only, which is enabled last.                             *)
BrakesFirst ==
  [][(\E w \in Wheels : output[w] # NoCurrent /\ output'[w] = NoCurrent) => slow # {}]_vars

(* When the user asks for relaxation and keeps to it, the wheels are       *)
(* without current from some moment on.                                    *)
RelaxCuts == <>[](order = Relax) => <>[](output = Both(NoCurrent))

(* When the stick is held, both wheels run at its velocity from some       *)
(* moment on, even if the thread was still braking for an earlier order.   *)
ManualFollows ==
  \A v \in Velocities :
    <>[](order = Manual(v)) => <>[](output = Both(Speed(v)))

(* In the automatic mode the chassis visits both ends again and again.     *)
Shuttles ==
  <>[](order = Automatic) => []<>(place = 0) /\ []<>(place = Far)

(* Not so: the loop ends when one of the wheels is slow.                   *)
StopsFirst ==
  [][(\E w \in Wheels : output[w] # NoCurrent /\ output'[w] = NoCurrent) => slow = Wheels]_vars
=============================================================================
