---------------------------- MODULE MotorProofs -----------------------------
(***************************************************************************)
(* Theorems about the motors, from the bus to their angle, for every value *)
(* of the constants.                                                       *)
(*                                                                         *)
(* MotorFeedback implements an odometer, for every resolution of the       *)
(* encoder and every reduction ratio of at least one. The invariant behind *)
(* it: the last raw position and the rotor's differ by what the rotor      *)
(* turned since, up to one turn of the encoder.                            *)
(*                                                                         *)
(* CANInterface: that no frame is forgotten follows from the FIFO being    *)
(* empty before the thread listens (Listening); that none is dispatched    *)
(* twice, from the entries of the list being distinct fields (Entries),    *)
(* which do not overlap.                                                   *)
(***************************************************************************)
EXTENDS MotorFeedback, CANInterface, SequenceTheorems, FiniteSetTheorems,
        WellFoundedInduction, TLAPS

(* MotorFeedback.                                                          *)

Lag == shaft - seen

InStep ==
  /\ Within(2 * Lag, Encoder)
  /\ \/ rotor - lastRaw = Lag
     \/ rotor - lastRaw = Lag + Encoder
     \/ rotor - lastRaw = Lag - Encoder

(* Between the two writes of a reset at most one frame has come.           *)
ResetProgress ==
  /\ caller = "clear" => rounds = 0
  /\ caller = "clearHit" => rounds \in {-1, 0, 1}

IInv == TypeOK /\ AngleCropped /\ InStep /\ ResetProgress

USE MotorFeedbackAssumption

(* Unwrap recovers the movement from two raw positions.                    *)
LEMMA UnwrapExact ==
  ASSUME TypeOK, InStep
  PROVE  Unwrap(rotor - lastRaw) = Lag
BY DEF TypeOK, InStep, Unwrap, Within, Lag

(* One crop is enough after a movement of less than half an encoder turn,  *)
(* and it does not change the accumulated angle.                           *)
CropsWell(a, r, m) ==
  LET c == Crop(a + m, r) IN
    /\ c[1] \in Int /\ c[2] \in {r - 1, r, r + 1}
    /\ -Turn <= 2 * c[1] /\ 2 * c[1] < Turn
    /\ c[1] + c[2] * Turn = a + m + r * Turn

(* One crop brings the angle back within half a turn.                      *)
LEMMA CropExact ==
  ASSUME NEW a \in Int, NEW r \in Int, NEW m \in Int,
         -Turn <= 2 * a, 2 * a < Turn, Within(2 * m, Encoder)
  PROVE  CropsWell(a, r, m)
<1> USE DEF CropsWell
<1>1. (r + 1) * Turn = r * Turn + Turn /\ (r - 1) * Turn = r * Turn - Turn
  OBVIOUS
<1>2. r * Turn \in Int
  OBVIOUS
<1>3. CASE 2 * (a + m) >= Turn
  BY <1>1, <1>2, <1>3 DEF Crop, Within
<1>4. CASE 2 * (a + m) < -Turn
  BY <1>1, <1>2, <1>4 DEF Crop, Within
<1>5. CASE ~(2 * (a + m) >= Turn) /\ ~(2 * (a + m) < -Turn)
  BY <1>2, <1>5 DEF Crop, Within
<1>6. QED
  BY <1>3, <1>4, <1>5

(* A frame leaves the angle cropped and advances the accumulated angle by  *)
(* what the rotor turned since the last one (process_feedback).            *)
LEMMA FrameExact ==
  ASSUME TypeOK, AngleCropped, InStep, ProcessFeedback
  PROVE  /\ angle' \in Int /\ rounds' \in {rounds - 1, rounds, rounds + 1}
         /\ AngleCropped'
         /\ Accumulated' - Accumulated = seen' - seen
<1>1. Unwrap(rotor - lastRaw) = Lag
  BY UnwrapExact
<1>2. angle \in Int /\ rounds \in Int /\ Lag \in Int /\ seen \in Int /\ shaft \in Int
  BY DEF TypeOK, Lag
<1> DEFINE c == Crop(angle + Lag, rounds)
<1>3. angle' = c[1] /\ rounds' = c[2] /\ seen' = shaft
  BY <1>1 DEF ProcessFeedback
<1>4. /\ c[1] \in Int /\ c[2] \in {rounds - 1, rounds, rounds + 1}
      /\ -Turn <= 2 * c[1] /\ 2 * c[1] < Turn
      /\ c[1] + c[2] * Turn = angle + Lag + rounds * Turn
  <2>1. -Turn <= 2 * angle /\ 2 * angle < Turn /\ Within(2 * Lag, Encoder)
    BY DEF InStep, AngleCropped
  <2>2. CropsWell(angle, rounds, Lag)
    BY <1>2, <2>1, CropExact
  <2>3. QED
    BY ONLY <2>2 DEF CropsWell
<1>5. angle' \in Int /\ rounds' \in {rounds - 1, rounds, rounds + 1} /\ AngleCropped'
  BY <1>3, <1>4 DEF AngleCropped
<1>6. Accumulated' = Accumulated + Lag
  <2> HIDE DEF c
  <2>1. Accumulated' = angle + Lag + rounds * Turn
    <3>1. Accumulated' = angle' + rounds' * Turn
      BY DEF Accumulated
    <3>2. QED
      BY ONLY <3>1, <1>3, <1>4
  <2>2. rounds * Turn \in Int
    BY <1>2
  <2>3. QED
    BY <1>2, <2>1, <2>2 DEF Accumulated
<1>7. Accumulated \in Int
  BY <1>2 DEF Accumulated
<1>8. QED
  BY <1>2, <1>3, <1>5, <1>6, <1>7 DEF Lag

(* The invariant: types, the cropped angle, and the raw position in step   *)
(* with the rotor.                                                         *)
THEOREM Invariant == Spec => []IInv
<1>1. Init => IInv
  <2> SUFFICES ASSUME Init PROVE IInv
    OBVIOUS
  <2>1. shaft \in Int /\ Within(2 * shaft, Encoder) /\ rotor = Wrap(Initial + shaft)
    BY DEF Init
  <2>2. rotor \in 0..(Encoder - 1)
        /\ \/ rotor - Initial = shaft
           \/ rotor - Initial = shaft + Encoder
           \/ rotor - Initial = shaft - Encoder
    BY <2>1 DEF Wrap, Within
  <2>3. InStep
    BY <2>1, <2>2 DEF Init, InStep, Lag
  <2>4. TypeOK
    BY <2>1, <2>2 DEF Init, TypeOK, Callers, Hit
  <2>5. QED
    BY <2>3, <2>4 DEF Init, IInv, AngleCropped, ResetProgress
<1>2. IInv /\ [Next]_vars => IInv'
  <2> SUFFICES ASSUME IInv, [Next]_vars PROVE IInv'
    OBVIOUS
  <2> USE DEF IInv
  <2>1. CASE ProcessFeedback
    <3>1. /\ angle' \in Int /\ rounds' \in {rounds - 1, rounds, rounds + 1}
          /\ AngleCropped'
      BY <2>1, FrameExact
    <3>2. caller \in DOMAIN Hit /\ caller' = Hit[caller]
      BY <2>1 DEF ProcessFeedback
    <3>3. caller' \in Callers /\ caller' # "clear"
          /\ (caller' = "clearHit" => caller = "clear")
      BY <3>2 DEF Hit, Callers
    <3>4. TypeOK'
      BY <2>1, <3>1, <3>3 DEF TypeOK, ProcessFeedback
    <3>5. InStep'
      BY <2>1 DEF TypeOK, ProcessFeedback, InStep, Lag, Within
    <3>6. ResetProgress'
      BY <3>1, <3>3 DEF ResetProgress, TypeOK
    <3>7. QED
      BY <3>1, <3>4, <3>5, <3>6
  <2>2. ASSUME NEW d \in {-1, 1}, Rotate(d) PROVE IInv'
    <3>1. rotor' \in 0..(Encoder - 1)
          /\ \/ rotor' = rotor + d
             \/ rotor' = rotor + d - Encoder /\ rotor + d >= Encoder
             \/ rotor' = rotor + d + Encoder /\ rotor + d < 0
      BY <2>2 DEF Rotate, Wrap, TypeOK
    <3>2. shaft' = shaft + d /\ lastRaw' = lastRaw /\ seen' = seen
          /\ Within(2 * (shaft + d - seen), Encoder)
      BY <2>2 DEF Rotate
    <3>3. InStep'
      <4> DEFINE gap == shaft - seen
      <4>1. /\ Lag = gap /\ Lag' = gap + d /\ gap \in Int
            /\ Within(2 * gap, Encoder) /\ Within(2 * (gap + d), Encoder)
        BY <3>2 DEF TypeOK, InStep, Lag, Within
      <4>2. \/ rotor = lastRaw + gap \/ rotor = lastRaw + gap + Encoder
            \/ rotor = lastRaw + gap - Encoder
        BY <4>1 DEF InStep, TypeOK
      <4> HIDE DEF gap
      <4>3. \/ rotor' - lastRaw = gap + d
            \/ rotor' - lastRaw = gap + d + Encoder
            \/ rotor' - lastRaw = gap + d - Encoder
        <5>1. CASE rotor' = rotor + d
          BY <4>1, <4>2, <5>1 DEF TypeOK
        <5>2. CASE rotor' = rotor + d - Encoder /\ rotor + d >= Encoder
          <6>1. rotor # lastRaw + gap - Encoder
            BY <4>1, <5>2 DEF TypeOK, Within
          <6>2. QED
            BY <4>1, <4>2, <5>2, <6>1 DEF TypeOK
        <5>3. CASE rotor' = rotor + d + Encoder /\ rotor + d < 0
          <6>1. rotor # lastRaw + gap + Encoder
            BY <4>1, <5>3 DEF TypeOK, Within
          <6>2. QED
            BY <4>1, <4>2, <5>3, <6>1 DEF TypeOK
        <5>4. QED
          BY <3>1, <5>1, <5>2, <5>3
      <4>4. QED
        BY <3>2, <4>1, <4>3 DEF InStep
    <3>4. TypeOK'
      BY <2>2, <3>1, <3>2 DEF TypeOK, Rotate
    <3>5. QED
      BY <2>2, <3>3, <3>4 DEF Rotate, AngleCropped, ResetProgress
  <2>3. ASSUME NEW o \in {"readAngle", "readRounds"}, ReadFirst(o) PROVE IInv'
    <3>1. Accumulated \in Int /\ rounds * Turn \in Int
      BY DEF TypeOK, Accumulated
    <3>2. TypeOK'
      BY <2>3, <3>1 DEF TypeOK, ReadFirst, Callers, Hit
    <3>3. QED
      BY <2>3, <3>2 DEF ReadFirst, AngleCropped, ResetProgress, InStep, Lag
  <2>4. CASE ReadSecond
    <3>1. rounds * Turn \in Int
      BY DEF TypeOK
    <3>2. TypeOK'
      BY <2>4, <3>1 DEF TypeOK, ReadSecond, Callers, Hit
    <3>3. QED
      BY <2>4, <3>2 DEF ReadSecond, AngleCropped, ResetProgress, InStep, Lag
  <2>5. CASE ResetRounds
    BY <2>5 DEF ResetRounds, TypeOK, Callers, Hit, AngleCropped, ResetProgress,
       InStep, Lag
  <2>6. CASE ResetAngle
    BY <2>6 DEF ResetAngle, TypeOK, Callers, Hit, AngleCropped, ResetProgress,
       InStep, Lag
  <2>7. CASE UNCHANGED vars
    BY <2>7 DEF vars, TypeOK, AngleCropped, ResetProgress, InStep, Lag
  <2>8. QED
    BY <2>1, <2>2, <2>3, <2>4, <2>5, <2>6, <2>7 DEF Next, Read, Reset
<1>3. QED
  BY <1>1, <1>2, PTL DEF Spec

(* "Actual motor angle vary from -180 to 180".                             *)
THEOREM Cropped == Spec => []AngleCropped
BY Invariant, PTL DEF IInv

(* Every step of the feedback, its readers and its resets is a step of the *)
(* odometer, or leaves it alone.                                           *)
THEOREM Refinement == Spec => ImplementsOdometer
<1>1. Init => Odometer!Init
  BY DEF Init, Odometer!Init, Accumulated
<1>2. IInv /\ [Next]_vars => [Odometer!Next]_(Odometer!vars)
  <2> SUFFICES ASSUME IInv, [Next]_vars PROVE [Odometer!Next]_(Odometer!vars)
    OBVIOUS
  <2> USE DEF IInv, Odometer!vars
  <2>1. CASE ProcessFeedback
    BY <2>1, FrameExact DEF Odometer!Next, Odometer!Advance
  <2>2. CASE ResetRounds
    <3>1. Accumulated' = angle
      BY <2>2 DEF ResetRounds, Accumulated, TypeOK
    <3>2. QED
      BY <2>2, <3>1 DEF ResetRounds, AngleCropped, Odometer!Next, Odometer!DropTurns
  <2>3. CASE ResetAngle
    <3>1. rounds \in {-1, 0, 1}
      BY <2>3 DEF ResetAngle, ResetProgress
    <3>2. Accumulated' \in {-Turn, 0, Turn}
      BY <2>3, <3>1 DEF ResetAngle, Accumulated
    <3>3. QED
      BY <2>3, <3>2 DEF ResetAngle, Odometer!Next, Odometer!Clear
  <2>4. CASE Read \/ (\E d \in {-1, 1} : Rotate(d)) \/ UNCHANGED vars
    BY <2>4 DEF Read, ReadFirst, ReadSecond, Rotate, vars, Accumulated
  <2>5. QED
    BY <2>1, <2>2, <2>3, <2>4 DEF Next, Reset
<1>3. QED
  BY Invariant, <1>1, <1>2, PTL DEF Spec, ImplementsOdometer, Odometer!Spec

(* What a read under way has got so far: after a frame fell into it, the   *)
(* operand it already has is off by what the frame moved between angle and *)
(* rounds, one turn at most.                                               *)
ReadProgress ==
  /\ caller = "readAngle" => got = angle /\ before = Accumulated
  /\ caller = "readAngleHit" => got + rounds * Turn - before \in {-Turn, 0, Turn}
  /\ caller = "readRounds" => got = rounds * Turn
  /\ caller = "readRoundsHit" => got - rounds * Turn \in {-Turn, 0, Turn}

(* Rounds that differ by one are a turn apart.                             *)
LEMMA TurnsApart ==
  ASSUME NEW r \in Int, NEW s \in {r - 1, r, r + 1}
  PROVE  s * Turn - r * Turn \in {-Turn, 0, Turn} /\ r * Turn - s * Turn \in {-Turn, 0, Turn}
<1>1. (r + 1) * Turn = r * Turn + Turn /\ (r - 1) * Turn = r * Turn - Turn /\ r * Turn \in Int
  OBVIOUS
<1>2. CASE s = r - 1
  BY <1>1, <1>2
<1>3. CASE s = r
  BY <1>1, <1>3
<1>4. CASE s = r + 1
  BY <1>1, <1>4
<1>5. QED
  BY <1>2, <1>3, <1>4

(* Every step keeps what a divided read has seen of the two fields.        *)
LEMMA ReadProgressStep == IInv /\ ReadProgress /\ [Next]_vars => ReadProgress'
<1> SUFFICES ASSUME IInv, ReadProgress, [Next]_vars PROVE ReadProgress'
  OBVIOUS
<1>1. TypeOK /\ AngleCropped /\ InStep
  BY DEF IInv
<1>2. /\ rounds \in Int /\ rounds * Turn \in Int /\ angle \in Int /\ got \in Int
      /\ before \in Int /\ Accumulated = angle + rounds * Turn
  BY <1>1 DEF TypeOK, Accumulated
<1>3. CASE ProcessFeedback
  <2>1. rounds' \in {rounds - 1, rounds, rounds + 1}
    BY <1>1, <1>3, FrameExact
  <2> DEFINE moved == rounds' * Turn - rounds * Turn
  <2>2. moved \in {-Turn, 0, Turn} /\ rounds * Turn - rounds' * Turn \in {-Turn, 0, Turn}
    BY <1>2, <2>1, TurnsApart
  <2>3. caller \in DOMAIN Hit /\ caller' = Hit[caller] /\ got' = got /\ before' = before
    BY <1>3 DEF ProcessFeedback
  <2>4. /\ caller' \notin {"readAngle", "readRounds"}
        /\ caller' = "readAngleHit" => caller = "readAngle"
        /\ caller' = "readRoundsHit" => caller = "readRounds"
    BY <2>3 DEF Hit
  <2>5. rounds' \in Int /\ rounds' * Turn \in Int
    BY <1>2, <2>1
  <2>6. CASE caller' = "readAngleHit"
    <3>1. got = angle /\ before = angle + rounds * Turn
      BY <1>2, <2>4, <2>6 DEF ReadProgress
    <3>2. got' + rounds' * Turn - before' = moved
      BY <1>2, <2>3, <2>5, <3>1
    <3>3. QED
      BY <2>2, <2>6, <3>2 DEF ReadProgress
  <2>7. CASE caller' = "readRoundsHit"
    <3>1. got = rounds * Turn
      BY <2>4, <2>7 DEF ReadProgress
    <3>2. QED
      BY <2>2, <2>3, <2>7, <3>1 DEF ReadProgress
  <2>8. QED
    BY <2>4, <2>6, <2>7 DEF ReadProgress
<1>4. ASSUME NEW o \in {"readAngle", "readRounds"}, ReadFirst(o) PROVE ReadProgress'
  BY <1>2, <1>4 DEF ReadFirst, ReadProgress, Accumulated
<1>5. CASE ReadSecond \/ ResetRounds \/ ResetAngle
  BY <1>5 DEF ReadSecond, ResetRounds, ResetAngle, ReadProgress
<1>6. CASE (\E d \in {-1, 1} : Rotate(d)) \/ UNCHANGED vars
  BY <1>6 DEF Rotate, vars, ReadProgress, Accumulated
<1>7. QED
  BY <1>3, <1>4, <1>5, <1>6 DEF Next, Read, Reset

(* However the frames fall, an accumulate_angle() without a lock returns   *)
(* what it would have returned before or after, or that off by one turn.   *)
THEOREM ReadsOffByTurns == Spec => ReadOffByTurns
<1>1. Init => ReadProgress
  BY DEF Init, ReadProgress
<1>2. IInv /\ ReadProgress /\ [Next]_vars =>
        [Returns => \/ got' - before \in {-Turn, 0, Turn}
                    \/ got' - Accumulated \in {-Turn, 0, Turn}]_vars
  <2> SUFFICES ASSUME IInv, ReadProgress, ReadSecond
               PROVE  \/ got' - before \in {-Turn, 0, Turn}
                      \/ got' - Accumulated \in {-Turn, 0, Turn}
    BY DEF Next, Read, Reset, ReadFirst, ResetRounds, ResetAngle, ProcessFeedback, Rotate,
           Returns, Hit, vars
  <2>1. /\ rounds * Turn \in Int /\ angle \in Int /\ got \in Int /\ before \in Int
        /\ Accumulated = angle + rounds * Turn
    BY DEF IInv, TypeOK, Accumulated
  <2>2. CASE caller \in {"readAngle", "readAngleHit"}
    BY <2>1, <2>2 DEF ReadSecond, ReadProgress
  <2>3. CASE caller \in {"readRounds", "readRoundsHit"}
    BY <2>1, <2>3 DEF ReadSecond, ReadProgress
  <2>4. QED
    BY <2>2, <2>3 DEF ReadSecond
<1>3. QED
  BY Invariant, ReadProgressStep, <1>1, <1>2, PTL DEF Spec, ReadOffByTurns

-----------------------------------------------------------------------------
(* CANInterface.                                                           *)

HIDE MotorFeedbackAssumption
USE DEF controller, thread, boot, canVars

(* Every part of the driver, the thread and main() has its type.           *)
THEOREM CANTyping == CANSpec => []CANTypeOK
<1>1. CANInit => CANTypeOK
  <2> SUFFICES ASSUME CANInit PROVE CANTypeOK
    OBVIOUS
  <2>1. ControllerOK /\ ThreadOK
    <3>1. <<>> \in Seq(Frames) /\ Len(<<>>) <= Depth
      BY CANAssumption
    <3>2. QED
      BY <3>1 DEF CANInit, ControllerOK, ThreadOK
  <2>2. ListOK
    BY CANAssumption DEF CANInit, ListOK
  <2>3. MainOK
    BY DEF CANInit, MainOK
  <2>4. QED
    BY <2>1, <2>2, <2>3 DEF CANTypeOK
<1>2. CANTypeOK /\ [CANNext]_canVars => CANTypeOK'
  <2> SUFFICES ASSUME CANTypeOK, [CANNext]_canVars PROVE CANTypeOK'
    OBVIOUS
  <2>1. ControllerOK'
    <3> USE DEF CANTypeOK, ControllerOK
    <3>1. ASSUME NEW sid \in Frames, Arrive(sid) PROVE ControllerOK'
      BY <3>1, CANAssumption DEF Arrive
    <3>2. CASE Interrupt
      BY <3>2 DEF Interrupt
    <3>3. CASE Fetch
      <4>1. Tail(fifo) \in Seq(Frames) /\ Len(Tail(fifo)) <= Depth
        BY <3>3, CANAssumption DEF Fetch
      <4>2. fmpie' = (fmpie \/ Tail(fifo) = <<>>) /\ fifo' = Tail(fifo)
        BY <3>3, Zenon DEF Fetch
      <4>3. fmpie' \in BOOLEAN
        BY <4>2, Zenon
      <4>4. QED
        BY <4>1, <4>2, <4>3, Zenon DEF ControllerOK
    <3>4. CASE Register \/ Wake \/ Exhausted \/ Dispatch \/ Main \/ UNCHANGED canVars
      BY <3>4 DEF Register, Wake, Exhausted, Dispatch, Main, Fill, Take, Prepare
    <3>5. QED
      BY <3>1, <3>2, <3>3, <3>4 DEF CANNext, Thread
  <2>2. ThreadOK'
    <3> USE DEF CANTypeOK, ControllerOK, ThreadOK
    <3>1. CASE Interrupt
      BY <3>1 DEF Interrupt
    <3>2. CASE Fetch
      BY <3>2 DEF Fetch
    <3>3. CASE Register \/ Wake \/ Exhausted \/ Dispatch
      BY <3>3 DEF Register, Wake, Exhausted, Dispatch
    <3>4. CASE (\E sid \in Frames : Arrive(sid)) \/ Main \/ UNCHANGED canVars
      BY <3>4 DEF Arrive, Main, Fill, Take, Prepare
    <3>5. QED
      BY <3>1, <3>2, <3>3, <3>4 DEF CANNext, Thread
  <2>3. ListOK' /\ MainOK'
    <3> USE DEF CANTypeOK, ListOK, MainOK
    <3>1. CASE Fill
      <4>1. adding \in todo /\ adding \in {Blank, Device} \cup Fields
        BY <3>1 DEF Fill
      <4>2. Len(list) \in 1..Len(list)
        BY <3>1 DEF Fill
      <4>3. /\ [list EXCEPT ![Len(list)] = adding] \in Seq({Blank, Device} \cup Fields)
            /\ Len([list EXCEPT ![Len(list)] = adding]) = Len(list)
        BY <4>1, <4>2, ExceptSeq
      <4>4. QED
        BY <3>1, <4>1, <4>2, <4>3 DEF Fill
    <3>2. ASSUME NEW f \in todo, Take(f) PROVE ListOK' /\ MainOK'
      BY <3>2, CANAssumption DEF Take
    <3>3. ASSUME NEW m \in Motors, Prepare(m) PROVE ListOK' /\ MainOK'
      BY <3>3 DEF Prepare
    <3>4. CASE (\E sid \in Frames : Arrive(sid)) \/ Interrupt \/ Thread \/ UNCHANGED canVars
      BY <3>4 DEF Arrive, Interrupt, Thread, Register, Wake, Fetch, Exhausted, Dispatch
    <3>5. QED
      BY <3>1, <3>2, <3>3, <3>4 DEF CANNext, Main
  <2>4. QED
    BY <2>1, <2>2, <2>3 DEF CANTypeOK
<1>3. QED
  BY <1>1, <1>2, PTL DEF CANSpec

(* Nothing is received before the thread is registered with the event, and *)
(* the interrupt is masked only while there is something in the FIFO.      *)
Listening ==
  /\ heard <=> rx # "created"
  /\ ~heard => fifo = <<>>
  /\ fifo = <<>> => fmpie

(* When no frame is complete before the thread listens, none that comes    *)
(* after is forgotten, whatever the order of interrupt, event and thread.  *)
THEOREM Remembered == ASSUME QuietBoot PROVE CANSpec => []NoneForgotten
<1> DEFINE Inv == Listening /\ NoneForgotten
<1>1. CANInit => Inv
  BY DEF CANInit, Listening, NoneForgotten
<1>2. CANTypeOK /\ Inv /\ [CANNext]_canVars => Inv'
  <2> SUFFICES ASSUME CANTypeOK, Inv, [CANNext]_canVars PROVE Inv'
    OBVIOUS
  <2> USE DEF Listening, NoneForgotten, CANTypeOK, ControllerOK, ThreadOK
  <2>1. ASSUME NEW sid \in Frames, Arrive(sid) PROVE Inv'
    <3>1. heard
      BY <2>1, Zenon DEF Arrive
    <3>2. CASE fifo = <<>>
      BY <2>1, <3>1, <3>2, SMT DEF Arrive
    <3>3. CASE fifo # <<>>
      BY <2>1, <3>1, <3>3, SMT DEF Arrive
    <3>4. QED
      BY <3>2, <3>3
  <2>2. CASE Interrupt
    BY <2>2 DEF Interrupt
  <2>3. CASE Register
    BY <2>3 DEF Register
  <2>4. CASE Wake \/ Exhausted \/ Dispatch
    BY <2>4 DEF Wake, Exhausted, Dispatch
  <2>5. CASE Fetch
    BY <2>5 DEF Fetch
  <2>6. CASE Main
    BY <2>6 DEF Main, Fill, Take, Prepare
  <2>7. CASE UNCHANGED canVars
    BY <2>7
  <2>8. QED
    BY <2>1, <2>2, <2>3, <2>4, <2>5, <2>6, <2>7 DEF CANNext, Thread
<1>3. QED
  BY <1>1, <1>2, CANTyping, PTL DEF CANSpec

(* An identifier is in one field at most: two maximal runs that share one  *)
(* begin and end together.                                                 *)
LEMMA Disjoint ==
  ASSUME NEW f \in Fields, NEW g \in Fields, NEW s \in f, s \in g
  PROVE f = g
<1>1. PICK b \in Bounds : f = b[1]..b[2]
  BY DEF Fields
<1>2. PICK c \in Bounds : g = c[1]..c[2]
  BY DEF Fields
<1> DEFINE lo1 == b[1]  hi1 == b[2]  lo2 == c[1]  hi2 == c[2]
<1>3. /\ lo1 \in 1..LastSID /\ hi1 \in 1..LastSID
      /\ lo2 \in 1..LastSID /\ hi2 \in 1..LastSID
      /\ lo1..hi1 \subseteq Motors /\ lo2..hi2 \subseteq Motors
      /\ lo1 - 1 \notin Motors /\ hi1 + 1 \notin Motors
      /\ lo2 - 1 \notin Motors /\ hi2 + 1 \notin Motors
  BY <1>1, <1>2 DEF Bounds
<1> HIDE DEF lo1, hi1, lo2, hi2
<1>4. s \in lo1..hi1 /\ s \in lo2..hi2
  BY <1>1, <1>2 DEF lo1, hi1, lo2, hi2
<1>5. ~(lo1 < lo2) /\ ~(lo2 < lo1)
  BY <1>3, <1>4 DEF LastSID
<1>6. ~(hi1 < hi2) /\ ~(hi2 < hi1)
  BY <1>3, <1>4 DEF LastSID
<1>7. lo1 = lo2 /\ hi1 = hi2
  BY <1>3, <1>5, <1>6 DEF LastSID
<1>8. QED
  BY <1>1, <1>2, <1>7 DEF lo1, hi1, lo2, hi2

(* What a field is made of: motors, and never 0 or the device's.           *)
LEMMA FieldsOfMotors ==
  ASSUME NEW f \in Fields
  PROVE /\ f \subseteq Motors /\ f # {} /\ f # Blank /\ f # Device
        /\ f \cap Device = {}
<1>1. PICK b \in Bounds : f = b[1]..b[2]
  BY DEF Fields
<1>2. f \subseteq Motors /\ b[1] \in f
  BY <1>1 DEF Bounds, LastSID
<1>3. \A s \in f : s \in 1..LastSID
  BY <1>2, CANAssumption
<1>4. f \cap Device = {}
  BY <1>3, CANAssumption DEF LastSID
<1>5. f # Blank
  BY <1>2, <1>3 DEF Blank, LastSID
<1>6. QED
  BY <1>2, <1>4, <1>5

(* What the entries are: distinct, each the device's or a field that is no *)
(* longer to be registered, but for the one that is about to be filled.    *)
Entries ==
  /\ {} \notin todo
  /\ \A i \in 1..Len(list) :
       \/ list[i] \in (Fields \cup {Device}) \ todo
       \/ list[i] = Blank /\ adding # {} /\ i = Len(list)
  /\ \A i, j \in 1..Len(list) : list[i] = list[j] => i = j

(* Fields are only taken when all motors are known.                        *)
Prepared ==
  (adding \in Fields \/ \E i \in 1..Len(list) : list[i] \in Fields) => known = Motors

(* What the thread dispatches came from the bus.                           *)
FromBus == rx = "dispatch" => frame \in Frames

(* Every step keeps the entries of the list as they are described.         *)
LEMMA EntriesKept == CANTypeOK /\ Entries /\ [CANNext]_canVars => Entries'
<1> SUFFICES ASSUME CANTypeOK, Entries, [CANNext]_canVars PROVE Entries'
  OBVIOUS
<1> USE DEF Entries, CANTypeOK, ListOK, MainOK
<1>0. Device # Blank
  BY CANAssumption DEF Blank, LastSID
<1>1. CASE Fill
  <2>1. adding \in todo /\ adding \in {Blank, Device} \cup Fields /\ adding # {}
    BY <1>1 DEF Fill
  <2>2. Len(list) \in 1..Len(list)
    BY <1>1 DEF Fill
  <2>3. /\ Len(list') = Len(list)
        /\ \A i \in 1..Len(list) :
             list'[i] = IF i = Len(list) THEN adding ELSE list[i]
    BY <1>1, <2>1, <2>2, ExceptSeq DEF Fill
  <2>4. todo' = todo \ {adding}
    BY <1>1 DEF Fill
  <2>5. \A i \in 1..Len(list) : i # Len(list) => list[i] \in (Fields \cup {Device}) \ todo
    OBVIOUS
  <2>6. QED
    BY <2>1, <2>2, <2>3, <2>4, <2>5
<1>2. ASSUME NEW f \in todo, Take(f) PROVE Entries'
  <2>1. CASE Len(list) >= Capacity
    BY <1>2, <2>1 DEF Take
  <2>2. CASE ~(Len(list) >= Capacity)
    <3>1. list' = Append(list, Blank) /\ adding' = f /\ todo' = todo /\ adding = {}
      BY <1>2, <2>2 DEF Take
    <3>2. /\ Len(list') = Len(list) + 1 /\ list'[Len(list) + 1] = Blank
          /\ \A i \in 1..Len(list) : list'[i] = list[i]
      BY <3>1
    <3>3. \A i \in 1..Len(list) : list[i] \in (Fields \cup {Device}) \ todo /\ list[i] # Blank
      BY <3>1, <1>0, FieldsOfMotors
    <3>4. f # {}
      OBVIOUS
    <3>5. QED
      BY <3>1, <3>2, <3>3, <3>4
  <2>3. QED
    BY <2>1, <2>2
<1>3. CASE \E m \in Motors : Prepare(m)
  BY <1>3 DEF Prepare
<1>4. CASE (\E sid \in Frames : Arrive(sid)) \/ Interrupt \/ Thread \/ UNCHANGED canVars
  BY <1>4 DEF Arrive, Interrupt, Thread, Register, Wake, Fetch, Exhausted, Dispatch
<1>5. QED
  BY <1>1, <1>2, <1>3, <1>4 DEF CANNext, Main

(* Every step keeps the motors initialised before fields are taken.        *)
LEMMA PreparedKept == CANTypeOK /\ Prepared /\ [CANNext]_canVars => Prepared'
<1> SUFFICES ASSUME CANTypeOK, Prepared, [CANNext]_canVars PROVE Prepared'
  OBVIOUS
<1> USE DEF Prepared, CANTypeOK, ListOK, MainOK
<1>1. CASE Fill
  <2>1. adding \in {Blank, Device} \cup Fields /\ Len(list) \in 1..Len(list)
    BY <1>1 DEF Fill
  <2>2. /\ Len(list') = Len(list)
        /\ \A i \in 1..Len(list) :
             list'[i] = IF i = Len(list) THEN adding ELSE list[i]
    BY <1>1, <2>1, ExceptSeq DEF Fill
  <2>3. adding' = {} /\ known' = known
    BY <1>1 DEF Fill
  <2>4. QED
    BY <2>1, <2>2, <2>3, FieldsOfMotors
<1>2. ASSUME NEW f \in todo, Take(f) PROVE Prepared'
  <2>1. known' = known /\ (f \in Fields => known = Motors)
    BY <1>2, FieldsOfMotors DEF Take, TurnOf
  <2>2. CASE Len(list) >= Capacity
    BY <1>2, <2>2 DEF Take
  <2>3. CASE ~(Len(list) >= Capacity)
    <3>1. list' = Append(list, Blank) /\ adding' = f
      BY <1>2, <2>3 DEF Take
    <3>2. /\ Len(list') = Len(list) + 1 /\ list'[Len(list) + 1] = Blank
          /\ \A i \in 1..Len(list) : list'[i] = list[i]
      BY <3>1
    <3>3. Blank \notin Fields
      BY FieldsOfMotors
    <3>4. QED
      BY <2>1, <3>1, <3>2, <3>3
  <2>4. QED
    BY <2>2, <2>3
<1>3. ASSUME NEW m \in Motors, Prepare(m) PROVE Prepared'
  BY <1>3 DEF Prepare
<1>4. CASE (\E sid \in Frames : Arrive(sid)) \/ Interrupt \/ Thread \/ UNCHANGED canVars
  BY <1>4 DEF Arrive, Interrupt, Thread, Register, Wake, Fetch, Exhausted, Dispatch
<1>5. QED
  BY <1>1, <1>2, <1>3, <1>4 DEF CANNext, Main

(* Every step keeps a frame that is dispatched one of the bus.             *)
LEMMA FromBusKept == CANTypeOK /\ FromBus /\ [CANNext]_canVars => FromBus'
<1> SUFFICES ASSUME CANTypeOK, FromBus, [CANNext]_canVars PROVE FromBus'
  OBVIOUS
<1>1. CASE Fetch
  BY <1>1 DEF Fetch, FromBus, CANTypeOK, ControllerOK
<1>2. CASE \/ (\E sid \in Frames : Arrive(sid)) \/ Interrupt \/ Main \/ UNCHANGED canVars
           \/ Register \/ Wake \/ Exhausted \/ Dispatch
  BY <1>2 DEF FromBus, Arrive, Interrupt, Main, Fill, Take, Prepare, Register, Wake,
              Exhausted, Dispatch
<1>3. QED
  BY <1>1, <1>2 DEF CANNext, Thread

(* The three together, from start-up on.                                   *)
LEMMA BootInv == CANSpec => [](CANTypeOK /\ Entries /\ Prepared /\ FromBus)
<1>1. CANInit => Entries /\ Prepared /\ FromBus
  BY FieldsOfMotors DEF CANInit, Entries, Prepared, FromBus
<1>2. QED
  BY <1>1, EntriesKept, PreparedKept, FromBusKept, CANTyping, PTL DEF CANSpec

(* Whatever the motors of the bus and however the registrations fall       *)
(* between its frames, no frame is given to two callbacks.                 *)
THEOREM Once == CANSpec => []NotTwice
<1>1. Entries /\ FromBus => NotTwice
  <2> SUFFICES ASSUME Entries, FromBus, rx = "dispatch",
                      NEW i \in Matching, NEW j \in Matching
               PROVE i = j
    BY DEF NotTwice
  <2>1. frame \in Frames /\ frame \notin Blank
    BY CANAssumption DEF FromBus, Frames, Blank, LastSID
  <2>2. /\ i \in 1..Len(list) /\ frame \in list[i] /\ list[i] \in Fields \cup {Device}
        /\ j \in 1..Len(list) /\ frame \in list[j] /\ list[j] \in Fields \cup {Device}
    BY <2>1 DEF Matching, Entries
  <2>3. list[i] = list[j]
    BY <2>2, Disjoint, FieldsOfMotors
  <2>4. QED
    BY <2>2, <2>3 DEF Entries
<1>2. QED
  BY <1>1, BootInv, PTL

(* The callback of the motors is only given frames of motors that are      *)
(* mapped and initialised.                                                 *)
THEOREM Known == CANSpec => []OnlyKnown
<1>1. Entries /\ Prepared /\ FromBus => OnlyKnown
  <2> SUFFICES ASSUME Entries, Prepared, FromBus, rx = "dispatch", NEW i \in Matching
               PROVE frame \in known \cup Device
    BY DEF OnlyKnown
  <2>1. frame \notin Blank
    BY CANAssumption DEF FromBus, Frames, Blank, LastSID
  <2>2. i \in 1..Len(list) /\ frame \in list[i] /\ list[i] \in Fields \cup {Device}
    BY <2>1 DEF Matching, Entries
  <2>3. CASE list[i] \in Fields
    BY <2>2, <2>3, FieldsOfMotors DEF Prepared
  <2>4. QED
    BY <2>2, <2>3
<1>2. QED
  BY <1>1, BootInv, PTL

(* Every motor is in a field: the run of identifiers around it ends before *)
(* 0 and at LastSID at the latest, so it has a first and a last one.       *)
LEMMA Smallest ==
  ASSUME NEW S \in SUBSET Nat, S # {}
  PROVE  \E x \in S : \A y \in S : x <= y
<1> DEFINE R == OpToRel(<, Nat)
<1>1. IsWellFoundedOn(R, Nat)
  BY NatLessThanWellFounded
<1>2. R = {p \in Nat \X Nat : p[1] < p[2]}
  BY DEF OpToRel
<1> HIDE DEF R
<1>3. PICK x \in S : \A y \in S : ~(<<y, x>> \in R)
  BY <1>1, WFMin, Zenon
<1>4. ASSUME NEW y \in S PROVE x <= y
  <2>1. x \in Nat /\ y \in Nat /\ <<y, x>> \notin R
    BY <1>3, Zenon
  <2>2. y < x => <<y, x>> \in R
    BY <2>1, <1>2
  <2>3. QED
    BY <2>1, <2>2
<1>5. QED
  BY <1>4

(* Each motor is in a field.                                               *)
LEMMA FieldOfMotor ==
  ASSUME NEW m \in Motors
  PROVE  \E f \in Fields : m \in f
<1>1. m \in 1..LastSID /\ 0 \notin Motors /\ LastSID + 1 \notin Motors
  BY CANAssumption DEF LastSID
<1> DEFINE Above == {h \in Nat : m <= h /\ h + 1 \notin Motors}
           Below == {k \in Nat : k < m /\ m - k - 1 \notin Motors}
<1>2. PICK hi \in Above : \A y \in Above : hi <= y
  <2>1. LastSID \in Above
    BY <1>1 DEF LastSID
  <2>2. QED
    BY <2>1, Smallest
<1>3. PICK k \in Below : \A y \in Below : k <= y
  <2>1. m - 1 \in Below
    BY <1>1 DEF LastSID
  <2>2. QED
    BY <2>1, Smallest
<1> DEFINE lo == m - k
<1>4. hi \in 1..LastSID /\ lo \in 1..LastSID /\ lo <= m /\ m <= hi
  <2>1. LastSID \in Above
    BY <1>1 DEF LastSID
  <2>2. QED
    BY <1>1, <1>2, <1>3, <2>1 DEF LastSID
<1>5. ASSUME NEW s \in lo..hi PROVE s \in Motors
  <2>1. CASE m < s
    <3>1. s - 1 \in Nat /\ m <= s - 1 /\ s - 1 < hi
      BY <1>1, <1>4, <2>1 DEF LastSID
    <3>2. s - 1 \notin Above
      BY <1>2, <1>4, <3>1 DEF LastSID
    <3>3. s - 1 + 1 = s
      BY <1>4 DEF LastSID
    <3>4. QED
      BY <3>1, <3>2, <3>3
  <2>2. CASE s < m
    <3>1. m - s - 1 \in Nat /\ m - s - 1 < k /\ m - s - 1 < m
      BY <1>1, <1>3, <1>4, <2>2 DEF LastSID
    <3>2. m - s - 1 \notin Below
      BY <1>3, <3>1
    <3>3. m - (m - s - 1) - 1 = s
      BY <1>1, <1>4 DEF LastSID
    <3>4. QED
      BY <3>1, <3>2, <3>3
  <2>3. CASE s = m
    BY <2>3
  <2>4. QED
    BY <1>1, <1>4, <2>1, <2>2, <2>3 DEF LastSID
<1>6. lo - 1 \notin Motors /\ hi + 1 \notin Motors
  BY <1>2, <1>3
<1> HIDE DEF lo
<1>7. <<lo, hi>> \in Bounds
  <2>1. lo <= hi
    BY <1>1, <1>4 DEF LastSID
  <2>2. lo..hi \subseteq Motors
    BY <1>5
  <2>3. <<lo, hi>> \in (1..LastSID) \X (1..LastSID)
    BY <1>4
  <2>4. QED
    BY <1>6, <2>1, <2>2, <2>3 DEF Bounds
<1>8. lo..hi \in Fields /\ m \in lo..hi
  BY <1>1, <1>4, <1>7 DEF Fields, LastSID
<1>9. QED
  BY <1>8

(* While the list has room for all entries, what is no longer to be        *)
(* registered is in the list, and the entry about to be filled holds no    *)
(* other yet.                                                              *)
Covered ==
  /\ \A f \in (Fields \cup {Device}) \ todo : f # {} => \E i \in 1..Len(list) : list[i] = f
  /\ adding # {} => list[Len(list)] = Blank

Roomy == Cardinality(Fields \cup {Device}) <= Capacity

(* The fields and the device are finitely many.                            *)
LEMMA FieldsFinite == IsFiniteSet(Fields \cup {Device})
<1>1. IsFiniteSet(1..LastSID)
  <2>1. 1 \in Int /\ LastSID \in Int
    BY DEF LastSID
  <2>2. QED
    BY <2>1, FS_Interval
<1>2. IsFiniteSet(SUBSET (1..LastSID))
  BY <1>1, FS_SUBSET
<1>3. Fields \in SUBSET SUBSET (1..LastSID)
  BY FieldsOfMotors, CANAssumption
<1>4. QED
  BY <1>2, <1>3, FS_Subset, FS_AddElement

(* register_callback() always finds room: the entries are distinct.        *)
LEMMA RoomLeft ==
  ASSUME Roomy, CANTypeOK, Entries, adding = {}, NEW f \in todo
  PROVE  Len(list) < Capacity
<1> DEFINE All == Fields \cup {Device}
<1>1. f \in All /\ list \in Seq({Blank, Device} \cup Fields) /\ Len(list) \in Nat
  BY DEF CANTypeOK, MainOK, ListOK
<1>2. IsFiniteSet(All \ {f}) /\ Cardinality(All \ {f}) = Cardinality(All) - 1
      /\ Cardinality(All) \in Nat
  BY <1>1, FieldsFinite, FS_RemoveElement, FS_CardinalityType
<1>3. IsFiniteSet(1..Len(list)) /\ Cardinality(1..Len(list)) = Len(list)
  BY <1>1, FS_Interval
<1>4. \A i \in 1..Len(list) : list[i] \in All \ {f}
  BY DEF Entries
<1>5. list \in [1..Len(list) -> All \ {f}]
  BY <1>1, <1>4
<1>6. ~(Cardinality(All \ {f}) < Cardinality(1..Len(list)))
  <2> SUFFICES ASSUME Cardinality(All \ {f}) < Cardinality(1..Len(list)) PROVE FALSE
    OBVIOUS
  <2>1. \E x, y \in 1..Len(list) : x # y /\ list[x] = list[y]
    BY <1>2, <1>3, <1>5, FS_PigeonHole
  <2>2. QED
    BY <2>1 DEF Entries
<1>7. QED
  BY <1>1, <1>2, <1>3, <1>6, CANAssumption DEF Roomy

(* Every step keeps each field either listed or still to be taken.         *)
LEMMA CoveredKept ==
  ASSUME Roomy, CANTypeOK, Entries, Covered, [CANNext]_canVars
  PROVE  Covered'
<1> USE DEF Covered
<1>0. list \in Seq({Blank, Device} \cup Fields) /\ todo \subseteq Fields \cup {Device}
  BY DEF CANTypeOK, ListOK, MainOK
<1>1. CASE Fill
  <2>1. adding \in todo /\ adding \in {Blank, Device} \cup Fields /\ adding # {}
    BY <1>1 DEF Fill, CANTypeOK, MainOK
  <2>2. Len(list) \in 1..Len(list)
    BY <1>0, <2>1 DEF CANTypeOK, ListOK
  <2>3. /\ Len(list') = Len(list)
        /\ \A i \in 1..Len(list) :
             list'[i] = IF i = Len(list) THEN adding ELSE list[i]
    BY <1>0, <1>1, <2>1, <2>2, ExceptSeq DEF Fill
  <2>4. todo' = todo \ {adding} /\ adding' = {}
    BY <1>1 DEF Fill
  <2>5. Blank \notin Fields \cup {Device}
    BY FieldsOfMotors, CANAssumption DEF Blank, LastSID
  <2>6. ASSUME NEW f \in (Fields \cup {Device}) \ todo', f # {}
        PROVE  \E i \in 1..Len(list') : list'[i] = f
    <3>1. CASE f = adding
      BY <2>2, <2>3, <3>1
    <3>2. CASE f # adding
      <4>1. PICK i \in 1..Len(list) : list[i] = f
        BY <2>4, <2>6, <3>2
      <4>2. i # Len(list)
        BY <2>1, <2>5, <4>1
      <4>3. QED
        BY <2>3, <4>1, <4>2
    <3>3. QED
      BY <3>1, <3>2
  <2>7. QED
    BY <2>4, <2>6
<1>2. ASSUME NEW f \in todo, Take(f) PROVE Covered'
  <2>1. adding = {} /\ Len(list) < Capacity
    BY <1>2, RoomLeft DEF Take
  <2>2. list' = Append(list, Blank) /\ todo' = todo
    BY <1>2, <2>1, <1>0, CANAssumption DEF Take
  <2>3. /\ Len(list') = Len(list) + 1 /\ list'[Len(list) + 1] = Blank
        /\ \A i \in 1..Len(list) : list'[i] = list[i]
    BY <1>0, <2>2
  <2>4. \A i \in 1..Len(list) : i \in 1..Len(list')
    BY <1>0, <2>3
  <2>5. QED
    BY <2>2, <2>3, <2>4
<1>3. CASE \E m \in Motors : Prepare(m)
  BY <1>3 DEF Prepare
<1>4. CASE (\E sid \in Frames : Arrive(sid)) \/ Interrupt \/ Thread \/ UNCHANGED canVars
  BY <1>4 DEF Arrive, Interrupt, Thread, Register, Wake, Fetch, Exhausted, Dispatch
<1>5. QED
  BY <1>1, <1>2, <1>3, <1>4 DEF CANNext, Main

(* Two fields with the same first identifier are one.                      *)
LEMMA FirstsDiffer ==
  ASSUME NEW b \in Bounds, NEW c \in Bounds, b[1] = c[1]
  PROVE  b[1]..b[2] = c[1]..c[2]
<1>1. /\ b[1] \in 1..LastSID /\ b[2] \in 1..LastSID /\ c[2] \in 1..LastSID
      /\ b[1] <= b[2] /\ c[1] <= c[2]
  BY DEF Bounds
<1>2. b[1]..b[2] \subseteq Motors /\ c[1]..c[2] \subseteq Motors
  BY DEF Bounds
<1>3. b[2] + 1 \notin Motors /\ c[2] + 1 \notin Motors
  BY DEF Bounds
<1>4. b[2] = c[2]
  <2>1. PICK x, y, z : x = b[1] /\ y = b[2] /\ z = c[2]
    OBVIOUS
  <2>2. x \in Int /\ y \in Int /\ z \in Int /\ x <= y /\ x <= z
    BY <1>1, <2>1 DEF LastSID
  <2>3. y + 1 \notin x..z /\ z + 1 \notin x..y
    BY <1>2, <1>3, <2>1
  <2>4. y = z
    BY <2>2, <2>3
  <2>5. QED
    BY <2>1, <2>4
<1>5. QED
  BY <1>4

(* There are no more fields than identifiers.                              *)
LEMMA FieldsAreFew == Cardinality(Fields) <= LastSID
<1>1. \A g \in Fields : \E b \in Bounds : g = b[1]..b[2]
  BY DEF Fields
<1> DEFINE first(g) == CHOOSE i \in 1..LastSID : \E b \in Bounds : g = b[1]..b[2] /\ b[1] = i
           h == [g \in Fields |-> first(g)]
<1>2. ASSUME NEW g \in Fields
      PROVE  first(g) \in 1..LastSID /\ \E b \in Bounds : g = b[1]..b[2] /\ b[1] = first(g)
  <2>1. PICK b \in Bounds : g = b[1]..b[2]
    BY <1>1
  <2>2. b[1] \in 1..LastSID
    BY DEF Bounds
  <2>3. \E i \in 1..LastSID : \E c \in Bounds : g = c[1]..c[2] /\ c[1] = i
    BY <2>1, <2>2, Zenon
  <2>4. QED
    BY <2>3, Zenon
<1> HIDE DEF first
<1>3. ASSUME NEW f \in Fields, NEW g \in Fields, first(f) = first(g)
      PROVE  f = g
  <2>1. PICK b \in Bounds : f = b[1]..b[2] /\ b[1] = first(f)
    BY <1>2
  <2>2. PICK c \in Bounds : g = c[1]..c[2] /\ c[1] = first(g)
    BY <1>2
  <2>3. QED
    BY <1>3, <2>1, <2>2, FirstsDiffer, Zenon
<1>4. h \in Injection(Fields, 1..LastSID)
  BY <1>2, <1>3, Zenon DEF Injection, IsInjective
<1>5. IsFiniteSet(1..LastSID) /\ Cardinality(1..LastSID) = LastSID
  <2>1. 1 \in Int /\ LastSID \in Int /\ 1 <= LastSID
    BY DEF LastSID
  <2>2. QED
    BY <2>1, FS_Interval
<1>6. Cardinality(Fields) <= Cardinality(1..LastSID)
  BY <1>4, <1>5, FS_Injection, Zenon
<1>7. QED
  BY <1>5, <1>6

(* callback_list, which has 20 entries, always has room for them.          *)
COROLLARY ListIsLongEnough == Capacity > LastSID => Roomy
<1>1. IsFiniteSet(Fields)
  BY FieldsFinite, FS_Subset
<1>2. Cardinality(Fields) \in Nat /\ Cardinality(Fields \cup {Device}) \in Nat
  BY <1>1, FieldsFinite, FS_CardinalityType
<1>3. Cardinality(Fields \cup {Device}) <= Cardinality(Fields) + 1
  BY <1>1, <1>2, FS_AddElement
<1>4. QED
  BY <1>2, <1>3, FieldsAreFew, CANAssumption DEF Roomy, LastSID

(* If the list has room for all fields and the device (ListIsLongEnough),  *)
(* a frame of a motor or the device reaches exactly one callback once      *)
(* main() is through, and never two, for every set of motors.              *)
THEOREM ReachesOne == ASSUME Roomy PROVE CANSpec => []EachOnce
<1>1. CANInit => Covered
  BY DEF CANInit, Covered
<1>2. CANTypeOK /\ Entries /\ Covered /\ [CANNext]_canVars => Covered'
  BY CoveredKept
<1>3. Covered => NotDropped
  <2> SUFFICES ASSUME Covered, todo = {}, frame \in Motors \cup Device PROVE Matching # {}
    BY DEF NotDropped
  <2>1. PICK f \in Fields \cup {Device} : frame \in f
    BY FieldOfMotor
  <2>2. PICK i \in 1..Len(list) : list[i] = f
    BY <2>1 DEF Covered
  <2>3. QED
    BY <2>1, <2>2 DEF Matching
<1>4. QED
  BY <1>1, <1>2, <1>3, BootInv, Once, PTL DEF CANSpec, EachOnce
=============================================================================
