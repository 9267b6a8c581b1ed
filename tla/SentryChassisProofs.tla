------------------------ MODULE SentryChassisProofs ------------------------
(***************************************************************************)
(* The sentry is braked before it is let go, for every set of velocities   *)
(* and every length of the rail.  The loop that brakes looks at the flag   *)
(* of the left wheel alone; the invariant says why that is enough: nothing *)
(* drives a wheel unless that flag is set, or the user is still to set it  *)
(* in a cycle which is not one of relaxation.                              *)
(***************************************************************************)
EXTENDS SentryChassis, SequenceTheorems, TLAPS

Left  == <<"V2I", "LEFT">>
Right == <<"V2I", "RIGHT">>

(* What is left of a cycle: the left wheel is enabled last.                *)
Cycle ==
  /\ order \in Orders /\ mode = order[1]
  /\ todo \in Seq({"A2V", "V2I"} \X Wheels)
  /\ \A i \in DOMAIN todo : todo[i] \in {Left, Right} => mode # "RELAX"
  /\ \A i \in DOMAIN todo : todo[i] = Right => \E j \in DOMAIN todo : i < j /\ todo[j] = Left

LeftToCome == \E i \in DOMAIN todo : todo[i] = Left

Typed ==
  /\ targetV \in [Wheels -> Aims] /\ output \in [Wheels -> Aims \cup {NoCurrent}]
  /\ enableV2I \in [Wheels -> BOOLEAN]
  /\ targetVelocity \in Velocities /\ targetPosition \in Places /\ targetA \in Places
  /\ destination \in {0, Far}

LeftTells ==
  (\E w \in Wheels : enableV2I[w] \/ output[w] # NoCurrent) => enableV2I["LEFT"] \/ LeftToCome

IInv == Cycle /\ Typed /\ LeftTells

USE SentryAssumption, NoCurrentAssumption

(* What an order asks for.                                                 *)
LEMMA OrdersAre ==
  ASSUME NEW c \in Orders
  PROVE  c[1] \in {"RELAX", "AUTO", "MANUAL"} /\ (c[1] = "MANUAL" => c[2] \in Velocities)
<1>1. Relax[1] = "RELAX" /\ Automatic[1] = "AUTO"
  BY DEF Relax, Automatic
<1>2. ASSUME NEW v \in Velocities, c = Manual(v)
      PROVE  c[1] = "MANUAL" /\ c[2] \in Velocities
  BY <1>2 DEF Manual
<1>3. c = Relax \/ c = Automatic \/ \E v \in Velocities : c = Manual(v)
  BY DEF Orders
<1>4. QED
  BY <1>1, <1>2, <1>3

(* The flags a cycle writes, of every mode.                                *)
LEMMA FlagsOfCycle ==
  ASSUME NEW c \in Orders
  PROVE  /\ Flags(c) \in Seq({"A2V", "V2I"} \X Wheels)
         /\ \A i \in DOMAIN Flags(c) : Flags(c)[i] \in {Left, Right} => c[1] # "RELAX"
         /\ \A i \in DOMAIN Flags(c) :
              Flags(c)[i] = Right => \E j \in DOMAIN Flags(c) : i < j /\ Flags(c)[j] = Left
<1> USE DEF Flags, Left, Right, Wheels
<1>1. CASE c[1] = "RELAX"
  BY <1>1
<1>2. CASE c[1] = "MANUAL"
  <2>1. DOMAIN Flags(c) = 1..4 /\ Flags(c)[3] = Right /\ Flags(c)[4] = Left
    BY <1>2
  <2>2. QED
    BY <1>2, <2>1
<1>3. CASE c[1] = "AUTO"
  BY <1>3
<1>4. QED
  BY <1>1, <1>2, <1>3, OrdersAre

(* Every step keeps the left wheel the last to be enabled.                 *)
LEMMA CycleStep ==
  ASSUME Cycle, [Next]_vars
  PROVE  Cycle'
<1> USE DEF Cycle
<1>1. ASSUME NEW c \in Orders, User(c) PROVE Cycle'
  BY <1>1, FlagsOfCycle DEF User
<1>2. CASE Write
  <2>1. todo # << >> /\ todo' = Tail(todo) /\ order' = order /\ mode' = mode
    BY <1>2 DEF Write, skd
  <2>2. todo' \in Seq({"A2V", "V2I"} \X Wheels)
    BY <2>1
  <2>3. \A i \in DOMAIN todo' : i + 1 \in DOMAIN todo /\ todo'[i] = todo[i + 1]
    BY <2>1
  <2>4. \A j \in DOMAIN todo : j > 1 => j - 1 \in DOMAIN todo' /\ todo'[j - 1] = todo[j]
    BY <2>1
  <2>5. DOMAIN todo \subseteq Nat \ {0} /\ DOMAIN todo' \subseteq Nat \ {0}
    BY <2>2
  <2>6. ASSUME NEW i \in DOMAIN todo', todo'[i] = Right
        PROVE  \E j \in DOMAIN todo' : i < j /\ todo'[j] = Left
    <3>1. PICK j \in DOMAIN todo : i + 1 < j /\ todo[j] = Left
      BY <2>3, <2>6
    <3>2. j - 1 \in DOMAIN todo' /\ todo'[j - 1] = Left /\ i < j - 1
      BY <2>4, <2>5, <3>1
    <3>3. QED
      BY <3>2
  <2>7. QED
    BY <2>1, <2>2, <2>3, <2>6
<1>3. CASE LGThread
  BY <1>3 DEF LGThread, Turn, HandOn, user
<1>4. CASE SKDThread
  BY <1>4 DEF SKDThread, CopyTargets, Brake, Cut, user, skd
<1>5. CASE Motor \/ Rail \/ Slide \/ UNCHANGED vars
  BY <1>5 DEF Motor, Rail, Approach, Settle, Slide, vars, user, skd
<1>6. QED
  BY <1>1, <1>2, <1>3, <1>4, <1>5 DEF Next, UserThread

(* A speed of the stick and a place on the rail are aims.                  *)
LEMMA AimsAre == (\A v \in Velocities : Speed(v) \in Aims) /\ (\A p \in Places : Toward(p) \in Aims)
BY DEF Aims

(* Every step keeps what is regulated an aim.                              *)
LEMMA TypedStep ==
  ASSUME Cycle, Typed, [Next]_vars
  PROVE  Typed'
<1> USE DEF Typed
<1>1. ASSUME NEW c \in Orders, User(c) PROVE Typed'
  BY <1>1 DEF User, motor
<1>2. CASE Write
  <2>1. enableV2I' \in [Wheels -> BOOLEAN]
    BY <1>2, Zenon DEF Write
  <2>2. QED
    BY <1>2, <2>1 DEF Write, skd
<1>3. CASE Turn
  BY <1>3 DEF Turn, motor, Places
<1>4. CASE HandOn
  BY <1>4, OrdersAre DEF HandOn, motor, Cycle
<1>5. CASE CopyTargets
  BY <1>5, AimsAre DEF CopyTargets, skd, Both
<1>6. CASE Brake
  BY <1>6, AimsAre DEF Brake, Both
<1>7. CASE Cut
  <2>1. enableV2I' \in [Wheels -> BOOLEAN] /\ output' \in [Wheels -> Aims \cup {NoCurrent}]
    BY <1>7 DEF Cut, Both
  <2>2. QED
    BY <1>7, <2>1 DEF Cut
<1>8. CASE Motor
  <2>1. targetV' \in [Wheels -> Aims]
    BY <1>8, AimsAre DEF Motor
  <2>2. output' \in [Wheels -> Aims \cup {NoCurrent}]
    BY <1>8, <2>1 DEF Motor
  <2>3. QED
    BY <1>8, <2>1, <2>2 DEF Motor, skd
<1>9. CASE Rail \/ Slide \/ UNCHANGED vars
  BY <1>9 DEF Rail, Approach, Settle, Slide, vars, skd, motor
<1>10. QED
  BY <1>1, <1>2, <1>3, <1>4, <1>5, <1>6, <1>7, <1>8, <1>9 DEF Next, UserThread, LGThread, SKDThread

(* Every step keeps the left flag telling of both wheels.                  *)
LEMMA LeftStep ==
  ASSUME IInv, [Next]_vars
  PROVE  LeftTells'
<1> USE DEF IInv, LeftTells
<1>0. "LEFT" \in Wheels /\ "RIGHT" \in Wheels /\ \A w \in Wheels : w = "LEFT" \/ w = "RIGHT"
  BY DEF Wheels
<1>1. ASSUME NEW c \in Orders, User(c) PROVE LeftTells'
  <2>1. ~LeftToCome
    BY <1>1 DEF User, LeftToCome
  <2>2. enableV2I' = enableV2I /\ output' = output
    BY <1>1 DEF User, motor
  <2>3. QED
    BY <2>1, <2>2
<1>2. CASE Write
  <2>1. output' = output /\ todo # << >> /\ todo' = Tail(todo)
    BY <1>2 DEF Write
  <2>2. \A w \in Wheels : enableV2I'[w] <=> enableV2I[w] \/ Head(todo) = <<"V2I", w>>
    BY <1>2, Zenon DEF Write
  <2>3. ASSUME NEW j \in DOMAIN todo, todo[j] = Left PROVE Head(todo) = Left \/ LeftToCome'
    <3>1. CASE j = 1
      BY <2>1, <2>3, <3>1 DEF Cycle
    <3>2. CASE j # 1
      <4>1. j - 1 \in DOMAIN todo' /\ todo'[j - 1] = Left
        BY <2>1, <2>3, <3>2 DEF Cycle
      <4>2. QED
        BY <4>1 DEF LeftToCome
    <3>3. QED
      BY <3>1, <3>2
  <2>4. Head(todo) = Right => LeftToCome
    <3>1. 1 \in DOMAIN todo /\ todo[1] = Head(todo)
      BY <2>1 DEF Cycle
    <3>2. QED
      BY <3>1 DEF Cycle, LeftToCome
  <2>5. LeftToCome => enableV2I'["LEFT"] \/ LeftToCome'
    BY <1>0, <2>2, <2>3 DEF LeftToCome, Left
  <2>6. enableV2I["LEFT"] => enableV2I'["LEFT"]
    BY <1>0, <2>2
  <2>7. ASSUME NEW w \in Wheels, enableV2I'[w] \/ output'[w] # NoCurrent
        PROVE  enableV2I'["LEFT"] \/ LeftToCome'
    <3>1. CASE enableV2I[w] \/ output[w] # NoCurrent
      BY <2>5, <2>6, <3>1
    <3>2. CASE Head(todo) = <<"V2I", w>>
      BY <1>0, <2>2, <2>4, <2>5, <3>2 DEF Right
    <3>3. QED
      BY <2>1, <2>2, <2>7, <3>1, <3>2
  <2>8. QED
    BY <2>7
<1>3. CASE LGThread
  BY <1>3 DEF LGThread, Turn, HandOn, user, motor, LeftToCome
<1>4. CASE CopyTargets \/ Brake
  BY <1>4 DEF CopyTargets, Brake, user, LeftToCome
<1>5. CASE Cut
  <2>1. \A w \in Wheels : ~enableV2I'[w] /\ output'[w] = NoCurrent
    BY <1>5 DEF Cut, Both
  <2>2. QED
    BY <2>1
<1>6. CASE Motor
  <2>1. \A w \in Wheels : output'[w] # NoCurrent => enableV2I[w] \/ output[w] # NoCurrent
    BY <1>6 DEF Motor
  <2>2. enableV2I' = enableV2I /\ todo' = todo
    BY <1>6 DEF Motor, user
  <2>3. QED
    BY <2>1, <2>2 DEF LeftToCome
<1>7. CASE Rail \/ Slide \/ UNCHANGED vars
  BY <1>7 DEF Rail, Approach, Settle, Slide, vars, user, motor, LeftToCome
<1>8. QED
  BY <1>1, <1>2, <1>3, <1>4, <1>5, <1>6, <1>7 DEF Next, UserThread, SKDThread

(* While any wheel is enabled or driven, the flag the braking loop looks   *)
(* at is set, or the user is about to set it.                              *)
THEOREM LeftFlagTells == Spec => []IInv
<1>1. Init => IInv
  <2> SUFFICES ASSUME Init PROVE IInv
    OBVIOUS
  <2>1. Cycle
    BY DEF Init, Cycle, Orders, Relax
  <2>2. Typed
    BY AimsAre DEF Init, Typed, Both, Places
  <2>3. LeftTells
    BY DEF Init, LeftTells, Both
  <2>4. QED
    BY <2>1, <2>2, <2>3 DEF IInv
<1>2. IInv /\ [Next]_vars => IInv'
  BY CycleStep, TypedStep, LeftStep DEF IInv
<1>3. QED
  BY <1>1, <1>2, PTL DEF Spec

(* No wheel that is driven loses its current while both are fast, whatever *)
(* the order in which the user's flags and the thread's steps mix.         *)
THEOREM BrakedBeforeLetGo == Spec => BrakesFirst
<1> DEFINE Braked == (\E w \in Wheels : output[w] # NoCurrent /\ output'[w] = NoCurrent) => slow # {}
<1>1. IInv /\ [Next]_vars => [Braked]_vars
  <2> SUFFICES ASSUME IInv, [Next]_vars, NEW w \in Wheels,
                      output[w] # NoCurrent, output'[w] = NoCurrent
               PROVE  slow # {}
    OBVIOUS
  <2> USE DEF IInv
  <2>1. CASE Cut
    <3>1. braking => slow # {}
      BY <2>1 DEF Cut
    <3>2. ASSUME ~braking PROVE slow # {}
      <4>1. mode = "RELAX" /\ (enableV2I["LEFT"] => slow # {})
        BY <2>1, <3>2 DEF Cut
      <4>2. ~LeftToCome
        BY <4>1 DEF Cycle, LeftToCome
      <4>3. enableV2I["LEFT"]
        BY <4>2 DEF LeftTells
      <4>4. QED
        BY <4>1, <4>3
    <3>3. QED
      BY <3>1, <3>2
  <2>2. CASE Motor
    <3>1. targetV' \in [Wheels -> Aims]
      BY <2>2, AimsAre DEF Motor, Typed
    <3>2. output'[w] = output[w] \/ output'[w] = targetV'[w]
      BY <2>2 DEF Motor
    <3>3. QED
      BY <3>1, <3>2
  <2>3. CASE LGThread \/ UserThread
    BY <2>3 DEF LGThread, Turn, HandOn, UserThread, User, Write, motor
  <2>4. CASE CopyTargets \/ Brake \/ Rail \/ Slide \/ UNCHANGED vars
    BY <2>4 DEF CopyTargets, Brake, Rail, Approach, Settle, Slide, vars, motor
  <2>5. QED
    BY <2>1, <2>2, <2>3, <2>4 DEF Next, SKDThread
<1>2. QED
  BY LeftFlagTells, <1>1, PTL DEF Spec, BrakesFirst
-----------------------------------------------------------------------------
(* The types of what the proofs above had no need of.                      *)
InOrder == \E n \in 1..5 : todo = SubSeq(Flags(order), n, Len(Flags(order)))

Others ==
  /\ InOrder
  /\ targetPosition \in {0, Far} /\ targetA \in {0, Far}
  /\ braking \in BOOLEAN /\ enableA2V \in [Wheels -> BOOLEAN]
  /\ place \in Places /\ slow \subseteq Wheels

(* A cycle writes four flags at most.                                      *)
LEMMA FourFlags ==
  ASSUME NEW c \in Orders
  PROVE  Len(Flags(c)) \in {2, 4}
<1>1. PICK k : k = c[1]
  OBVIOUS
<1>2. k = "RELAX" \/ k = "AUTO" \/ k = "MANUAL"
  BY <1>1, OrdersAre
<1>3. QED
  BY <1>1, <1>2 DEF Flags

(* What is left of a cycle, before and after a write.                      *)
LEMMA InOrderStep ==
  ASSUME Cycle, InOrder, [Next]_vars
  PROVE  InOrder'
<1>1. ASSUME NEW c \in Orders, User(c) PROVE InOrder'
  <2>1. order' = c /\ todo' = Flags(c)
    BY <1>1 DEF User
  <2>2. PICK f : f = Flags(c)
    OBVIOUS
  <2>3. f \in Seq({"A2V", "V2I"} \X Wheels)
    BY <2>2, FlagsOfCycle
  <2>4. f = SubSeq(f, 1, Len(f))
    BY <2>3
  <2>5. todo' = SubSeq(f, 1, Len(f)) /\ 1 \in 1..5
    BY <2>1, <2>2, <2>4
  <2>6. f = Flags(order')
    BY <2>1, <2>2
  <2>7. QED
    BY <2>5, <2>6 DEF InOrder, Flags
<1>2. CASE Write
  <2>1. PICK n \in 1..5 : todo = SubSeq(Flags(order), n, Len(Flags(order)))
    BY DEF InOrder
  <2>2. PICK f : f = Flags(order)
    OBVIOUS
  <2>3. f \in Seq({"A2V", "V2I"} \X Wheels) /\ Len(f) \in {2, 4}
    BY <2>2, FlagsOfCycle, FourFlags DEF Cycle
  <2>4. todo = SubSeq(f, n, Len(f)) /\ todo # << >> /\ todo' = Tail(todo) /\ order' = order
    BY <1>2, <2>1, <2>2 DEF Write
  <2>5. n <= Len(f)
    BY <2>3, <2>4
  <2>6. n \in 1..Len(f) /\ Len(f) \in n..Len(f)
    BY <2>3, <2>5
  <2>7. todo' = SubSeq(f, n + 1, Len(f))
    BY <2>3, <2>4, <2>6, HeadTailOfSubSeq
  <2>8. n + 1 \in 1..5
    <3>1. PICK l : l = Len(f)
      OBVIOUS
    <3>2. n \in 1..l /\ l \in {2, 4}
      BY <2>3, <2>6, <3>1
    <3>3. QED
      BY <3>2
  <2>9. f = Flags(order')
    BY <2>2, <2>4
  <2>10. QED
    BY <2>7, <2>8, <2>9 DEF InOrder, Flags
<1>3. ASSUME UNCHANGED user PROVE InOrder'
  BY <1>3 DEF user, InOrder, Flags
<1>4. CASE LGThread \/ SKDThread \/ Motor \/ Rail \/ Slide \/ UNCHANGED vars
  <2>1. UNCHANGED user
    BY <1>4 DEF LGThread, Turn, HandOn, SKDThread, CopyTargets, Brake, Cut, Motor,
                Rail, Approach, Settle, Slide, vars
  <2>2. QED
    BY <1>3, <2>1
<1>5. QED
  BY <1>1, <1>2, <1>4 DEF Next, UserThread

(* Every step keeps the types of the others.                               *)
LEMMA OthersStep ==
  ASSUME Cycle, Typed, Others, [Next]_vars
  PROVE  Others'
<1>1. InOrder'
  BY InOrderStep DEF Others
<1>2. targetPosition' \in {0, Far} /\ targetA' \in {0, Far}
  <2>1. destination \in {0, Far} /\ targetPosition \in {0, Far} /\ targetA \in {0, Far}
    BY DEF Typed, Others
  <2>2. CASE UserThread \/ LGThread
    BY <2>1, <2>2 DEF UserThread, User, Write, LGThread, Turn, HandOn, skd, motor
  <2>3. CASE SKDThread \/ Motor
    BY <2>1, <2>3 DEF SKDThread, CopyTargets, Brake, Cut, Motor, skd
  <2>4. CASE Rail \/ Slide \/ UNCHANGED vars
    BY <2>1, <2>4 DEF Rail, Approach, Settle, Slide, vars, skd, motor
  <2>5. QED
    BY <2>2, <2>3, <2>4 DEF Next
<1>3. braking' \in BOOLEAN
  <2>1. braking' \in {braking, TRUE, FALSE}
    BY DEF Next, UserThread, User, Write, LGThread, Turn, HandOn, SKDThread, CopyTargets, Brake,
           Cut, Motor, Rail, Approach, Settle, Slide, vars, skd
  <2>2. QED
    BY <2>1, Zenon DEF Others
<1>4. enableA2V' \in [Wheels -> BOOLEAN]
  <2>1. enableA2V \in [Wheels -> BOOLEAN] /\ Both(FALSE) \in [Wheels -> BOOLEAN]
    BY Zenon DEF Others, Both
  <2>2. CASE Write
    BY <2>1, <2>2, Zenon DEF Write
  <2>3. CASE Cut \/ Brake
    BY <2>1, <2>3, Zenon DEF Cut, Brake
  <2>4. CASE ~Write /\ ~Cut /\ ~Brake
    <3>1. enableA2V' = enableA2V
      BY <2>4 DEF Next, UserThread, User, LGThread, Turn, HandOn, SKDThread, CopyTargets,
                  Motor, Rail, Approach, Settle, Slide, vars, motor
    <3>2. QED
      BY <2>1, <3>1
  <2>5. QED
    BY <2>2, <2>3, <2>4
<1>5. place' \in Places /\ slow' \subseteq Wheels
  <2>1. place \in Places /\ slow \subseteq Wheels
    BY DEF Others
  <2>2. CASE Approach
    BY <2>1, <2>2 DEF Approach, Places
  <2>3. CASE Settle \/ Slide
    BY <2>1, <2>3 DEF Settle, Slide, Held
  <2>4. CASE UserThread \/ LGThread \/ SKDThread \/ Motor \/ UNCHANGED vars
    BY <2>1, <2>4 DEF UserThread, User, Write, LGThread, Turn, HandOn, SKDThread, CopyTargets,
                      Brake, Cut, Motor, vars, plant
  <2>5. QED
    BY <2>2, <2>3, <2>4 DEF Next, Rail
<1>6. QED
  BY <1>1, <1>2, <1>3, <1>4, <1>5 DEF Others

(* Every variable stays within its type: the chassis on its rail, its      *)
(* destination at one of the ends, the flags of a cycle in their order.    *)
THEOREM Typing == Spec => []TypeOK
<1>1. Init => Others
  <2> SUFFICES ASSUME Init PROVE Others
    OBVIOUS
  <2>1. InOrder
    <3>1. PICK f : f = Flags(order)
      OBVIOUS
    <3>2. order \in Orders /\ todo = << >>
      BY DEF Init, Orders
    <3>3. f \in Seq({"A2V", "V2I"} \X Wheels) /\ Len(f) \in {2, 4}
      BY <3>1, <3>2, FlagsOfCycle, FourFlags
    <3>4. 5 \in Int /\ Len(f) \in Int /\ Len(f) < 5
      <4>1. PICK l : l = Len(f)
        OBVIOUS
      <4>2. l \in {2, 4}
        BY <3>3, <4>1
      <4>3. 5 \in Int /\ l \in Int /\ l < 5
        BY <4>2
      <4>4. QED
        BY <4>1, <4>3, Zenon
    <3>5. todo = SubSeq(f, 5, Len(f))
      BY <3>2, <3>4, SubSeqEmpty
    <3>6. 5 \in 1..5
      OBVIOUS
    <3>7. QED
      BY <3>1, <3>5, <3>6, Zenon DEF InOrder
  <2>2. braking \in BOOLEAN /\ enableA2V \in [Wheels -> BOOLEAN]
    BY Zenon DEF Init, Both
  <2>3. targetPosition \in {0, Far} /\ targetA \in {0, Far} /\ place \in Places /\ slow \subseteq Wheels
    BY DEF Init
  <2>4. QED
    BY <2>1, <2>2, <2>3 DEF Others
<1>2. IInv /\ Others /\ [Next]_vars => Others'
  BY OthersStep DEF IInv
<1>3. IInv /\ Others => TypeOK
  <2> SUFFICES ASSUME IInv, Others PROVE TypeOK
    OBVIOUS
  <2>1. order \in Orders /\ mode \in {"RELAX", "AUTO", "MANUAL"}
    BY OrdersAre DEF IInv, Cycle
  <2>2. QED
    BY <2>1, Zenon DEF IInv, Typed, Others, InOrder, TypeOK
<1>4. QED
  BY <1>1, <1>2, <1>3, LeftFlagTells, PTL DEF Spec
=============================================================================
