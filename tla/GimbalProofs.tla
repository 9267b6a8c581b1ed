---------------------------- MODULE GimbalProofs ----------------------------
(***************************************************************************)
(* The flags and the feedback of the gimbal, for every set of steps of the *)
(* target and all bounds.  The flags follow from how many of its writes    *)
(* the cycle of the user has made (FlagsFollow): each agrees with the mode *)
(* from its own write on, and the threads in between change only what the  *)
(* mode already has them change.  That a yaw keeps its direction follows   *)
(* from sums that agree modulo a turn (Directed).                          *)
(***************************************************************************)
EXTENDS Gimbal, SequenceTheorems, TLAPS

USE GimbalAssumption

-----------------------------------------------------------------------------
(* Where the user's cycle is.                                              *)
Made == Len(Writes(order[1])) - Len(todo)

Entries == {<<"MODE", "RELAX">>, <<"MODE", ref>>, <<"AIM">>, <<"CURRENT", NoCurrent>>}
             \cup (Tables \X BOOLEAN)

InCycle ==
  /\ order \in Orders /\ ref \in {"GIMBAL_REF", "CHASSIS_REF"}
  /\ Made \in 0..Len(Writes(order[1]))
  /\ todo = SubSeq(Writes(order[1]), Made + 1, Len(Writes(order[1])))

Says(write, table, value) == write[1] = table /\ write[2] = value

(* What is left of a sequence when its first n - 1 elements are gone.      *)
LEMMA Suffix ==
  ASSUME NEW S, NEW s \in Seq(S), NEW n \in 0..Len(s)
  PROVE  /\ SubSeq(s, n + 1, Len(s)) \in Seq(S)
         /\ Len(SubSeq(s, n + 1, Len(s))) = Len(s) - n
         /\ n < Len(s) => /\ Head(SubSeq(s, n + 1, Len(s))) = s[n + 1]
                          /\ Tail(SubSeq(s, n + 1, Len(s))) = SubSeq(s, n + 2, Len(s))
<1>1. n + 1 \in Int /\ Len(s) \in Int /\ \A i \in (n + 1)..Len(s) : s[i] \in S
  OBVIOUS
<1>2. /\ SubSeq(s, n + 1, Len(s)) \in Seq(S)
      /\ Len(SubSeq(s, n + 1, Len(s))) = IF n + 1 <= Len(s) THEN Len(s) - (n + 1) + 1 ELSE 0
  BY <1>1, SubSeqProperties
<1>3. Len(SubSeq(s, n + 1, Len(s))) = Len(s) - n
  BY <1>1, <1>2
<1>4. ASSUME n < Len(s)
      PROVE  /\ Head(SubSeq(s, n + 1, Len(s))) = s[n + 1]
             /\ Tail(SubSeq(s, n + 1, Len(s))) = SubSeq(s, n + 2, Len(s))
  <2>1. n + 1 \in 1..Len(s) /\ Len(s) \in (n + 1)..Len(s) /\ (n + 1) + 1 = n + 2
    BY <1>1, <1>4
  <2>2. /\ Head(SubSeq(s, n + 1, Len(s))) = s[n + 1]
        /\ Tail(SubSeq(s, n + 1, Len(s))) = SubSeq(s, (n + 1) + 1, Len(s))
    BY <2>1, HeadTailOfSubSeq
  <2>3. QED
    BY <2>1, <2>2
<1>5. QED
  BY <1>2, <1>3, <1>4

(* What an order asks for, and by how much it moves the target.            *)
LEMMA OrdersAre ==
  ASSUME NEW o \in Orders
  PROVE  o[1] \in {"RELAX", "DRIVE", "LEAVE"} /\ o[2] \in Int /\ (o[1] # "DRIVE" => o[2] = 0)
<1>1. o = <<"RELAX", 0>> \/ o = <<"LEAVE", 0>> \/ o \in {"DRIVE"} \X Steps
  BY DEF Orders
<1>2. CASE o = <<"RELAX", 0>>
  BY <1>2
<1>3. CASE o = <<"LEAVE", 0>>
  BY <1>3
<1>4. CASE o \in {"DRIVE"} \X Steps
  BY <1>4
<1>5. QED
  BY <1>1, <1>2, <1>3, <1>4

(* The writes of each order, and that each is an entry.                    *)
LEMMA WritesOfRelax ==
  /\ Writes("RELAX") \in Seq(Entries) /\ Len(Writes("RELAX")) = 4
  /\ Says(Writes("RELAX")[1], "MODE", "RELAX")
  /\ Says(Writes("RELAX")[2], "A2V", FALSE)
  /\ Says(Writes("RELAX")[3], "V2I", FALSE)
  /\ Says(Writes("RELAX")[4], "CURRENT", NoCurrent)
<1>1. PICK a : a = <<"MODE", "RELAX">>
  OBVIOUS
<1>2. PICK b : b = <<"A2V", FALSE>>
  OBVIOUS
<1>3. PICK c : c = <<"V2I", FALSE>>
  OBVIOUS
<1>4. PICK d : d = <<"CURRENT", NoCurrent>>
  OBVIOUS
<1>5. a \in Entries /\ b \in Entries /\ c \in Entries /\ d \in Entries
  BY <1>1, <1>2, <1>3, <1>4 DEF Entries, Tables
<1>6. Release = <<b, c, d>>
  BY <1>2, <1>3, <1>4, Zenon DEF Release
<1>7. Writes("RELAX") = <<<<"MODE", "RELAX">>>> \o Release
  BY DEF Writes
<1>8. PICK w : w = Writes("RELAX")
  OBVIOUS
<1>9. w = <<a>> \o <<b, c, d>>
  BY <1>1, <1>6, <1>7, <1>8, Zenon
<1>10. w \in Seq(Entries) /\ Len(w) = 4 /\ w[1] = a /\ w[2] = b /\ w[3] = c /\ w[4] = d
  BY <1>5, <1>9
<1>11. /\ Says(a, "MODE", "RELAX") /\ Says(b, "A2V", FALSE) /\ Says(c, "V2I", FALSE)
       /\ Says(d, "CURRENT", NoCurrent)
  BY <1>1, <1>2, <1>3, <1>4 DEF Says
<1>12. QED
  BY <1>8, <1>10, <1>11, Zenon

(* The writes with which the driver takes over.                            *)
LEMMA WritesOfDrive ==
  /\ Writes("DRIVE") \in Seq(Entries) /\ Len(Writes("DRIVE")) = 6
  /\ Says(Writes("DRIVE")[1], "MODE", ref)
  /\ Says(Writes("DRIVE")[2], "ANGLE", ref = "GIMBAL_REF")
  /\ Says(Writes("DRIVE")[3], "VELOCITY", ref = "GIMBAL_REF")
  /\ Says(Writes("DRIVE")[4], "A2V", TRUE)
  /\ Says(Writes("DRIVE")[5], "V2I", TRUE)
  /\ Writes("DRIVE")[6][1] = "AIM"
<1>1. PICK a : a = <<"MODE", ref>>
  OBVIOUS
<1>2. PICK b : b = <<"ANGLE", ref = "GIMBAL_REF">>
  BY Zenon
<1>3. PICK c : c = <<"VELOCITY", ref = "GIMBAL_REF">>
  BY Zenon
<1>4. PICK d : d = <<"A2V", TRUE>>
  OBVIOUS
<1>5. PICK e : e = <<"V2I", TRUE>>
  OBVIOUS
<1>6. PICK f : f = <<"AIM">>
  BY Zenon
<1>7. /\ a \in Entries /\ b \in Entries /\ c \in Entries
      /\ d \in Entries /\ e \in Entries /\ f \in Entries
  <2>1. a \in Entries
    BY <1>1 DEF Entries
  <2>2. f \in Entries
    BY <1>6, Zenon DEF Entries
  <2>3. d \in Entries /\ e \in Entries
    BY <1>4, <1>5 DEF Entries, Tables
  <2>4. \A own \in BOOLEAN : <<"ANGLE", own>> \in Entries /\ <<"VELOCITY", own>> \in Entries
    BY DEF Entries, Tables
  <2>5. (ref = "GIMBAL_REF") \in BOOLEAN
    BY Zenon
  <2>6. b \in Entries /\ c \in Entries
    BY <1>2, <1>3, <2>4, <2>5, Zenon
  <2>7. QED
    BY <2>1, <2>2, <2>3, <2>6
<1>8. Register = <<b, c>> /\ Enable = <<d, e>>
  BY <1>2, <1>3, <1>4, <1>5, Zenon DEF Register, Enable
<1>9. PICK w : w = Writes("DRIVE")
  OBVIOUS
<1>10. w = <<<<"MODE", ref>>>> \o Register \o Enable \o <<<<"AIM">>>>
  BY <1>9, Zenon DEF Writes
<1>11. w = <<a>> \o <<b, c>> \o <<d, e>> \o <<f>>
  BY <1>1, <1>6, <1>8, <1>10, Zenon
<1>12. /\ w \in Seq(Entries) /\ Len(w) = 6
       /\ w[1] = a /\ w[2] = b /\ w[3] = c /\ w[4] = d /\ w[5] = e /\ w[6] = f
  BY <1>7, <1>11
<1>13. Says(a, "MODE", ref) /\ Says(d, "A2V", TRUE) /\ Says(e, "V2I", TRUE) /\ f[1] = "AIM"
  BY <1>1, <1>4, <1>5, <1>6 DEF Says
<1>14. Says(b, "ANGLE", ref = "GIMBAL_REF") /\ Says(c, "VELOCITY", ref = "GIMBAL_REF")
  <2>1. \A own \in BOOLEAN : /\ Says(<<"ANGLE", own>>, "ANGLE", own)
                            /\ Says(<<"VELOCITY", own>>, "VELOCITY", own)
    BY DEF Says
  <2>2. (ref = "GIMBAL_REF") \in BOOLEAN
    BY Zenon
  <2>3. QED
    BY <1>2, <1>3, <2>1, <2>2, Zenon
<1>15. QED
  BY <1>9, <1>12, <1>13, <1>14, Zenon

(* The right button of the mouse: nothing is written.                      *)
LEMMA WritesOfLeave == Writes("LEAVE") \in Seq(Entries) /\ Len(Writes("LEAVE")) = 0
<1>1. Writes("LEAVE") = << >>
  BY DEF Writes
<1>2. << >> \in Seq(Entries) /\ Len(<< >>) = 0
  OBVIOUS
<1>3. QED
  BY <1>1, <1>2, Zenon

(* The writes of a cycle are entries, whatever its order.                  *)
LEMMA WritesTyped ==
  ASSUME InCycle
  PROVE  Writes(order[1]) \in Seq(Entries)
<1>1. order[1] = "RELAX" \/ order[1] = "DRIVE" \/ order[1] = "LEAVE"
  BY OrdersAre DEF InCycle
<1>2. QED
  BY <1>1, WritesOfRelax, WritesOfDrive, WritesOfLeave, Zenon

(* The next write, from how many have been made.                           *)
LEMMA NextWrite ==
  ASSUME InCycle, todo # << >>
  PROVE  /\ Made \in Nat
         /\ \/ /\ order[1] = "RELAX"
               /\ \/ Made = 0 /\ Says(Head(todo), "MODE", "RELAX")
                  \/ Made = 1 /\ Says(Head(todo), "A2V", FALSE)
                  \/ Made = 2 /\ Says(Head(todo), "V2I", FALSE)
                  \/ Made = 3 /\ Says(Head(todo), "CURRENT", NoCurrent)
            \/ /\ order[1] = "DRIVE"
               /\ \/ Made = 0 /\ Says(Head(todo), "MODE", ref)
                  \/ Made = 1 /\ Says(Head(todo), "ANGLE", ref = "GIMBAL_REF")
                  \/ Made = 2 /\ Says(Head(todo), "VELOCITY", ref = "GIMBAL_REF")
                  \/ Made = 3 /\ Says(Head(todo), "A2V", TRUE)
                  \/ Made = 4 /\ Says(Head(todo), "V2I", TRUE)
                  \/ Made = 5 /\ Head(todo)[1] = "AIM"
<1>1. PICK w : w = Writes(order[1])
  OBVIOUS
<1>2. PICK k : k = Made
  OBVIOUS
<1>3. PICK h : h = Head(todo)
  OBVIOUS
<1>4. w \in Seq(Entries) /\ k \in 0..Len(w) /\ todo = SubSeq(w, k + 1, Len(w))
  BY <1>1, <1>2, WritesTyped DEF InCycle
<1>5. k < Len(w) /\ h = w[k + 1]
  <2>1. Len(todo) = Len(w) - k /\ todo \in Seq(Entries)
    BY <1>4, Suffix
  <2>2. k < Len(w)
    BY <1>4, <2>1
  <2>3. QED
    BY <1>3, <1>4, <2>2, Suffix
<1>6. order[1] = "RELAX" \/ order[1] = "DRIVE" \/ order[1] = "LEAVE"
  BY OrdersAre DEF InCycle
<1>7. ASSUME order[1] = "RELAX"
      PROVE  \/ k = 0 /\ Says(h, "MODE", "RELAX")
             \/ k = 1 /\ Says(h, "A2V", FALSE)
             \/ k = 2 /\ Says(h, "V2I", FALSE)
             \/ k = 3 /\ Says(h, "CURRENT", NoCurrent)
  <2>1. w = Writes("RELAX")
    BY <1>1, <1>7
  <2>2. Len(w) = 4
    BY <2>1, WritesOfRelax, Zenon
  <2> k \in 0..3
    BY <1>4, <1>5, <2>2
  <2>3. \/ k = 0 /\ k + 1 = 1
        \/ k = 1 /\ k + 1 = 2
        \/ k = 2 /\ k + 1 = 3
        \/ k = 3 /\ k + 1 = 4
    OBVIOUS
  <2>4. \/ k = 0 /\ h = w[1]
        \/ k = 1 /\ h = w[2]
        \/ k = 2 /\ h = w[3]
        \/ k = 3 /\ h = w[4]
    BY <1>5, <2>3, Zenon
  <2>5. QED
    BY <2>1, <2>4, WritesOfRelax, Zenon
<1>8. ASSUME order[1] = "DRIVE"
      PROVE  \/ k = 0 /\ Says(h, "MODE", ref)
             \/ k = 1 /\ Says(h, "ANGLE", ref = "GIMBAL_REF")
             \/ k = 2 /\ Says(h, "VELOCITY", ref = "GIMBAL_REF")
             \/ k = 3 /\ Says(h, "A2V", TRUE)
             \/ k = 4 /\ Says(h, "V2I", TRUE)
             \/ k = 5 /\ h[1] = "AIM"
  <2>1. w = Writes("DRIVE")
    BY <1>1, <1>8
  <2>2. Len(w) = 6
    BY <2>1, WritesOfDrive, Zenon
  <2> k \in 0..5
    BY <1>4, <1>5, <2>2
  <2>3. \/ k = 0 /\ k + 1 = 1
        \/ k = 1 /\ k + 1 = 2
        \/ k = 2 /\ k + 1 = 3
        \/ k = 3 /\ k + 1 = 4
        \/ k = 4 /\ k + 1 = 5
        \/ k = 5 /\ k + 1 = 6
    OBVIOUS
  <2>4. \/ k = 0 /\ h = w[1]
        \/ k = 1 /\ h = w[2]
        \/ k = 2 /\ h = w[3]
        \/ k = 3 /\ h = w[4]
        \/ k = 4 /\ h = w[5]
        \/ k = 5 /\ h = w[6]
    BY <1>5, <2>3, Zenon
  <2>5. QED
    BY <2>1, <2>4, WritesOfDrive, Zenon
<1>9. order[1] # "LEAVE"
  <2> SUFFICES ASSUME order[1] = "LEAVE" PROVE FALSE
    OBVIOUS
  <2>1. Len(w) = 0
    BY <1>1, WritesOfLeave, Zenon
  <2>2. QED
    BY <1>4, <1>5, <2>1
<1>10. k \in Nat
  BY <1>4
<1>11. QED
  BY <1>2, <1>3, <1>6, <1>7, <1>8, <1>9, <1>10, Zenon

(* A write brings the cycle one further, and everything else leaves it.    *)
LEMMA WriteAdvances ==
  ASSUME InCycle, todo # << >>, todo' = Tail(todo), order' = order, ref' = ref
  PROVE  InCycle' /\ Made' = Made + 1
<1>1. PICK w : w = Writes(order[1])
  OBVIOUS
<1>2. w = Writes(order[1])'
  BY <1>1 DEF Writes, Release, Register, Enable
<1>3. PICK k : k = Made
  OBVIOUS
<1>4. w \in Seq(Entries) /\ k \in 0..Len(w) /\ todo = SubSeq(w, k + 1, Len(w))
  BY <1>1, <1>3, WritesTyped DEF InCycle
<1>5. k < Len(w) /\ Len(todo) = Len(w) - k
  <2>1. Len(todo) = Len(w) - k /\ todo \in Seq(Entries)
    BY <1>4, Suffix
  <2>2. QED
    BY <1>4, <2>1
<1>6. todo' = SubSeq(w, k + 2, Len(w))
  BY <1>4, <1>5, Suffix
<1>7. k + 1 \in 0..Len(w) /\ k + 2 = (k + 1) + 1
  BY <1>4, <1>5
<1>8. Len(todo') = Len(w) - (k + 1)
  BY <1>4, <1>6, <1>7, Suffix
<1>9. Made' = Len(w) - Len(todo')
  BY <1>2 DEF Made
<1>10. Made' = k + 1
  BY <1>4, <1>7, <1>8, <1>9
<1>11. QED
  BY <1>2, <1>3, <1>6, <1>7, <1>10 DEF InCycle

-----------------------------------------------------------------------------
(* The flags, by how many of its writes the cycle has made.                *)
Settled ==
  IF mode = "RELAX"
  THEN ~flag["V2I"] /\ output = NoCurrent
  ELSE /\ flag["A2V"] /\ flag["V2I"]
       /\ (flag["ANGLE"] /\ flag["VELOCITY"]) = (ref = "GIMBAL_REF")

Heard == ref = "GIMBAL_REF" /\ flag["V2I"] => flag["ANGLE"] /\ flag["VELOCITY"]

Letting ==   \* the driver lets go
  \/ Made = 0 /\ Settled
  \/ Made \in {1, 2} /\ mode = "RELAX"
  \/ Made = 3 /\ mode = "RELAX" /\ ~flag["V2I"]
  \/ Made = 4 /\ mode = "RELAX" /\ ~flag["V2I"] /\ output = NoCurrent

Own(table) == flag[table] = (ref = "GIMBAL_REF")

Taking ==    \* the driver takes over
  \/ Made = 0 /\ Settled
  \/ Made = 1 /\ mode = ref
  \/ Made = 2 /\ mode = ref /\ Own("ANGLE")
  \/ Made = 3 /\ mode = ref /\ Own("ANGLE") /\ Own("VELOCITY")
  \/ Made = 4 /\ mode = ref /\ Own("ANGLE") /\ Own("VELOCITY") /\ flag["A2V"]
  \/ Made \in {5, 6} /\ mode = ref /\ Own("ANGLE") /\ Own("VELOCITY") /\ flag["A2V"] /\ flag["V2I"]

FlagsFollow ==
  /\ InCycle
  /\ mode \in {"RELAX", ref} /\ flag \in [Tables -> BOOLEAN]
  /\ Heard
  /\ order[1] = "RELAX" => Letting
  /\ order[1] = "DRIVE" => Taking
  /\ order[1] = "LEAVE" => Settled
(* A cycle that has made its writes leaves the gimbal in force.            *)
LEMMA CycleOver ==
  ASSUME FlagsFollow, todo = << >>
  PROVE  Settled
<1> USE DEF FlagsFollow, InCycle
<1>1. order[1] = "RELAX" \/ order[1] = "DRIVE" \/ order[1] = "LEAVE"
  BY OrdersAre
<1>2. CASE order[1] = "LEAVE"
  BY <1>2
<1>3. PICK n : n = Len(Writes(order[1]))
  OBVIOUS
<1>4. CASE order[1] = "RELAX"
  <2>1. n = 4
    BY <1>3, <1>4, WritesOfRelax, Zenon
  <2>2. Made = 4
    BY <1>3, <2>1 DEF Made
  <2>3. Made # 0 /\ Made \notin {1, 2} /\ Made # 3
    BY <2>2
  <2>4. mode = "RELAX" /\ ~flag["V2I"] /\ output = NoCurrent
    BY <1>4, <2>3, Zenon DEF Letting
  <2>5. QED
    BY <2>4, Zenon DEF Settled
<1>5. CASE order[1] = "DRIVE"
  <2>1. n = 6
    BY <1>3, <1>5, WritesOfDrive, Zenon
  <2>2. Made = 6
    BY <1>3, <2>1 DEF Made
  <2>3. Made # 0 /\ Made # 1 /\ Made # 2 /\ Made # 3 /\ Made # 4
    BY <2>2
  <2>4. mode = ref /\ Own("ANGLE") /\ Own("VELOCITY") /\ flag["A2V"] /\ flag["V2I"]
    BY <1>5, <2>3, Zenon DEF Taking
  <2>5. ref # "RELAX"
    OBVIOUS
  <2>6. QED
    BY <2>4, <2>5, Zenon DEF Settled, Own
<1>6. QED
  BY <1>1, <1>2, <1>4, <1>5

(* A step that leaves the cycle where it is.                               *)
LEMMA CycleStays ==
  ASSUME InCycle, UNCHANGED <<ref, order, todo>>
  PROVE  InCycle' /\ Made' = Made
<1>1. Writes(order[1])' = Writes(order[1])
  BY DEF Writes, Release, Register, Enable
<1>2. Made' = Made
  BY <1>1 DEF Made
<1>3. QED
  BY <1>1, <1>2 DEF InCycle

(* A flag set, and the others as they were.                                *)
LEMMA FlagTables ==
  ASSUME NEW f \in [Tables -> BOOLEAN], NEW t \in Tables, NEW b \in BOOLEAN
  PROVE  /\ [f EXCEPT ![t] = b] \in [Tables -> BOOLEAN]
         /\ [f EXCEPT ![t] = b][t] = b
         /\ \A u \in Tables : u # t => [f EXCEPT ![t] = b][u] = f[u]
  BY Zenon

(* Every step has the flags follow from the writes made.                   *)
LEMMA FlagStep ==
  ASSUME FlagsFollow, [Next]_vars
  PROVE  FlagsFollow'
<1> USE DEF FlagsFollow
<1>0. /\ "ANGLE" \in Tables /\ "VELOCITY" \in Tables /\ "A2V" \in Tables /\ "V2I" \in Tables
      /\ "MODE" \notin Tables /\ "CURRENT" \notin Tables /\ "AIM" \notin Tables
      /\ ref # "RELAX"
  BY DEF Tables, InCycle
<1>1. CASE UNCHANGED vars
  <2>1. UNCHANGED <<ref, order, todo, mode, flag, output>>
    BY <1>1 DEF vars, user, skd, motor
  <2>2. InCycle' /\ Made' = Made
    BY <2>1, CycleStays
  <2>3. QED
    BY <2>1, <2>2, Zenon DEF Heard, Letting, Taking, Settled, Own
<1>2. ASSUME NEW o \in Orders, Cycle(o)
      PROVE  FlagsFollow'
  <2>1. /\ todo = << >> /\ order' = o /\ todo' = Writes(o[1])
        /\ UNCHANGED <<ref, mode, flag, output>>
    BY <1>2 DEF Cycle, skd, motor
  <2>2. Settled
    BY <2>1, CycleOver
  <2>3. Settled' /\ Heard'
    BY <2>1, <2>2, Zenon DEF Settled, Heard
  <2>4. PICK w : w = Writes(o[1])
    OBVIOUS
  <2>5. w = Writes(order[1])'
    BY <2>1, <2>4 DEF Writes, Release, Register, Enable
  <2>6. w \in Seq(Entries)
    <3>1. o[1] = "RELAX" \/ o[1] = "DRIVE" \/ o[1] = "LEAVE"
      BY OrdersAre
    <3>2. QED
      BY <2>4, <3>1, WritesOfRelax, WritesOfDrive, WritesOfLeave, Zenon
  <2>7. Made' = 0 /\ Len(w) \in Nat
    BY <2>1, <2>4, <2>5, <2>6 DEF Made
  <2>8. todo' = SubSeq(w, 0 + 1, Len(w))
    <3>1. todo' = w
      BY <2>1, <2>4
    <3>2. SubSeq(w, 1, Len(w)) = w
      BY <2>6
    <3>3. QED
      BY <3>1, <3>2
  <2>9. InCycle'
    BY <2>1, <2>5, <2>7, <2>8 DEF InCycle
  <2>10. QED
    BY <2>1, <2>3, <2>7, <2>9, Zenon DEF Letting, Taking
<1>3. ASSUME NEW tables, Writing(tables), UNCHANGED <<ref, order>>
      PROVE  /\ InCycle' /\ Made' = Made + 1 /\ Made \in Nat /\ todo # << >> /\ InCycle
             /\ Head(todo)[1] \in tables
  <2>1. todo # << >> /\ todo' = Tail(todo) /\ Head(todo)[1] \in tables
    BY <1>3 DEF Writing
  <2>2. QED
    BY <1>3, <2>1, WriteAdvances, NextWrite
<1>4. CASE WriteMode
  <2>1. /\ Writing({"MODE"}) /\ mode' = Head(todo)[2]
        /\ UNCHANGED <<ref, order, flag, output>>
    BY <1>4 DEF WriteMode, motor
  <2>2. InCycle' /\ Made' = Made + 1 /\ todo # << >> /\ Head(todo)[1] = "MODE"
    BY <1>3, <2>1
  <2>3. CASE order[1] = "RELAX"
    <3>1. Made = 0 /\ Says(Head(todo), "MODE", "RELAX")
      BY <1>3, <2>1, <2>2, <2>3, NextWrite DEF Says
    <3>2. Made' = 1 /\ mode' = "RELAX" /\ order[1]' = "RELAX"
      BY <2>1, <2>2, <2>3, <3>1 DEF Says
    <3>3. QED
      BY <2>1, <2>2, <3>2 DEF Letting, Heard
  <2>4. CASE order[1] = "DRIVE"
    <3>1. Made = 0 /\ Says(Head(todo), "MODE", ref)
      BY <1>3, <2>1, <2>2, <2>4, NextWrite DEF Says
    <3>2. Made' = 1 /\ mode' = ref /\ order[1]' = "DRIVE"
      BY <2>1, <2>2, <2>4, <3>1 DEF Says
    <3>3. QED
      BY <2>1, <2>2, <3>2 DEF Taking, Heard
  <2>5. QED
    BY <2>2, <2>3, <2>4, NextWrite
<1>5. CASE WriteFlag
  <2>1. /\ Writing(Tables) /\ flag' = [flag EXCEPT ![Head(todo)[1]] = Head(todo)[2]]
        /\ UNCHANGED <<ref, order, mode, output>>
    BY <1>5 DEF WriteFlag, skd
  <2>2. InCycle' /\ Made' = Made + 1 /\ todo # << >> /\ Head(todo)[1] \in Tables
    BY <1>3, <2>1
  <2>3. PICK t, b : Says(Head(todo), t, b)
    BY Zenon DEF Says
  <2>4. t \in Tables /\ flag' = [flag EXCEPT ![t] = b]
    BY <2>1, <2>2, <2>3, Zenon DEF Says
  <2>5. CASE order[1] = "RELAX"
    <3>10. \/ Made = 1 /\ t = "A2V" /\ b = FALSE
           \/ Made = 2 /\ t = "V2I" /\ b = FALSE
      BY <1>0, <2>2, <2>3, <2>4, <2>5, NextWrite, Zenon DEF Says
    <3>11. (Made = 1 => Made' = 2) /\ (Made = 2 => Made' = 3)
      BY <2>2
    <3>1. \/ Made = 1 /\ Made' = 2 /\ t = "A2V" /\ b = FALSE
          \/ Made = 2 /\ Made' = 3 /\ t = "V2I" /\ b = FALSE
      BY <3>10, <3>11, Zenon
    <3>2. /\ Made \in {1, 2} => Made # 0 /\ Made # 3 /\ Made # 4
          /\ Made' \in {2, 3} => Made' # 0 /\ Made' # 1 /\ Made' # 4
          /\ order[1]' = "RELAX"
      BY <2>1, <2>5
    <3>3. mode' = "RELAX"
      BY <2>1, <2>5, <3>1, <3>2, Zenon DEF Letting
    <3>4. /\ flag' \in [Tables -> BOOLEAN] /\ flag'[t] = FALSE
          /\ \A u \in Tables : u # t => flag'[u] = flag[u]
      BY <2>4, <3>1, FlagTables, Zenon
    <3>5. Heard'
      BY <1>0, <2>1, <3>1, <3>4, Zenon DEF Heard
    <3>6. Letting'
      BY <3>1, <3>3, <3>4, Zenon DEF Letting
    <3>7. QED
      BY <2>1, <2>2, <3>2, <3>3, <3>4, <3>5, <3>6, Zenon
  <2>6. CASE order[1] = "DRIVE"
    <3>1. \/ Made = 1 /\ Made' = 2 /\ t = "ANGLE" /\ b = (ref = "GIMBAL_REF")
          \/ Made = 2 /\ Made' = 3 /\ t = "VELOCITY" /\ b = (ref = "GIMBAL_REF")
          \/ Made = 3 /\ Made' = 4 /\ t = "A2V" /\ b = TRUE
          \/ Made = 4 /\ Made' = 5 /\ t = "V2I" /\ b = TRUE
      <4>1. \/ Made = 1 /\ t = "ANGLE" /\ b = (ref = "GIMBAL_REF")
            \/ Made = 2 /\ t = "VELOCITY" /\ b = (ref = "GIMBAL_REF")
            \/ Made = 3 /\ t = "A2V" /\ b = TRUE
            \/ Made = 4 /\ t = "V2I" /\ b = TRUE
        BY <1>0, <2>2, <2>3, <2>4, <2>6, NextWrite, Zenon DEF Says
      <4>2. /\ (Made = 1 => Made' = 2) /\ (Made = 2 => Made' = 3)
            /\ (Made = 3 => Made' = 4) /\ (Made = 4 => Made' = 5)
        BY <2>2
      <4>3. QED
        BY <4>1, <4>2, Zenon
    <3>2. /\ Made = 1 => Made # 0 /\ Made # 2 /\ Made # 3 /\ Made # 4 /\ Made \notin {5, 6}
          /\ Made = 2 => Made # 0 /\ Made # 1 /\ Made # 3 /\ Made # 4 /\ Made \notin {5, 6}
          /\ Made = 3 => Made # 0 /\ Made # 1 /\ Made # 2 /\ Made # 4 /\ Made \notin {5, 6}
          /\ Made = 4 => Made # 0 /\ Made # 1 /\ Made # 2 /\ Made # 3 /\ Made \notin {5, 6}
          /\ order[1]' = "DRIVE"
      BY <2>1, <2>6
    <3>3. mode' = ref /\ mode' = ref'
      BY <2>1, <2>6, <3>1, <3>2, Zenon DEF Taking
    <3>4. b \in BOOLEAN
      BY <3>1, Zenon
    <3>5. /\ flag' \in [Tables -> BOOLEAN] /\ flag'[t] = b
          /\ \A u \in Tables : u # t => flag'[u] = flag[u]
      <4>1. flag \in [Tables -> BOOLEAN] /\ t \in Tables /\ b \in BOOLEAN
        BY <2>4, <3>4, Zenon
      <4>2. PICK g : g = flag'
        BY Zenon
      <4>3. g = [flag EXCEPT ![t] = b]
        BY <2>4, <4>2, Zenon
      <4>4. /\ g \in [Tables -> BOOLEAN] /\ g[t] = b
            /\ \A u \in Tables : u # t => g[u] = flag[u]
        BY <4>1, <4>3, Zenon
      <4>5. QED
        BY <4>2, <4>4, Zenon
    <3>6. /\ "ANGLE" # "VELOCITY" /\ "ANGLE" # "A2V" /\ "ANGLE" # "V2I"
          /\ "VELOCITY" # "A2V" /\ "VELOCITY" # "V2I" /\ "A2V" # "V2I"
      OBVIOUS
    <3>7. CASE Made = 1
      <4>1. Made' = 2 /\ t = "ANGLE" /\ b = (ref = "GIMBAL_REF")
        BY <3>1, <3>2, <3>7, Zenon
      <4>2. Own("ANGLE")'
        BY <2>1, <3>5, <4>1, Zenon DEF Own
      <4>3. Heard'
        BY <1>0, <2>1, <3>5, <3>6, <4>1, Zenon DEF Heard
      <4>4. QED
        BY <2>1, <2>2, <3>2, <3>3, <3>5, <4>1, <4>2, <4>3, Zenon DEF Taking
    <3>8. CASE Made = 2
      <4>1. Made' = 3 /\ t = "VELOCITY" /\ b = (ref = "GIMBAL_REF") /\ Own("ANGLE")
        BY <2>6, <3>1, <3>2, <3>8, Zenon DEF Taking
      <4>2. Own("VELOCITY")' /\ Own("ANGLE")'
        BY <1>0, <2>1, <3>5, <3>6, <4>1, Zenon DEF Own
      <4>3. Heard'
        BY <1>0, <2>1, <3>5, <3>6, <4>1, Zenon DEF Heard
      <4>4. QED
        BY <2>1, <2>2, <3>2, <3>3, <3>5, <4>1, <4>2, <4>3, Zenon DEF Taking
    <3>9. CASE Made = 3
      <4>1. Made' = 4 /\ t = "A2V" /\ b = TRUE /\ Own("ANGLE") /\ Own("VELOCITY")
        BY <2>6, <3>1, <3>2, <3>9, Zenon DEF Taking
      <4>2. Own("VELOCITY")' /\ Own("ANGLE")' /\ flag["A2V"]'
        BY <1>0, <2>1, <3>5, <3>6, <4>1, Zenon DEF Own
      <4>3. Heard'
        BY <1>0, <2>1, <3>5, <3>6, <4>1, Zenon DEF Heard
      <4>4. QED
        BY <2>1, <2>2, <3>2, <3>3, <3>5, <4>1, <4>2, <4>3, Zenon DEF Taking
    <3>10. CASE Made = 4
      <4>1. /\ Made' = 5 /\ t = "V2I" /\ b = TRUE
            /\ Own("ANGLE") /\ Own("VELOCITY") /\ flag["A2V"]
        BY <2>6, <3>1, <3>2, <3>10, Zenon DEF Taking
      <4>2. Own("VELOCITY")' /\ Own("ANGLE")' /\ flag["A2V"]' /\ flag["V2I"]'
        BY <1>0, <2>1, <3>5, <3>6, <4>1, Zenon DEF Own
      <4>3. Heard'
        BY <4>2, Zenon DEF Heard, Own
      <4>4. Made' \in {5, 6}
        BY <4>1
      <4>5. QED
        BY <2>1, <2>2, <3>2, <3>3, <3>5, <4>2, <4>3, <4>4, Zenon DEF Taking
    <3>11. QED
      BY <3>1, <3>7, <3>8, <3>9, <3>10, Zenon
  <2>7. QED
    BY <2>2, <2>5, <2>6, NextWrite
<1>6. CASE WriteCurrent
  <2>1. /\ Writing({"CURRENT"}) /\ output' = Head(todo)[2]
        /\ UNCHANGED <<ref, order, mode, flag>>
    BY <1>6 DEF WriteCurrent, skd
  <2>2. InCycle' /\ Made' = Made + 1 /\ todo # << >> /\ Head(todo)[1] = "CURRENT"
    BY <1>3, <2>1
  <2>10. order[1] = "RELAX" /\ Made = 3 /\ Head(todo)[2] = NoCurrent
    BY <2>2, NextWrite, Zenon DEF Says
  <2>3. order[1] = "RELAX" /\ Made = 3 /\ Made' = 4 /\ Head(todo)[2] = NoCurrent
    BY <2>2, <2>10
  <2>4. Made # 0 /\ Made \notin {1, 2} /\ Made # 4
    BY <2>3
  <2>5. mode' = "RELAX" /\ ~flag'["V2I"] /\ output' = NoCurrent
    BY <2>1, <2>3, <2>4, Zenon DEF Letting
  <2>6. order[1]' = "RELAX"
    BY <2>1, <2>3
  <2>7. QED
    BY <2>1, <2>2, <2>3, <2>5, <2>6, Zenon DEF Letting, Heard
<1>7. CASE Aim
  <2>1. Writing({"AIM"}) /\ UNCHANGED <<ref, order, mode, flag, output>>
    BY <1>7 DEF Aim, motor
  <2>2. InCycle' /\ Made' = Made + 1 /\ todo # << >> /\ Head(todo)[1] = "AIM"
    BY <1>3, <2>1
  <2>10. order[1] = "DRIVE" /\ Made = 5
    BY <2>2, NextWrite, Zenon DEF Says
  <2>3. order[1] = "DRIVE" /\ Made = 5 /\ Made' = 6
    BY <2>2, <2>10
  <2>4. /\ Made # 0 /\ Made # 1 /\ Made # 2 /\ Made # 3 /\ Made # 4 /\ Made' \in {5, 6}
        /\ order[1]' = "DRIVE"
    BY <2>1, <2>3
  <2>5. mode = ref /\ Own("ANGLE") /\ Own("VELOCITY") /\ flag["A2V"] /\ flag["V2I"]
    BY <2>3, <2>4, Zenon DEF Taking
  <2>6. Taking'
    BY <2>1, <2>4, <2>5, Zenon DEF Taking, Own
  <2>7. QED
    BY <2>1, <2>2, <2>4, <2>6, Zenon DEF Heard
<1>8. ASSUME UNCHANGED <<ref, order, todo, mode, flag, output>>
      PROVE  FlagsFollow'
  <2>1. InCycle' /\ Made' = Made
    BY <1>8, CycleStays
  <2>2. QED
    BY <1>8, <2>1, Zenon DEF Heard, Letting, Taking, Settled, Own
<1>9. CASE Relaxed
  <2>1. /\ mode = "RELAX" /\ flag' = [flag EXCEPT !["V2I"] = FALSE] /\ output' = NoCurrent
        /\ UNCHANGED <<ref, order, todo, mode>>
    BY <1>9 DEF Relaxed, skd, user
  <2>2. InCycle' /\ Made' = Made
    BY <2>1, CycleStays
  <2>3. /\ flag' \in [Tables -> BOOLEAN] /\ ~flag'["V2I"]
        /\ \A u \in Tables : u # "V2I" => flag'[u] = flag[u]
    <3>1. FALSE \in BOOLEAN /\ flag \in [Tables -> BOOLEAN]
      BY Zenon
    <3>2. /\ flag' \in [Tables -> BOOLEAN] /\ flag'["V2I"] = FALSE
          /\ \A u \in Tables : u # "V2I" => flag'[u] = flag[u]
      BY <1>0, <2>1, <3>1, Zenon
    <3>3. QED
      BY <3>2, Zenon
  <2>4. Settled' /\ Heard'
    BY <2>1, <2>3, Zenon DEF Settled, Heard
  <2>5. order[1] = "DRIVE" => Made = 0
    BY <1>0, <2>1, Zenon DEF Taking
  <2>6. QED
    BY <2>1, <2>2, <2>3, <2>4, <2>5, Zenon DEF Letting, Taking
<1>10. CASE Motor
  <2>1. /\ ~flag["V2I"] => output' = output
        /\ UNCHANGED <<ref, order, todo, mode, flag>>
    <3>1. ~flag["V2I"] => output' = output
      BY <1>10, Zenon DEF Motor
    <3>2. UNCHANGED <<ref, order, todo, mode, flag>>
      BY <1>10 DEF Motor, skd, user
    <3>3. QED
      BY <3>1, <3>2, Zenon
  <2>2. InCycle' /\ Made' = Made
    BY <2>1, CycleStays
  <2>3. QED
    BY <2>1, <2>2, Zenon DEF Heard, Letting, Taking, Settled, Own
<1>11. CASE Store \/ SetTarget \/ \E k \in {-Quarter, Quarter} : Press(k)
  <2>1. UNCHANGED <<ref, order, todo, mode, flag, output>>
    BY <1>11 DEF Store, SetTarget, Press, skd, motor, user
  <2>2. QED
    BY <1>8, <2>1
<1>12. CASE Sample \/ Encoder \/ Push \/ ByHand
  <2>1. UNCHANGED <<ref, order, todo, mode, flag, output>>
    BY <1>12 DEF Sample, Encoder, Push, ByHand, Rotate, skd, motor, user
  <2>2. QED
    BY <1>8, <2>1
<1>13. QED
  BY <1>1, <1>2, <1>4, <1>5, <1>6, <1>7, <1>9, <1>10, <1>11, <1>12
     DEF Next, UserThread, KeyThread, SKDThread

(* The flags of a robot that has just started.                             *)
LEMMA FlagInit == Init => FlagsFollow
<1> SUFFICES ASSUME Init PROVE FlagsFollow
  OBVIOUS
<1>1. /\ ref \in {"GIMBAL_REF", "CHASSIS_REF"} /\ mode = "RELAX" /\ todo = << >>
      /\ order = <<"RELAX", 0>> /\ output = NoCurrent
  BY DEF Init
<1>2. order[1] = "RELAX" /\ order \in Orders
  BY <1>1 DEF Orders
<1>3. "V2I" \in Tables /\ flag \in [Tables -> BOOLEAN] /\ ~flag["V2I"]
  <2>1. "V2I" \in Tables
    BY DEF Tables
  <2>2. flag = [t \in Tables |-> FALSE]
    BY DEF Init
  <2>3. QED
    BY <2>1, <2>2, Zenon
<1>4. PICK w : w = Writes(order[1])
  OBVIOUS
<1>5. w \in Seq(Entries) /\ Len(w) = 4
  BY <1>2, <1>4, WritesOfRelax, Zenon
<1>6. Made = 4
  BY <1>1, <1>4, <1>5 DEF Made
<1>7. todo = SubSeq(w, 4 + 1, 4)
  BY <1>1, <1>5
<1>8. InCycle
  <2>1. Made \in 0..Len(w) /\ todo = SubSeq(w, Made + 1, Len(w))
    BY <1>5, <1>6, <1>7
  <2>2. QED
    BY <1>1, <1>2, <1>4, <2>1, Zenon DEF InCycle
<1>9. QED
  BY <1>1, <1>2, <1>3, <1>6, <1>8, Zenon DEF FlagsFollow, Letting, Heard

(* The flags always follow from the writes made.                           *)
LEMMA FlagInv == Spec => []FlagsFollow
BY FlagInit, FlagStep, PTL DEF Spec

(* Between two cycles of the user the motor is as the mode has it: driven, *)
(* by the feedback of that mode, or without current.                       *)
THEOREM DrivenAsTheModeHasIt == Spec => []InForce
<1>1. FlagsFollow => InForce
  BY CycleOver, Zenon DEF InForce, Settled
<1>2. QED
  BY <1>1, FlagInv, PTL

(* With an AHRS the controller takes up the motor only by its feedback.    *)
THEOREM EncoderNeverDrives == Spec => NeverByEncoder
<1>1. FlagsFollow /\ [Next]_vars
        => [(ref = "GIMBAL_REF" /\ output = NoCurrent /\ output' # NoCurrent)
             => flag["ANGLE"] /\ flag["VELOCITY"]]_vars
  <2> SUFFICES ASSUME FlagsFollow, Next, ref = "GIMBAL_REF",
                      output = NoCurrent, output' # NoCurrent
               PROVE  flag["ANGLE"] /\ flag["VELOCITY"]
    BY DEF vars
  <2>1. flag["V2I"] => flag["ANGLE"] /\ flag["VELOCITY"]
    BY Zenon DEF FlagsFollow, Heard
  <2>2. CASE Motor
    BY <2>1, <2>2, Zenon DEF Motor
  <2>3. CASE WriteCurrent
    <3>1. InCycle /\ todo # << >> /\ Head(todo)[1] = "CURRENT" /\ output' = Head(todo)[2]
      BY <2>3 DEF WriteCurrent, Writing, FlagsFollow
    <3>2. Head(todo)[2] = NoCurrent
      BY <3>1, NextWrite, Zenon DEF Says
    <3>3. QED
      BY <3>1, <3>2, Zenon
  <2>4. CASE WriteMode \/ WriteFlag \/ Aim \/ \E o \in Orders : Cycle(o)
    BY <2>4 DEF WriteMode, WriteFlag, Aim, Cycle, motor
  <2>5. CASE KeyThread
    BY <2>5 DEF KeyThread, Store, SetTarget, Press, motor
  <2>6. CASE Sample \/ Encoder \/ Relaxed \/ Push \/ ByHand
    BY <2>6 DEF Sample, Encoder, Relaxed, Push, ByHand, Rotate, motor
  <2>7. QED
    BY <2>2, <2>3, <2>4, <2>5, <2>6 DEF Next, UserThread, SKDThread
<1>2. QED
  BY <1>1, FlagInv, PTL DEF Spec, NeverByEncoder

-----------------------------------------------------------------------------
(* Modulo a turn the feedback and what came since are where the gimbal     *)
(* points, and with an AHRS the feedback is what was measured last.        *)
Directed ==
  /\ points \in 0..3 /\ last \in -1..2 /\ feedback \in Int /\ since \in Int
  /\ (feedback + since - points) % 4 = 0
  /\ ref = "GIMBAL_REF" => (feedback - last) % 4 = 0
  /\ tracked => since \in Ways

(* A measure of the direction, and the movement it is taken for.           *)
LEMMA Measured ==
  ASSUME Directed, ref = "GIMBAL_REF",
         NEW f, f = feedback + Unwrap(Angle - last)
  PROVE  /\ f \in Int /\ Angle \in -1..2
         /\ (f - points) % 4 = 0 /\ (f - Angle) % 4 = 0
         /\ tracked => f = feedback + since
<1> USE DEF Directed
<1>1. Angle \in -1..2 /\ (Angle = points \/ Angle = points - 4)
  BY DEF Angle, Turn
<1>2. PICK m \in -3..3 : m = Angle - last
  BY <1>1
<1>3. PICK u \in -2..2 : u = Unwrap(m) /\ (u = m \/ u = m + 4 \/ u = m - 4)
  <2>1. CASE m = -3
    BY <2>1 DEF Unwrap, Wrap, Turn
  <2>2. CASE m = 3
    BY <2>2 DEF Unwrap, Wrap, Turn
  <2>3. CASE m \in -2..2
    BY <2>3 DEF Unwrap, Wrap, Turn
  <2>4. QED
    BY <2>1, <2>2, <2>3
<1>4. f = feedback + u
  BY <1>2, <1>3
<1> HIDE DEF Directed
<1>5. feedback \in Int /\ last \in -1..2 /\ points \in 0..3 /\ since \in Int
  BY DEF Directed
<1>6. (feedback - last) % 4 = 0 /\ (feedback + since - points) % 4 = 0
  BY DEF Directed
<1>7. (f - Angle) % 4 = 0 /\ f \in Int
  BY <1>1, <1>2, <1>3, <1>4, <1>5, <1>6
<1>8. (f - points) % 4 = 0
  <2>1. PICK d \in Int : d = f - points
    BY <1>5, <1>7
  <2>2. d % 4 = 0 \/ (d + 4) % 4 = 0
    <3>1. CASE Angle = points
      BY <1>7, <2>1, <3>1
    <3>2. CASE Angle = points - 4
      <4>1. f - Angle = d + 4
        BY <1>5, <1>7, <2>1, <3>2
      <4>2. QED
        BY <1>7, <4>1
    <3>3. QED
      BY <1>1, <3>1, <3>2
  <2>3. QED
    BY <2>1, <2>2
<1>9. ASSUME tracked PROVE f = feedback + since
  <2>1. since \in -1..1
    BY <1>9 DEF Directed, Ways
  <2>2. (u - since) % 4 = 0 /\ u - since \in -3..3
    <3>1. PICK x \in Int : x = f - points
      BY <1>5, <1>7
    <3>2. PICK y \in Int : y = feedback + since - points
      BY <1>5
    <3>3. x % 4 = 0 /\ y % 4 = 0 /\ u - since = x - y
      BY <1>4, <1>5, <1>6, <1>8, <3>1, <3>2
    <3>4. (x - y) % 4 = 0
      BY <3>3
    <3>5. QED
      BY <1>5, <2>1, <3>3, <3>4
  <2>3. u = since
    BY <1>5, <2>1, <2>2
  <2>4. QED
    BY <1>4, <2>3
<1>10. QED
  BY <1>1, <1>7, <1>8, <1>9

YawStep ==
  /\ (feedback' + since' - points') % Turn = 0
  /\ tracked /\ tracked' /\ points' = points => feedback' + since' = feedback + since

(* Every step keeps the sums, and does what YawKept asks of it.            *)
LEMMA DirectionKept ==
  ASSUME Directed, mode \in {"RELAX", ref}, ref \in {"GIMBAL_REF", "CHASSIS_REF"}, [Next]_vars
  PROVE  Directed' /\ YawStep
<1>1. ASSUME UNCHANGED <<ref, feedback, last, points, since, tracked>>
      PROVE  Directed' /\ YawStep
  BY <1>1 DEF Directed, YawStep, Turn
<1>2. CASE UNCHANGED vars
  BY <1>1, <1>2 DEF vars, skd, plant
<1>3. CASE UserThread
  <2>1. UNCHANGED <<ref, feedback, last, points, since, tracked>>
    BY <1>3 DEF UserThread, WriteMode, WriteFlag, WriteCurrent, Aim, Cycle, skd, plant
  <2>2. QED
    BY <1>1, <2>1
<1>4. CASE KeyThread
  <2>1. UNCHANGED <<ref, feedback, last, points, since, tracked>>
    BY <1>4 DEF KeyThread, Store, SetTarget, Press, skd, plant
  <2>2. QED
    BY <1>1, <2>1
<1>5. CASE Motor
  BY <1>1, <1>5 DEF Motor, skd, plant
<1>6. CASE Sample
  <2>1. ref = "GIMBAL_REF"
    BY <1>6 DEF Sample
  <2>2. /\ feedback' = feedback + Unwrap(Angle - last) /\ last' = Angle
        /\ since' = 0 /\ UNCHANGED <<ref, points>>
    BY <1>6 DEF Sample
  <2>3. /\ feedback' \in Int /\ Angle \in -1..2
        /\ (feedback' - points) % 4 = 0 /\ (feedback' - Angle) % 4 = 0
        /\ tracked => feedback' = feedback + since
    BY <2>1, <2>2, Measured
  <2>4. points \in 0..3 /\ since \in Int
    BY DEF Directed
  <2>5. QED
    BY <2>2, <2>3, <2>4 DEF Directed, YawStep, Ways, Turn
<1>7. CASE Encoder
  <2>1. ref # "GIMBAL_REF"
    BY <1>7 DEF Encoder
  <2>2. feedback' = feedback + since /\ since' = 0 /\ UNCHANGED <<ref, last, points>>
    BY <1>7 DEF Encoder
  <2>3. QED
    BY <2>1, <2>2 DEF Directed, YawStep, Ways, Turn
<1>8. CASE Relaxed
  <2>1. tracked' = FALSE /\ UNCHANGED <<ref, feedback, last, points, since>>
    BY <1>8 DEF Relaxed, skd
  <2>2. QED
    BY <2>1 DEF Directed, YawStep, Turn
<1>9. ASSUME NEW way \in {-1, 1}, Rotate(way), tracked => since' \in Ways
      PROVE  Directed' /\ YawStep
  <2>1. /\ points' = (points + way) % 4 /\ since' = since + way
        /\ UNCHANGED <<ref, feedback, last, tracked>>
    BY <1>9 DEF Rotate, skd, Turn
  <2>2. points \in 0..3 /\ since \in Int /\ feedback \in Int /\ (feedback + since - points) % 4 = 0
    BY DEF Directed
  <2>3. points' \in 0..3 /\ points' # points /\ (points + way - points') % 4 = 0
    BY <2>1, <2>2
  <2>4. (feedback' + since' - points') % 4 = 0
    BY <2>1, <2>2, <2>3
  <2>5. QED
    BY <1>9, <2>1, <2>2, <2>3, <2>4 DEF Directed, YawStep, Turn
<1>10. CASE Push
  BY <1>9, <1>10 DEF Push
<1>11. CASE ByHand
  BY <1>9, <1>11 DEF ByHand
<1>12. QED
  BY <1>2, <1>3, <1>4, <1>5, <1>6, <1>7, <1>8, <1>10, <1>11 DEF Next, SKDThread

(* The yaw of the feedback means the same direction for ever, and while    *)
(* GimbalSKD looks every millisecond the same number of turns.             *)
THEOREM YawNeverSlips == Spec => YawKept
<1>1. Init => Directed
  BY DEF Init, Directed, Ways
<1>2. FlagsFollow => mode \in {"RELAX", ref} /\ ref \in {"GIMBAL_REF", "CHASSIS_REF"}
  BY DEF FlagsFollow, InCycle
<1>3. FlagsFollow /\ Directed /\ [Next]_vars => Directed' /\ [YawStep]_vars
  BY <1>2, DirectionKept
<1>4. QED
  BY <1>1, <1>3, FlagInv, PTL DEF Spec, YawKept, YawStep
-----------------------------------------------------------------------------
(* Nobody moves the user's target while its cycle lasts, so that it is     *)
(* still within bounds when the cycle has moved it.                        *)
Ranges ==
  /\ target \in Targets /\ targetA \in Targets /\ yawTarget \in Targets /\ reg \in Targets
  /\ todo # << >> => yawTarget + order[2] \in Targets
  /\ at \in {"WAIT", "STORE", "SET"}
  /\ output \in Ways \cup {NoCurrent}
  /\ tracked \in BOOLEAN

(* Every step keeps the targets within bounds.                             *)
LEMMA RangesStep ==
  ASSUME FlagsFollow, Ranges, [Next]_vars
  PROVE  Ranges'
<1> USE DEF Ranges
<1>1. CASE UNCHANGED vars
  BY <1>1 DEF vars, skd, motor, user, keys, plant
<1>2. ASSUME NEW o \in Orders, Cycle(o)
      PROVE  Ranges'
  BY <1>2 DEF Cycle, skd, motor, keys, plant
<1>3. CASE WriteMode \/ WriteFlag
  <2>1. todo # << >> /\ UNCHANGED <<target, targetA, yawTarget, reg, order, at, output, tracked>>
    BY <1>3 DEF WriteMode, WriteFlag, Writing, skd, motor, keys, plant
  <2>2. QED
    BY <2>1
<1>4. CASE WriteCurrent
  <2>1. InCycle /\ todo # << >> /\ Head(todo)[1] = "CURRENT" /\ output' = Head(todo)[2]
    BY <1>4 DEF WriteCurrent, Writing, FlagsFollow
  <2>2. output' = NoCurrent
    BY <2>1, NextWrite, Zenon DEF Says
  <2>3. UNCHANGED <<target, targetA, yawTarget, reg, order, at, tracked>>
    BY <1>4 DEF WriteCurrent, skd, keys, plant
  <2>4. QED
    BY <2>1, <2>2, <2>3
<1>5. CASE Aim
  <2>1. /\ InCycle /\ todo # << >> /\ Head(todo)[1] = "AIM" /\ todo' = Tail(todo)
        /\ yawTarget' = yawTarget + order[2] /\ target' = yawTarget'
        /\ UNCHANGED <<targetA, reg, order, at, output, tracked>>
    BY <1>5 DEF Aim, Writing, FlagsFollow, motor, keys, plant
  <2>2. order[1] = "DRIVE" /\ Made = 5
    BY <2>1, NextWrite, Zenon DEF Says
  <2>3. Tail(todo) = << >>
    <3>1. PICK w : w = Writes(order[1])
      OBVIOUS
    <3>2. w \in Seq(Entries) /\ Len(w) = 6
      BY <2>2, <3>1, WritesOfDrive, Zenon
    <3>3. todo = SubSeq(w, 5 + 1, Len(w)) /\ 5 \in 0..Len(w) /\ 5 < Len(w)
      BY <2>1, <2>2, <3>1, <3>2 DEF InCycle
    <3>4. Tail(todo) = SubSeq(w, 5 + 2, Len(w))
      BY <3>2, <3>3, Suffix
    <3>5. QED
      BY <3>2, <3>4
  <2>4. QED
    BY <2>1, <2>3
<1>6. CASE KeyThread
  BY <1>6 DEF KeyThread, Press, Store, SetTarget, Targets, skd, motor, user, plant
<1>7. CASE Sample \/ Encoder \/ Relaxed
  BY <1>7 DEF Sample, Encoder, Relaxed, skd, user, keys
<1>8. CASE Motor
  <2>1. output' \in {output, 0, -1, 1}
    BY <1>8, Zenon DEF Motor, Toward
  <2>2. output' \in Ways \cup {NoCurrent}
    BY <2>1 DEF Ways
  <2>3. UNCHANGED <<target, targetA, yawTarget, reg, order, todo, at, tracked>>
    BY <1>8 DEF Motor, skd, user, keys, plant
  <2>4. QED
    BY <2>2, <2>3
<1>9. CASE Push \/ ByHand
  BY <1>9 DEF Push, ByHand, Rotate, skd, motor, user, keys
<1>10. QED
  BY <1>1, <1>2, <1>3, <1>4, <1>5, <1>6, <1>7, <1>8, <1>9 DEF Next, UserThread, SKDThread

(* Every variable stays within its type: a cycle's writes come in their    *)
(* order, and the two threads that move the target keep it within bounds.  *)
THEOREM Typing == Spec => []TypeOK
<1>1. Init => Directed /\ Ranges
  <2>1. Init => Directed
    BY DEF Init, Directed, Ways
  <2>2. 0 \in Targets
    BY DEF Targets
  <2>3. Init => tracked \in BOOLEAN
    BY Zenon DEF Init
  <2>4. Init => Ranges
    BY <2>2, <2>3 DEF Init, Ranges
  <2>5. QED
    BY <2>1, <2>4
<1>2. FlagsFollow => mode \in {"RELAX", ref} /\ ref \in {"GIMBAL_REF", "CHASSIS_REF"}
  BY DEF FlagsFollow, InCycle
<1>3. FlagsFollow /\ Directed /\ Ranges /\ [Next]_vars => Directed' /\ Ranges'
  BY <1>2, DirectionKept, RangesStep
<1>4. FlagsFollow /\ Directed /\ Ranges => TypeOK
  <2> SUFFICES ASSUME FlagsFollow, Directed, Ranges PROVE TypeOK
    OBVIOUS
  <2>1. PICK w : w = Writes(order[1])
    OBVIOUS
  <2>2. order \in Orders /\ Made \in 0..Len(w) /\ todo = SubSeq(w, Made + 1, Len(w))
    BY <2>1, Zenon DEF FlagsFollow, InCycle
  <2>3. Len(w) \in {0, 4, 6}
    <3>1. order[1] = "RELAX" \/ order[1] = "DRIVE" \/ order[1] = "LEAVE"
      BY <2>2, OrdersAre
    <3>2. QED
      BY <2>1, <3>1, WritesOfRelax, WritesOfDrive, WritesOfLeave, Zenon
  <2>4. Made + 1 \in 1..7
    <3>1. PICK k, l : k = Made /\ l = Len(w)
      OBVIOUS
    <3>2. k \in 0..l /\ l \in {0, 4, 6}
      BY <2>2, <2>3, <3>1
    <3>3. QED
      BY <3>1, <3>2
  <2>5. \E n \in 1..7 : todo = SubSeq(Writes(order[1]), n, Len(Writes(order[1])))
    BY <2>1, <2>2, <2>4, Zenon
  <2>6. flag \in [Tables -> BOOLEAN]
    BY Zenon DEF FlagsFollow
  <2>7. /\ points \in 0..Turn - 1 /\ last \in -1..2 /\ feedback \in Int /\ since \in Int
    BY DEF Directed, Turn
  <2>8. QED
    BY <1>2, <2>2, <2>5, <2>6, <2>7, Zenon DEF Ranges, TypeOK
<1>5. QED
  BY <1>1, <1>3, <1>4, FlagInv, PTL DEF Spec
=============================================================================
