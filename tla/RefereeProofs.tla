--------------------------- MODULE RefereeProofs ----------------------------
(***************************************************************************)
(* Theorems about the two ends of the link to the referee system: what is  *)
(* received from it, and the screen it draws.                              *)
(*                                                                         *)
(* Referee, for every length of a header and every set of lengths of       *)
(* packets: as long as no byte is lost or altered the receiver waits for   *)
(* the very byte that comes and stays within pak, whatever lengths a       *)
(* header that is none may say; and bullets are counted once, which rests  *)
(* on the first and on the thread seeing one event at a time (OneEvent).   *)
(*                                                                         *)
(* RefereeUI, for every script of labels and shapes: the lists are never   *)
(* overrun, because every name has a place from the start and what is      *)
(* still to be added fits (Room); and what the screen shows is what was    *)
(* sent (Shown), because what was sent stays in its list.                  *)
(***************************************************************************)
EXTENDS Referee, RefereeUI, FiniteSetTheorems, WellFoundedInduction, TLAPS

(* Referee.                                                                *)

USE DEF line, receiver, vars

-----------------------------------------------------------------------------
(* Types, in parts.                                                        *)
Bytes == UNION {1..r : r \in Claims}

LineOK ==
  /\ packet \in Packets /\ place \in 1..Size(packet) + 1
  /\ disturbed \in BOOLEAN /\ touched \in BOOLEAN
ReceiverOK ==
  /\ rx_status \in Statuses /\ intact \in BOOLEAN
  /\ rx_status = "WAIT_STARTING_BYTE" => need = 1
  /\ rx_status = "WAIT_REMAINING_HEADER" => need \in 1..HeaderRest
  /\ rx_status = "WAIT_CMD_ID_DATA_TAIL" => need \in Bytes
ListenerOK ==
  /\ supply \in BOOLEAN /\ flags \in SUBSET Commands /\ thread \in SUBSET Commands
  /\ owed \in -1..1
TypeInv == LineOK /\ ReceiverOK /\ ListenerOK

(* The parts of the type invariant are the whole of it.                    *)
LEMMA TypesAre == TypeInv <=> TypeOK
<1>1. CASE rx_status = "WAIT_STARTING_BYTE"
  BY <1>1 DEF TypeInv, LineOK, ReceiverOK, ListenerOK, TypeOK, Statuses, Bytes
<1>2. CASE rx_status = "WAIT_REMAINING_HEADER"
  BY <1>2 DEF TypeInv, LineOK, ReceiverOK, ListenerOK, TypeOK, Statuses, Bytes
<1>3. CASE rx_status = "WAIT_CMD_ID_DATA_TAIL"
  BY <1>3 DEF TypeInv, LineOK, ReceiverOK, ListenerOK, TypeOK, Statuses, Bytes
<1>4. QED
  BY <1>1, <1>2, <1>3 DEF TypeInv, ReceiverOK, TypeOK, Statuses

(* A header and what follows it are not empty, and pak holds a packet.     *)
LEMMA Lengths ==
  /\ HeaderRest \in Nat \ {0} /\ Room \in Nat
  /\ Claims \subseteq Nat \ {0} /\ Rests \subseteq Claims
  /\ \A r \in Rests : r <= Room
BY RefereeAssumption, Zenon

(* Lengths count down to one.                                              *)
LEMMA BytesDown ==
  /\ \A r \in Claims : r \in Bytes /\ r \in Nat \ {0}
  /\ \A n \in Bytes : n \in Nat \ {0} /\ (n > 1 => n - 1 \in Bytes)
<1>1. ASSUME NEW r \in Claims PROVE r \in Bytes /\ r \in Nat \ {0}
  <2>1. r \in Nat \ {0} /\ r \in 1..r
    BY Lengths
  <2>2. QED
    BY <2>1 DEF Bytes
<1>2. ASSUME NEW n \in Bytes PROVE n \in Nat \ {0} /\ (n > 1 => n - 1 \in Bytes)
  <2>1. PICK r \in Claims : n \in 1..r
    BY DEF Bytes
  <2>2. n \in Nat \ {0} /\ r \in Nat /\ (n > 1 => n - 1 \in 1..r)
    BY <2>1, Lengths
  <2>3. QED
    BY <2>1, <2>2 DEF Bytes
<1>3. QED
  BY <1>1, <1>2

(* A packet is its start byte, its header and its rest.                    *)
LEMMA Sizes ==
  ASSUME NEW p \in Packets
  PROVE  /\ HeaderRest \in Nat \ {0} /\ p.rest \in Rests /\ p.rest \in Nat \ {0}
         /\ Size(p) \in Nat /\ Size(p) = 1 + HeaderRest + p.rest
<1>1. p.rest \in Rests
  BY DEF Packets
<1>2. HeaderRest \in Nat \ {0} /\ p.rest \in Nat \ {0}
  BY <1>1, Lengths
<1>3. QED
  BY <1>1, <1>2 DEF Size

(* The callback leaves the receiver in one of its states.                  *)
AwaitOK ==
  /\ rx_status \in Statuses
  /\ rx_status = "WAIT_STARTING_BYTE" => need = 1
  /\ rx_status = "WAIT_REMAINING_HEADER" => need \in 1..HeaderRest
  /\ rx_status = "WAIT_CMD_ID_DATA_TAIL" => need \in Bytes

(* What a byte leaves the receiver in.                                     *)
LEMMA Receives ==
  ASSUME TypeInv, NEW fate \in {"GOOD", "BAD"}, Byte(fate)
  PROVE  AwaitOK' /\ supply' \in BOOLEAN /\ flags' \in SUBSET Commands
<1>1. AwaitOK /\ supply \in BOOLEAN /\ flags \in SUBSET Commands
  BY DEF TypeInv, ReceiverOK, ListenerOK, AwaitOK
<1>2. CASE \E sof \in Sof(fate) : Start(sof)
  <2>1. supply' = supply /\ flags' = flags
    BY <1>2 DEF Start
  <2>2. \/ rx_status' = "WAIT_REMAINING_HEADER" /\ need' = HeaderRest
        \/ rx_status' = rx_status /\ need' = need
    BY <1>2, Zenon DEF Start, Await
  <2>3. AwaitOK'
    BY <1>1, <2>2, Lengths DEF AwaitOK, Statuses
  <2>4. QED
    BY <1>1, <2>1, <2>3, Zenon
<1>3. CASE Header(Whole(fate), packet.odd \/ fate = "BAD")
  <2>1. packet.rest \in Claims
    BY Sizes, Lengths DEF TypeInv, LineOK
  <2>2. supply' = supply /\ flags' = flags
    BY <1>3 DEF Header
  <2>3. \/ rx_status' = "WAIT_STARTING_BYTE" /\ need' = 1
        \/ rx_status' = "WAIT_CMD_ID_DATA_TAIL" /\ need' \in Claims
    BY <1>3, <2>1, Zenon DEF Header, Await
  <2>4. AwaitOK'
    BY <2>3, BytesDown DEF AwaitOK, Statuses
  <2>5. QED
    BY <1>1, <2>2, <2>4, Zenon
<1>4. CASE Packet(Whole(fate))
  <2>1. Command(packet.kind) \in Commands
    BY DEF Command, Commands
  <2>2. rx_status' = "WAIT_STARTING_BYTE" /\ need' = 1
    BY <1>4, Zenon DEF Packet, Await
  <2>3. supply' \in BOOLEAN
    BY <1>1, <1>4, Zenon DEF Packet
  <2>4. \E c \in Commands : flags' = flags \cup {c}
    BY <1>4, <2>1, Zenon DEF Packet
  <2>5. AwaitOK' /\ flags' \in SUBSET Commands
    BY <1>1, <2>2, <2>4 DEF AwaitOK, Statuses
  <2>6. QED
    BY <2>3, <2>5
<1>5. CASE Fill
  <2>1. need > 1 /\ need' = need - 1 /\ rx_status' = rx_status /\ supply' = supply /\ flags' = flags
    BY <1>5 DEF Fill
  <2>2. AwaitOK'
    BY <1>1, <2>1, BytesDown, Lengths DEF AwaitOK, Statuses
  <2>3. QED
    BY <1>1, <2>1, <2>2, Zenon
<1>6. QED
  BY <1>2, <1>3, <1>4, <1>5 DEF Byte

(* Every step keeps the types.                                             *)
LEMMA TypeStep == TypeInv /\ [Next]_vars => TypeInv'
<1> SUFFICES ASSUME TypeInv, [Next]_vars PROVE TypeInv'
  OBVIOUS
<1> USE DEF TypeInv
<1>1. ASSUME NEW fate \in {"GOOD", "BAD", "LOST"}, Byte(fate) PROVE TypeInv'
  <2>1. LineOK'
    <3>1. packet' = packet /\ place' = place + 1 /\ place <= Size(packet)
          /\ disturbed' = disturbed
      BY <1>1 DEF Byte
    <3>2. touched' \in BOOLEAN
      BY <1>1, Zenon DEF Byte
    <3>3. QED
      BY <3>1, <3>2, Sizes DEF LineOK
  <2>2. thread' = thread /\ owed' \in -1..1
    BY <1>1 DEF Byte, Owes, ListenerOK
  <2>3. CASE fate = "LOST"
    BY <1>1, <2>1, <2>2, <2>3 DEF Byte, ReceiverOK, ListenerOK
  <2>4. CASE fate # "LOST"
    <3>1. intact' \in BOOLEAN
      BY <1>1, <2>4, Zenon DEF Byte, Whole, ReceiverOK
    <3>2. AwaitOK' /\ supply' \in BOOLEAN /\ flags' \in SUBSET Commands
      BY <1>1, <2>4, Receives
    <3>3. QED
      BY <2>1, <2>2, <3>1, <3>2, Zenon DEF ReceiverOK, ListenerOK, AwaitOK
  <2>5. QED
    BY <2>3, <2>4
<1>2. ASSUME NEW p \in Packets, NextPacket(p) PROVE TypeInv'
  BY <1>2, Sizes DEF NextPacket, LineOK, ReceiverOK, ListenerOK
<1>3. ASSUME NEW d \in BOOLEAN, Disturb(d) PROVE TypeInv'
  BY <1>3 DEF Disturb, LineOK, ReceiverOK, ListenerOK
<1>4. CASE TakeFlags
  BY <1>4 DEF TakeFlags, LineOK, ReceiverOK, ListenerOK
<1>5. CASE Count
  BY <1>5 DEF Count, LineOK, ReceiverOK, ListenerOK
<1>6. CASE UNCHANGED vars
  BY <1>6 DEF LineOK, ReceiverOK, ListenerOK
<1>7. QED
  BY <1>1, <1>2, <1>3, <1>4, <1>5, <1>6 DEF Next

(* The types at start-up.                                                  *)
LEMMA TypeInit == Init => TypeInv
<1> SUFFICES ASSUME Init PROVE TypeInv
  OBVIOUS
<1>1. packet \in Packets /\ place \in 1..Size(packet) /\ disturbed = FALSE
  BY DEF Init
<1>2. touched \in BOOLEAN
  BY DEF Init
<1>3. place \in 1..Size(packet) + 1
  BY <1>1, Sizes
<1>4. LineOK
  BY <1>1, <1>2, <1>3, Zenon DEF LineOK
<1>5. ReceiverOK /\ ListenerOK
  <2>1. owed \in -1..1 /\ rx_status = "WAIT_STARTING_BYTE" /\ need = 1
    BY DEF Init
  <2>2. /\ intact \in BOOLEAN /\ supply \in BOOLEAN
        /\ flags \in SUBSET Commands /\ thread \in SUBSET Commands
    BY Zenon DEF Init
  <2>3. QED
    BY <2>1, <2>2, Zenon DEF ReceiverOK, ListenerOK, Statuses
<1>6. QED
  BY <1>4, <1>5 DEF TypeInv

(* Everything has its type.                                                *)
THEOREM Typing == Spec => []TypeOK
<1>1. QED
  BY TypeInit, TypesAre, TypeStep, PTL DEF Spec

-----------------------------------------------------------------------------
(* InStep, case by case; in the data, with the header behind it.           *)
Waiting == rx_status = "WAIT_STARTING_BYTE" /\ (place = 1 \/ place = Size(packet) + 1)
InHeader == rx_status = "WAIT_REMAINING_HEADER" /\ place = 2 + HeaderRest - need
InData ==
  /\ rx_status = "WAIT_CMD_ID_DATA_TAIL"
  /\ place = Size(packet) + 1 - need /\ place > 1 + HeaderRest

Position == Waiting \/ InHeader \/ InData

(* The three statuses of the receiver, one by one.                         *)
LEMMA Cases == rx_status \in Statuses /\ Position => InStep
BY DEF Statuses, InStep, Position, Waiting, InHeader, InData

(* On a good line the receiver is where the sender is, and what it has of  *)
(* the packet is all of it.                                                *)
InOrder ==
  ~touched => Position /\ (rx_status # "WAIT_STARTING_BYTE" => intact)

(* What a byte on a good line does to a receiver in step.                  *)
LEMMA GoodByte ==
  ASSUME TypeInv, InOrder, Byte("GOOD"), ~touched
  PROVE  /\ InOrder'
         /\ place < Size(packet) => UNCHANGED <<supply, flags>>
         /\ place = Size(packet) => Packet(TRUE)
<1>1. /\ packet \in Packets /\ packet' = packet /\ place' = place + 1
      /\ place \in 1..Size(packet)
  BY Sizes DEF Byte, TypeInv, LineOK
<1>2. /\ HeaderRest \in Nat \ {0} /\ packet.rest \in Nat \ {0}
      /\ Size(packet) = 1 + HeaderRest + packet.rest /\ Size(packet') = Size(packet)
  BY <1>1, Sizes
<1>3. Position /\ (rx_status # "WAIT_STARTING_BYTE" => intact)
  BY Zenon DEF InOrder
<1>4. Position
  BY <1>3
<1>5. AwaitOK
  BY DEF TypeInv, ReceiverOK, AwaitOK
<1> DEFINE Ok == /\ Position' /\ intact'
                 /\ place < Size(packet) => UNCHANGED <<supply, flags>>
                 /\ place = Size(packet) => Packet(TRUE)
<1> SUFFICES Ok
  BY Zenon DEF InOrder
<1>6. intact' = Whole("GOOD")
  BY DEF Byte
<1>7. CASE \E sof \in Sof("GOOD") : Start(sof)
  <2>1. rx_status = "WAIT_STARTING_BYTE"
    BY <1>7 DEF Start
  <2>2. place = 1
    BY <1>1, <1>2, <1>4, <2>1 DEF Position, Waiting, InHeader, InData
  <2>3. ~(place > 1)
    BY <2>2
  <2>4. Start(TRUE)
    BY <1>7, <2>2, <2>3, Zenon DEF Sof
  <2>5. rx_status' = "WAIT_REMAINING_HEADER" /\ need' = HeaderRest /\ UNCHANGED <<supply, flags>>
    BY <2>4, Zenon DEF Start, Await
  <2>6. intact'
    BY <1>6, <2>1, <2>2, Zenon DEF Whole
  <2>7. Position' /\ place # Size(packet)
    BY <1>1, <1>2, <2>2, <2>5 DEF Position, InHeader
  <2>8. QED
    BY <2>5, <2>6, <2>7, Zenon
<1>8. CASE Header(Whole("GOOD"), packet.odd \/ FALSE)
  <2>1. rx_status = "WAIT_REMAINING_HEADER" /\ need = 1
    BY <1>8 DEF Header
  <2>2. place = 1 + HeaderRest
    BY <1>2, <1>4, <2>1 DEF Position, Waiting, InHeader, InData
  <2>3. Whole("GOOD") /\ intact'
    BY <1>3, <1>6, <2>1, Zenon DEF Whole
  <2>4. /\ rx_status' = "WAIT_CMD_ID_DATA_TAIL" /\ need' = packet.rest
        /\ UNCHANGED <<supply, flags>>
    BY <1>8, <2>3, Zenon DEF Header, Await
  <2>5. Position' /\ place # Size(packet)
    BY <1>1, <1>2, <2>2, <2>4 DEF Position, InData
  <2>6. QED
    BY <2>3, <2>4, <2>5, Zenon
<1>9. CASE Packet(Whole("GOOD"))
  <2>1. rx_status = "WAIT_CMD_ID_DATA_TAIL" /\ need = 1
    BY <1>9 DEF Packet
  <2>2. place = Size(packet)
    BY <1>1, <1>2, <1>4, <2>1 DEF Position, Waiting, InHeader, InData
  <2>3. Whole("GOOD") = TRUE /\ intact'
    BY <1>3, <1>6, <2>1, Zenon DEF Whole, InOrder, TypeInv, ReceiverOK
  <2>4. Packet(TRUE)
    BY <1>9, <2>3, Zenon
  <2>5. rx_status' = "WAIT_STARTING_BYTE"
    BY <2>4, Zenon DEF Packet, Await
  <2>6. Position'
    BY <1>1, <1>2, <2>2, <2>5 DEF Position, Waiting
  <2>7. ~(place < Size(packet))
    BY <1>1, <1>2, <2>2
  <2>8. QED
    BY <2>3, <2>4, <2>6, <2>7, Zenon
<1>10. CASE Fill
  <2>1. /\ need > 1 /\ need' = need - 1 /\ rx_status' = rx_status
        /\ UNCHANGED <<supply, flags>>
    BY <1>10 DEF Fill
  <2>2. need \in Nat /\ rx_status \in {"WAIT_REMAINING_HEADER", "WAIT_CMD_ID_DATA_TAIL"}
    BY <1>5, <2>1, BytesDown DEF AwaitOK, Statuses
  <2>3. intact'
    BY <1>3, <1>6, <2>2, Zenon DEF Whole
  <2>4. Position' /\ place # Size(packet)
    BY <1>1, <1>2, <1>4, <1>5, <2>1, <2>2
    DEF Position, Waiting, InHeader, InData, AwaitOK
  <2>5. QED
    BY <2>1, <2>3, <2>4, Zenon
<1>11. QED
  BY <1>7, <1>8, <1>9, <1>10, Zenon DEF Byte

(* Every step keeps an untouched line and the receiver in step.            *)
LEMMA InOrderStep == TypeInv /\ InOrder /\ [Next]_vars => InOrder'
<1> SUFFICES ASSUME TypeInv, InOrder, [Next]_vars PROVE InOrder'
  OBVIOUS
<1>1. ASSUME NEW fate \in {"GOOD", "BAD", "LOST"}, Byte(fate) PROVE InOrder'
  <2>1. CASE touched \/ fate # "GOOD"
    BY <1>1, <2>1 DEF Byte, InOrder
  <2>2. CASE ~touched /\ fate = "GOOD"
    BY <1>1, <2>2, GoodByte
  <2>3. QED
    BY <2>1, <2>2
<1>2. ASSUME NEW p \in Packets, NextPacket(p) PROVE InOrder'
  <2>1. /\ place = Size(packet) + 1 /\ place' = 1 /\ UNCHANGED <<rx_status, need, intact, touched>>
        /\ packet \in Packets
    BY <1>2 DEF NextPacket, TypeInv, LineOK
  <2>2. ASSUME ~touched PROVE rx_status = "WAIT_STARTING_BYTE"
    BY <2>1, <2>2, Sizes, BytesDown DEF InOrder, Position, Waiting, InHeader, InData, TypeInv, ReceiverOK, Statuses
  <2>3. QED
    BY <2>1, <2>2 DEF InOrder, Position, Waiting, InHeader, InData
<1>3. ASSUME NEW d \in BOOLEAN, Disturb(d) PROVE InOrder'
  BY <1>3 DEF Disturb, InOrder, Position, Waiting, InHeader, InData, Size
<1>4. CASE TakeFlags \/ Count \/ UNCHANGED vars
  BY <1>4 DEF TakeFlags, Count, InOrder, Position, Waiting, InHeader, InData, Size
<1>5. QED
  BY <1>1, <1>2, <1>3, <1>4 DEF Next

(* As long as no byte was lost or altered, uart_rx_callback() never asks   *)
(* for a byte but the next one of the packet being sent: 0xA5 in the data  *)
(* cannot mislead it, and no packet is passed over.                        *)
THEOREM NeverOutOfStep == Spec => [](~touched => InStep)
<1>1. Init => InOrder
  BY DEF Init, InOrder, Position, Waiting
<1>2. TypeInv /\ InOrder => (~touched => InStep)
  BY Cases DEF InOrder, TypeInv, ReceiverOK
<1>3. QED
  BY <1>1, <1>2, TypeInit, TypeStep, InOrderStep, PTL DEF Spec

(* On a good line the driver is never asked for more bytes than pak holds  *)
(* behind the header, whatever a header that is none might have said: the  *)
(* length that uart_rx_callback() passes on unread is that of a packet.    *)
THEOREM WithinBuffer == Spec => [](~touched => InBuffer)
<1>1. Init => InOrder
  BY DEF Init, InOrder, Position, Waiting
<1>2. ASSUME TypeInv, InOrder, ~touched, rx_status = "WAIT_CMD_ID_DATA_TAIL"
      PROVE  need <= Room
  <2>1. InData
    BY <1>2 DEF InOrder, Position, Waiting, InHeader, InData
  <2>2. packet \in Packets /\ place \in Nat /\ need \in Nat
    BY <1>2, BytesDown, Sizes DEF TypeInv, LineOK, ReceiverOK
  <2>3. packet.rest <= Room /\ Room \in Nat
    BY <2>2, Sizes, Lengths
  <2>4. QED
    BY <2>1, <2>2, <2>3, Sizes DEF InData
<1>3. TypeInv /\ InOrder => (~touched => InBuffer)
  BY <1>2 DEF InBuffer
<1>4. QED
  BY <1>1, <1>3, TypeInit, TypeStep, InOrderStep, PTL DEF Spec

-----------------------------------------------------------------------------
(* An event is under way to the counting thread that has a supply to say.  *)
Due == supply /\ ("SUPPLY" \in flags \/ thread = {"SUPPLY"})

(* Accounted in terms of whether an event is due.                          *)
LEMMA AccountedIs == Accounted <=> (~touched => (Due => owed = 1) /\ (~Due => owed = 0))
<1>1. CASE Due
  BY <1>1, Zenon DEF Accounted, Due
<1>2. CASE ~Due
  BY <1>2, Zenon DEF Accounted, Due
<1>3. QED
  BY <1>1, <1>2

(* The same of a step's outcome.                                           *)
LEMMA AccountedNext ==
  ASSUME Due' => owed' = 1, ~Due' => owed' = 0
  PROVE  Accounted'
<1>1. CASE Due'
  <2>1. owed' = 1
    BY <1>1
  <2>2. QED
    BY <1>1, <2>1, Zenon DEF Accounted, Due
<1>2. CASE ~Due'
  <2>1. owed' = 0
    BY <1>2
  <2>2. QED
    BY <1>2, <2>1, Zenon DEF Accounted, Due
<1>3. QED
  BY <1>1, <1>2

(* On a good line the thread sees one event at a time.                     *)
Events == {{}, {"SUPPLY"}, {"STATE"}}
OneEvent ==
  ~touched => flags \in Events /\ thread \in Events /\ (flags = {} \/ thread = {})

IInv == TypeInv /\ InOrder /\ OneEvent /\ Accounted

(* The command of a packet is SUPPLY unless it is of the state.            *)
LEMMA CommandIs ==
  packet.kind \in Kinds =>
    /\ packet.kind = "STATE" => Command(packet.kind) = "STATE"
    /\ packet.kind # "STATE" => Command(packet.kind) = "SUPPLY"
BY DEF Command, Kinds

(* A good byte keeps the account of the bullets.                           *)
LEMMA ByteCounted ==
  ASSUME IInv, Prompt, Byte("GOOD"), ~touched
  PROVE  OneEvent' /\ Accounted'
<1>1. TypeInv /\ InOrder /\ OneEvent /\ Accounted
  BY Zenon DEF IInv
<1>2. /\ place < Size(packet) => UNCHANGED <<supply, flags>>
      /\ place = Size(packet) => Packet(TRUE)
  BY <1>1, GoodByte
<1>3. thread' = thread /\ owed' = Owes /\ place <= Size(packet)
  BY DEF Byte
<1>4. packet.kind \in Kinds /\ place \in Nat /\ Size(packet) \in Nat
  BY <1>1, Sizes DEF TypeInv, LineOK, Packets
<1>5. flags \in Events /\ thread \in Events /\ (flags = {} \/ thread = {})
  BY <1>1, Zenon DEF OneEvent
<1>6. (Due => owed = 1) /\ (~Due => owed = 0)
  BY <1>1, AccountedIs
<1> SUFFICES /\ flags' \in Events /\ (flags' = {} \/ thread' = {})
             /\ (Due' => owed' = 1) /\ (~Due' => owed' = 0)
  BY <1>3, <1>5, AccountedNext, Zenon DEF OneEvent
<1>7. CASE place # Size(packet)
  <2>1. place < Size(packet)
    BY <1>3, <1>4, <1>7
  <2>2. supply' = supply /\ flags' = flags
    BY <1>2, <2>1
  <2>3. owed' = owed
    BY <1>3, <1>7 DEF Owes
  <2>4. QED
    BY <1>3, <1>5, <1>6, <2>2, <2>3, Zenon DEF Due
<1>8. CASE place = Size(packet)
  <2>1. flags = {} /\ thread = {}
    BY <1>8 DEF Byte
  <2>2. owed = 0
    BY <1>6, <2>1 DEF Due
  <2>3. /\ supply' = IF Command(packet.kind) = "SUPPLY" THEN packet.kind = "FALL" ELSE supply
        /\ flags' = flags \cup {Command(packet.kind)}
    BY <1>2, <1>8, Zenon DEF Packet
  <2>4. CASE packet.kind = "FALL"
    <3>1. Command(packet.kind) = "SUPPLY"
      BY <1>4, <2>4, CommandIs
    <3>2. supply' /\ flags' = {"SUPPLY"}
      <4>1. supply'
        BY <2>3, <2>4, <3>1, Zenon
      <4>2. flags' = {"SUPPLY"}
        BY <2>1, <2>3, <3>1
      <4>3. QED
        BY <4>1, <4>2
    <3>3. owed' = 1
      BY <1>3, <1>8, <2>2, <2>4 DEF Owes
    <3>4. QED
      BY <1>3, <2>1, <3>2, <3>3, Zenon DEF Events, Due
  <2>5. CASE packet.kind = "STEP"
    <3>1. Command(packet.kind) = "SUPPLY"
      BY <1>4, <2>5, CommandIs
    <3>2. flags' = {"SUPPLY"}
      BY <2>1, <2>3, <3>1
    <3>3. packet.kind # "FALL"
      BY <2>5
    <3>4. ~supply'
      BY <2>3, <3>1, <3>3, Zenon
    <3>5. owed' = 0
      BY <1>3, <2>2, <3>3 DEF Owes
    <3>6. QED
      BY <1>3, <2>1, <3>2, <3>4, <3>5, Zenon DEF Events, Due
  <2>6. CASE packet.kind = "STATE"
    <3>1. Command(packet.kind) = "STATE"
      BY <1>4, <2>6, CommandIs
    <3>2. flags' = {"STATE"} /\ thread' = {}
      BY <1>3, <2>1, <2>3, <3>1
    <3>3. owed' = 0
      BY <1>3, <2>2, <2>6 DEF Owes
    <3>4. ~Due'
      BY <3>2 DEF Due
    <3>5. QED
      BY <3>2, <3>3, <3>4 DEF Events
  <2>7. QED
    BY <1>4, <2>4, <2>5, <2>6 DEF Kinds
<1>9. QED
  BY <1>7, <1>8

(* Every step keeps the account of the bullets.                            *)
LEMMA CountedStep ==
  ASSUME IInv, Prompt, [Next]_vars
  PROVE  OneEvent' /\ Accounted'
<1>1. OneEvent /\ Accounted
  BY Zenon DEF IInv
<1>2. ASSUME NEW fate \in {"GOOD", "BAD", "LOST"}, Byte(fate) PROVE OneEvent' /\ Accounted'
  <2>1. CASE ~touched /\ fate = "GOOD"
    BY <1>2, <2>1, ByteCounted
  <2>2. CASE touched \/ fate # "GOOD"
    <3>1. touched'
      BY <1>2, <2>2, Zenon DEF Byte
    <3>2. QED
      BY <3>1, Zenon DEF OneEvent, Accounted
  <2>3. QED
    BY <2>1, <2>2
<1>3. CASE \/ \E p \in Packets : NextPacket(p)
           \/ \E d \in BOOLEAN : Disturb(d)
           \/ UNCHANGED vars
  <2>1. touched' = touched /\ supply' = supply /\ flags' = flags /\ thread' = thread /\ owed' = owed
    BY <1>3 DEF NextPacket, Disturb
  <2>2. QED
    BY <1>1, <2>1, Zenon DEF OneEvent, Accounted
<1> SUFFICES ASSUME ~touched, TakeFlags \/ Count PROVE OneEvent' /\ Accounted'
  <2>1. CASE touched /\ (TakeFlags \/ Count)
    <3>1. touched'
      BY <2>1 DEF TakeFlags, Count
    <3>2. QED
      BY <3>1, Zenon DEF OneEvent, Accounted
  <2>2. QED
    BY <1>2, <1>3, <2>1 DEF Next
<1>4. flags \in Events /\ thread \in Events /\ (flags = {} \/ thread = {})
  BY <1>1, Zenon DEF OneEvent
<1>5. (Due => owed = 1) /\ (~Due => owed = 0)
  BY <1>1, AccountedIs
<1>6. CASE TakeFlags
  <2>1. thread' = flags /\ flags' = {} /\ owed' = owed /\ supply' = supply /\ thread = {}
    BY <1>6 DEF TakeFlags
  <2>2. OneEvent'
    BY <1>4, <2>1 DEF OneEvent, Events
  <2>3. "SUPPLY" \in flags <=> flags = {"SUPPLY"}
    BY <1>4 DEF Events
  <2>4. "SUPPLY" \notin flags' /\ thread # {"SUPPLY"}
    BY <2>1
  <2>5. Due' <=> Due
    BY <2>1, <2>3, <2>4, Zenon DEF Due
  <2>6. Accounted'
    BY <1>5, <2>1, <2>5, AccountedNext
  <2>7. QED
    BY <2>2, <2>6
<1>7. CASE Count
  <2>1. /\ thread # {} /\ thread' = {} /\ flags' = flags /\ supply' = supply
        /\ owed' = IF thread = {"SUPPLY"} /\ supply /\ owed > -1 THEN owed - 1 ELSE owed
    BY <1>7 DEF Count
  <2>2. flags = {}
    BY <1>4, <2>1
  <2>3. OneEvent'
    BY <2>1, <2>2 DEF OneEvent, Events
  <2>4. ~Due'
    BY <2>1, <2>2 DEF Due
  <2>5. owed' = 0
    <3>1. CASE Due
      <4>1. thread = {"SUPPLY"} /\ supply
        BY <2>2, <3>1 DEF Due
      <4>2. owed = 1 /\ owed > -1
        BY <1>5, <3>1
      <4>3. owed' = owed - 1
        BY <2>1, <4>1, <4>2, Zenon
      <4>4. QED
        BY <4>2, <4>3
    <3>2. CASE ~Due
      <4>1. ~(thread = {"SUPPLY"} /\ supply)
        BY <3>2 DEF Due
      <4>2. owed' = owed
        BY <2>1, <4>1, Zenon
      <4>3. QED
        BY <1>5, <3>2, <4>2
    <3>3. QED
      BY <3>1, <3>2
  <2>6. Accounted'
    BY <2>4, <2>5, AccountedNext
  <2>7. QED
    BY <2>3, <2>6
<1>8. QED
  BY <1>6, <1>7

(* With every byte received, and the thread done before the next packet    *)
(* is, bullets that fell have been counted once or are about to be.        *)
THEOREM Counted ==
  ASSUME Prompt
  PROVE  Spec => []Accounted
<1>1. Init => IInv
  <2>1. Init => InOrder
    BY DEF Init, InOrder, Position, Waiting
  <2>2. Init => OneEvent
    BY DEF Init, OneEvent, Events
  <2>3. Init => Accounted
    BY DEF Init, Accounted
  <2>4. QED
    BY <2>1, <2>2, <2>3, TypeInit DEF IInv
<1>2. IInv /\ [Next]_vars => IInv'
  <2> SUFFICES ASSUME IInv, [Next]_vars PROVE IInv'
    OBVIOUS
  <2>1. OneEvent' /\ Accounted'
    BY CountedStep
  <2>2. TypeInv' /\ InOrder'
    BY TypeStep, InOrderStep DEF IInv
  <2>3. QED
    BY <2>1, <2>2 DEF IInv
<1>3. IInv => Accounted
  BY DEF IInv
<1>4. QED
  BY <1>1, <1>2, <1>3, PTL DEF Spec

-----------------------------------------------------------------------------
(* RefereeUI.                                                              *)

HIDE DEF line, receiver, vars
USE ScriptAssumption, SizeAssumption, ValuesAssumption

(* Natural numbers are well-founded.                                       *)
LEMMA Smallest ==
  ASSUME NEW S \in SUBSET Nat, S # {}
  PROVE  \E x \in S : \A y \in S : x <= y
<1> DEFINE R == OpToRel(<, Nat)
<1>1. IsWellFoundedOn(R, Nat)
  BY NatLessThanWellFounded
<1>2. R = {p \in Nat \X Nat : p[1] < p[2]}
  BY DEF OpToRel
<1> HIDE DEF R
<1>3. PICK x \in S : \A y \in S : ~(<<y, x>> \in R)
  BY <1>1, WFMin, Zenon
<1>4. ASSUME NEW y \in S PROVE x <= y
  <2>1. x \in Nat /\ y \in Nat /\ <<y, x>> \notin R
    BY <1>3, Zenon
  <2>2. y < x => <<y, x>> \in R
    BY <2>1, <1>2
  <2>3. QED
    BY <2>1, <2>2
<1>5. QED
  BY <1>4

(* The names in the script are all different.                              *)
LEMMA ScriptNames ==
  /\ Script \in Seq(STRING)
  /\ Len(Script) = Len(Labels) + Len(Lines) + Len(Circles)
  /\ Len(Labels) >= 1
  /\ \A i, j \in 1..Len(Script) : Script[i] = Script[j] => i = j
<1>0. Len(Labels) >= 1
  BY DEF Places
<1>1. Script \in Seq(STRING) /\ Len(Script) = Len(Labels) + Len(Lines) + Len(Circles)
  BY DEF Script
<1>2. [i \in 1..Len(Script) |-> Script[i]] \in Surjection(1..Len(Script), Names)
  BY <1>1 DEF Surjection, Names, Places
<1>3. IsFiniteSet(1..Len(Script)) /\ Cardinality(1..Len(Script)) = Len(Script)
  <2>1. PICK n \in Nat : n = Len(Script)
    BY <1>1
  <2>2. 1 \in Int /\ n \in Int
    BY <2>1
  <2>3. IsFiniteSet(1..n) /\ Cardinality(1..n) = IF 1 > n THEN 0 ELSE n - 1 + 1
    BY <2>2, FS_Interval
  <2>4. QED
    BY <2>1, <2>3
<1>4. [i \in 1..Len(Script) |-> Script[i]] \in Injection(1..Len(Script), Names)
  <2> DEFINE f == [i \in 1..Len(Script) |-> Script[i]]
  <2>1. f \in Surjection(1..Len(Script), Names) /\ IsFiniteSet(1..Len(Script))
    BY <1>2, <1>3
  <2>2. Cardinality(1..Len(Script)) = Cardinality(Names)
    BY <1>3
  <2> HIDE DEF f
  <2>3. f \in Injection(1..Len(Script), Names)
    BY <2>1, <2>2, FS_SurjSameCardinalityImpliesInj
  <2>4. QED
    BY <2>3 DEF f
<1>5. QED
  BY <1>0, <1>1, <1>4 DEF Injection, IsInjective

(* What the place in the script tells of a name.                           *)
LEMMA KindOfPlace ==
  ASSUME NEW i \in 1..Len(Script)
  PROVE  /\ Script[i] \in Names
         /\ Script[i] \in Places(Labels) <=> i <= Len(Labels)
         /\ Script[i] \notin Places(Labels) \cup Places(Lines) => Script[i] \in Places(Circles)
<1>1. Script[i] \in Names
  BY DEF Names, Places
<1>2. \A j \in 1..Len(Labels) : j \in 1..Len(Script) /\ Script[j] = Labels[j]
  BY ScriptNames DEF Script
<1>3. Script[i] \in Places(Labels) <=> i <= Len(Labels)
  <2>1. ASSUME i <= Len(Labels) PROVE Script[i] \in Places(Labels)
    BY <2>1, <1>2 DEF Places
  <2>2. ASSUME Script[i] \in Places(Labels) PROVE i <= Len(Labels)
    <3>1. PICK j \in 1..Len(Labels) : Script[i] = Labels[j]
      BY <2>2 DEF Places
    <3>2. j = i
      BY <3>1, <1>2, ScriptNames
    <3>3. QED
      BY <3>2
  <2>3. QED
    BY <2>1, <2>2
<1>4. ASSUME i > Len(Labels) PROVE Script[i] \in Places(Lines) \cup Places(Circles)
  <2>1. CASE i <= Len(Labels) + Len(Lines)
    <3>1. Script[i] = Lines[i - Len(Labels)] /\ i - Len(Labels) \in 1..Len(Lines)
      BY <1>4, <2>1 DEF Script
    <3>2. QED
      BY <3>1 DEF Places
  <2>2. CASE i > Len(Labels) + Len(Lines)
    <3>1. /\ Script[i] = Circles[i - Len(Labels) - Len(Lines)]
          /\ i - Len(Labels) - Len(Lines) \in 1..Len(Circles)
      BY <1>4, <2>2, ScriptNames DEF Script
    <3>2. QED
      BY <3>1 DEF Places
  <2>3. QED
    BY <1>4, <2>1, <2>2, ScriptNames
<1>5. QED
  BY <1>1, <1>3, <1>4, ScriptNames

(* A message carries the first of what is pending.                         *)
LEMMA FirstPending ==
  ASSUME UITypeOK, Pending(label, Len(label)) # {}
  PROVE  First(Pending(label, Len(label))) \in Pending(label, Len(label))
<1> DEFINE P == Pending(label, Len(label))
<1>1. P \in SUBSET Nat
  BY DEF Pending
<1>2. \E i \in P : \A j \in P : i <= j
  BY <1>1, Smallest
<1>3. QED
  BY <1>2 DEF First

-----------------------------------------------------------------------------
(* Types.                                                                  *)
LEMMA FlagsTyped ==
  ASSUME UITypeOK, [UINext]_uiVars
  PROVE  {deleting, fetched, known, lost}' \subseteq BOOLEAN
<1>1. {deleting, fetched, known, lost} \subseteq BOOLEAN
  BY DEF UITypeOK
<1>2. ASSUME NEW r \in Resetters, RemoveAll(r) \/ Test(r) \/ Add(r)
      PROVE  {deleting, fetched, known, lost}' \subseteq BOOLEAN
  BY <1>1, <1>2, Zenon DEF RemoveAll, Test, Add, lists, gauge, away
<1>3. CASE Fetch \/ Revise \/ Recognised \/ UNCHANGED uiVars
  BY <1>1, <1>3, Zenon DEF Fetch, Revise, Recognised, uiVars, lists, gauge, away
<1>4. CASE SKDThread
  BY <1>1, <1>4, Zenon DEF SKDThread, SendDeletion, SendLabel, SendShapes, Sent, gauge
<1>5. QED
  BY <1>2, <1>3, <1>4 DEF UINext

(* What is fetched is a content.                                           *)
LEMMA ContentTyped == ASSUME UITypeOK, NEW n PROVE Content(n) \in Contents
BY DEF UITypeOK, Content, Contents

(* A function on 1..n is a sequence.                                       *)
LEMMA FunctionIsSequence ==
  ASSUME NEW S, NEW n \in Nat, NEW f \in [1..n -> S]
  PROVE  f \in Seq(S) /\ Len(f) = n
OBVIOUS

(* What becomes of a graphic that is revised or sent.                      *)
LEMMA GraphicTyped ==
  /\ \A g \in Shape : [g EXCEPT !.revising = TRUE] \in Shape /\ Done(g) \in Shape
  /\ \A g \in Label : Done(g) \in Label
  /\ \A g \in Label, v \in Contents : [g EXCEPT !.content = v, !.revising = TRUE] \in Label
BY DEF Shape, Label, Done

(* Every step keeps the types.                                             *)
LEMMA UITypeStep ==
  ASSUME UITypeOK, [UINext]_uiVars
  PROVE  UITypeOK'
<1>0. {deleting, fetched, known, lost}' \subseteq BOOLEAN
  BY FlagsTyped
<1> USE <1>0 DEF UITypeOK
<1>1. ASSUME NEW r \in Resetters, RemoveAll(r)
      PROVE  UITypeOK'
  BY <1>1, ScriptNames DEF RemoveAll, gauge
<1>2. ASSUME NEW r \in Resetters, Onward(r)
      PROVE  at' \in [Resetters -> 0..Len(Script)] /\ tested' \in [Resetters -> BOOLEAN]
  <2>1. at[r] \in 0..Len(Script) /\ Len(Script) \in Nat
    BY ScriptNames
  <2>2. (IF at[r] = Len(Script) THEN 0 ELSE at[r] + 1) \in 0..Len(Script)
    BY <2>1
  <2>3. QED
    BY <1>2, <2>2 DEF Onward
<1>3. ASSUME NEW r \in Resetters, Test(r)
      PROVE  UITypeOK'
  <2>1. at' \in [Resetters -> 0..Len(Script)] /\ tested' \in [Resetters -> BOOLEAN]
    BY <1>2, <1>3 DEF Test
  <2>2. QED
    BY <1>3, <2>1 DEF Test, lists, gauge, away
<1>4. ASSUME NEW r \in Resetters, Add(r)
      PROVE  UITypeOK'
  <2>1. at[r] \in 1..Len(Script)
    BY <1>4, ScriptNames DEF Add
  <2>2. PICK n : n = Script[at[r]]
    OBVIOUS
  <2>3. label' \in Seq(Label) /\ shape' \in [1..MaxShapes -> Shape] /\ shapeCount' \in Nat
    <3>1. CASE n \in Places(Labels)
      <4>1. NewLabel(n) \in Label
        BY <3>1, ContentTyped DEF NewLabel, Label
      <4>2. label' = Append(label, NewLabel(n)) /\ UNCHANGED <<shape, shapeCount>>
        BY <1>4, <2>2, <3>1 DEF Add
      <4>3. QED
        BY <4>1, <4>2
    <3>2. CASE n \notin Places(Labels)
      <4>1. label' = label /\ shapeCount' = shapeCount + 1
        BY <1>4, <2>2, <3>2 DEF Add
      <4>2. \/ shape' = [shape EXCEPT ![shapeCount'].revising = TRUE]
            \/ n \notin Places(Lines) /\ shape' = [shape EXCEPT ![shapeCount'] = NewShape(n)]
        BY <1>4, <2>2, <3>2 DEF Add
      <4>3. n \notin Places(Lines) => NewShape(n) \in Shape
        BY <2>1, <2>2, <3>2, KindOfPlace DEF NewShape, Shape
      <4>4. ASSUME shapeCount' \in 1..MaxShapes PROVE shape' \in [1..MaxShapes -> Shape]
        <5>1. shape[shapeCount'] \in Shape
          BY <4>4
        <5>2. [shape[shapeCount'] EXCEPT !.revising = TRUE] \in Shape
          BY <5>1, GraphicTyped
        <5>3. shape' \in [1..MaxShapes -> Shape]
          BY <4>2, <4>3, <5>2
        <5>4. QED
          BY <5>3
      <4>5. shape' \in [1..MaxShapes -> Shape]
        BY <4>2, <4>4
      <4>6. QED
        BY <4>1, <4>5
    <3>3. QED
      BY <3>1, <3>2, FunctionIsSequence
  <2>4. QED
    BY <1>2, <1>4, <2>3 DEF Add, gauge, away
<1>5. CASE Fetch \/ Recognised \/ UNCHANGED uiVars
  BY <1>5 DEF Fetch, Recognised, uiVars, lists, threads, gauge, away
<1>6. CASE Revise
  <2>0. DOMAIN label = 1..Len(label)
    OBVIOUS
  <2>1. label' = [i \in 1..Len(label) |-> IF i \in Found
                    THEN [label[i] EXCEPT !.content = value, !.revising = TRUE] ELSE label[i]]
    BY <1>6, <2>0 DEF Revise
  <2>2. \A i \in 1..Len(label) :
          label[i] \in Label /\ [label[i] EXCEPT !.content = value, !.revising = TRUE] \in Label
    <3>1. value \in Contents
      BY DEF Contents
    <3>2. \A j \in 1..Len(label) : label[j] \in Label
      OBVIOUS
    <3>3. QED
      BY <3>1, <3>2, GraphicTyped
  <2>3. label' \in Seq(Label)
    <3>1. label' \in [1..Len(label) -> Label]
      BY <2>1, <2>2
    <3>2. Len(label) \in Nat
      OBVIOUS
    <3>3. QED
      BY <3>1, <3>2, FunctionIsSequence
  <2>4. QED
    BY <1>6, <2>3 DEF Revise, threads, away
<1>7. CASE SendDeletion
  BY <1>7 DEF SendDeletion, Sent, threads, gauge
<1>8. CASE SendLabel
  <2> DEFINE i == First(Pending(label, Len(label)))
  <2>1. i \in 1..Len(label)
    BY <1>8, FirstPending DEF SendLabel, Pending
  <2> HIDE DEF i
  <2>2. label[i] \in Label /\ Done(label[i]) \in Label
    <3>1. label[i] \in Label
      BY <2>1
    <3>2. \A j \in 1..Len(label) : label[j] \in Label
      OBVIOUS
    <3>3. QED
      BY <3>1, <3>2, GraphicTyped
  <2>3. label' \in Seq(Label)
    BY <1>8, <2>1, <2>2 DEF SendLabel, i
  <2>4. screen' \in [Names -> Contents \cup {Absent}]
    BY <1>8, <2>2 DEF SendLabel, Sent, Label, i
  <2>5. QED
    BY <1>8, <2>3, <2>4 DEF SendLabel, threads, gauge
<1>9. CASE SendShapes
  <2>0. \A i \in 1..MaxShapes : Done(shape[i]) \in Shape
    BY GraphicTyped
  <2>1. shape' \in [1..MaxShapes -> Shape]
    BY <1>9, <2>0 DEF SendShapes
  <2>2. screen' \in [Names -> Contents \cup {Absent}]
    BY <1>9 DEF SendShapes, Sent, Contents
  <2>3. QED
    BY <1>9, <2>1, <2>2 DEF SendShapes, threads, gauge
<1>10. QED
  BY <1>1, <1>3, <1>4, <1>5, <1>6, <1>7, <1>8, <1>9 DEF UINext, SKDThread

(* Every variable keeps its type.                                          *)
THEOREM UITyping == UISpec => []UITypeOK
<1>1. UIInit => UITypeOK
  <2> SUFFICES ASSUME UIInit PROVE UITypeOK
    OBVIOUS
  <2>1. {deleting, fetched, known, lost} \subseteq BOOLEAN
    BY Zenon DEF UIInit
  <2>2. shape \in [1..MaxShapes -> Shape]
    BY DEF UIInit, Blank, Shape
  <2>3. label \in Seq(Label) /\ shapeCount \in Nat /\ value \in Values
    BY DEF UIInit
  <2>4. at \in [Resetters -> 0..Len(Script)] /\ resets \in 0..MaxResets
    <3>1. 0 \in 0..Len(Script) /\ 0 \in 0..MaxResets
      BY ScriptNames
    <3>2. at = [r \in Resetters |-> 0] /\ resets = 0
      BY Zenon DEF UIInit
    <3>3. QED
      BY <3>1, <3>2, Zenon
  <2>5. tested \in [Resetters -> BOOLEAN] /\ screen \in [Names -> Contents \cup {Absent}]
    BY Zenon DEF UIInit
  <2>6. QED
    BY <2>1, <2>2, <2>3, <2>4, <2>5, Zenon DEF UITypeOK
<1>2. QED
  BY <1>1, UITypeStep, PTL DEF UISpec

-----------------------------------------------------------------------------
(* Room in the arrays.  What the resets under way may still add, each      *)
(* thread what is left of its script, has its place in them already.       *)
LabelPlaces == 1..Len(Labels)
ShapePlaces == (Len(Labels) + 1)..Len(Script)

\* f: the places of the threads that reset
Owed(f, S) == {p \in Resetters \X S : f[p[1]] # 0 /\ p[2] >= f[p[1]]}

LabelRoom == Cardinality(Resetters) * Len(Labels)
ShapeRoom == Cardinality(Resetters) * (Len(Lines) + Len(Circles))

RoomKept ==
  /\ Len(label) + Cardinality(Owed(at, LabelPlaces)) <= LabelRoom
  /\ shapeCount + Cardinality(Owed(at, ShapePlaces)) <= ShapeRoom

(* The sizes of the lists and the number of resetters are numbers.         *)
LEMMA Rooms == Cardinality(Resetters) \in Nat /\ LabelRoom \in Nat /\ ShapeRoom \in Nat
<1>1. Cardinality(Resetters) \in Nat
  BY FS_CardinalityType
<1>2. Len(Labels) \in Nat /\ Len(Lines) + Len(Circles) \in Nat
  OBVIOUS
<1>3. QED
  BY <1>1, <1>2 DEF LabelRoom, ShapeRoom

(* All that the threads can owe is one drawing each.                       *)
LEMMA OwedBound ==
  ASSUME NEW f
  PROVE  /\ IsFiniteSet(Owed(f, LabelPlaces)) /\ IsFiniteSet(Owed(f, ShapePlaces))
         /\ Cardinality(Owed(f, LabelPlaces)) \in 0..LabelRoom
         /\ Cardinality(Owed(f, ShapePlaces)) \in 0..ShapeRoom
<1>1. PICK l, n \in Nat : l = Len(Labels) /\ n = Len(Script) /\ n = l + (Len(Lines) + Len(Circles))
  BY ScriptNames
<1>2. 1 \in Int /\ l \in Int /\ n \in Int /\ l + 1 \in Int
  BY <1>1
<1>3. /\ IsFiniteSet(1..l) /\ Cardinality(1..l) = IF 1 > l THEN 0 ELSE l - 1 + 1
      /\ IsFiniteSet((l + 1)..n)
      /\ Cardinality((l + 1)..n) = IF l + 1 > n THEN 0 ELSE n - (l + 1) + 1
  BY <1>2, FS_Interval
<1>4. /\ IsFiniteSet(LabelPlaces) /\ Cardinality(LabelPlaces) = Len(Labels)
      /\ IsFiniteSet(ShapePlaces) /\ Cardinality(ShapePlaces) = Len(Lines) + Len(Circles)
  BY <1>1, <1>3 DEF LabelPlaces, ShapePlaces
<1>5. /\ IsFiniteSet(Resetters \X LabelPlaces)
      /\ Cardinality(Resetters \X LabelPlaces) = Cardinality(Resetters) * Cardinality(LabelPlaces)
      /\ IsFiniteSet(Resetters \X ShapePlaces)
      /\ Cardinality(Resetters \X ShapePlaces) = Cardinality(Resetters) * Cardinality(ShapePlaces)
  BY <1>4, FS_Product
<1>6. /\ Owed(f, LabelPlaces) \in SUBSET (Resetters \X LabelPlaces)
      /\ Owed(f, ShapePlaces) \in SUBSET (Resetters \X ShapePlaces)
  BY DEF Owed
<1>7. /\ IsFiniteSet(Owed(f, LabelPlaces)) /\ IsFiniteSet(Owed(f, ShapePlaces))
      /\ Cardinality(Owed(f, LabelPlaces)) <= Cardinality(Resetters \X LabelPlaces)
      /\ Cardinality(Owed(f, ShapePlaces)) <= Cardinality(Resetters \X ShapePlaces)
  BY <1>5, <1>6, FS_Subset
<1>8. Cardinality(Owed(f, LabelPlaces)) \in Nat /\ Cardinality(Owed(f, ShapePlaces)) \in Nat
  BY <1>7, FS_CardinalityType
<1>9. QED
  BY <1>4, <1>5, <1>7, <1>8, Rooms DEF LabelRoom, ShapeRoom

(* A thread that goes on owes one thing less.                              *)
LEMMA OwedOnward ==
  ASSUME UITypeOK, NEW r \in Resetters, Onward(r), at[r] # 0,
         NEW S \in {LabelPlaces, ShapePlaces}
  PROVE  Owed(at', S) = Owed(at, S) \ {<<r, at[r]>>}
<1>0. PICK f, g : f = at /\ g = at'
  OBVIOUS
<1>1. PICK n \in Nat : n = Len(Script)
  BY ScriptNames
<1>2. \A i \in S : i \in 1..n
  <2>1. Len(Labels) \in Nat
    OBVIOUS
  <2>2. QED
    BY <1>1, <2>1, ScriptNames DEF LabelPlaces, ShapePlaces
<1>3. ASSUME NEW q \in Resetters, NEW i \in S
      PROVE  g[q] # 0 /\ i >= g[q] <=> f[q] # 0 /\ i >= f[q] /\ ~(q = r /\ i = f[r])
  <2>1. f[q] \in 0..n /\ f[r] \in 1..n /\ i \in 1..n
    BY <1>0, <1>1, <1>2 DEF UITypeOK
  <2>2. CASE q # r
    BY <1>0, <2>2 DEF Onward, UITypeOK
  <2>3. CASE q = r
    <3>1. g[r] = IF f[r] = n THEN 0 ELSE f[r] + 1
      BY <1>0, <1>1 DEF Onward, UITypeOK
    <3>2. QED
      BY <2>1, <2>3, <3>1
  <2>4. QED
    BY <2>2, <2>3
<1>4. ASSUME NEW p \in Resetters \X S
      PROVE  p \in Owed(g, S) <=> p \in Owed(f, S) /\ p # <<r, f[r]>>
  <2>1. PICK q \in Resetters, i \in S : p = <<q, i>>
    OBVIOUS
  <2>2. p = <<r, f[r]>> <=> q = r /\ i = f[r]
    BY <2>1
  <2>3. p[1] = q /\ p[2] = i
    BY <2>1
  <2>4. QED
    BY <1>3, <2>2, <2>3 DEF Owed
<1>5. Owed(g, S) \subseteq Resetters \X S /\ Owed(f, S) \subseteq Resetters \X S
  BY DEF Owed
<1>6. QED
  BY <1>0, <1>4, <1>5

(* A resetter that goes on owes its list one graphic less.                 *)
LEMMA OwedLess ==
  ASSUME UITypeOK, NEW r \in Resetters, Onward(r), at[r] # 0
  PROVE  /\ Cardinality(Owed(at', LabelPlaces)) =
              Cardinality(Owed(at, LabelPlaces)) - (IF at[r] <= Len(Labels) THEN 1 ELSE 0)
         /\ Cardinality(Owed(at', ShapePlaces)) =
              Cardinality(Owed(at, ShapePlaces)) - (IF at[r] <= Len(Labels) THEN 0 ELSE 1)
<1>1. at \in [Resetters -> 0..Len(Script)] /\ at[r] \in 1..Len(Script)
  BY ScriptNames DEF UITypeOK
<1>3. ASSUME NEW S \in {LabelPlaces, ShapePlaces}
      PROVE  /\ Cardinality(Owed(at', S)) =
                  IF <<r, at[r]>> \in Owed(at, S) THEN Cardinality(Owed(at, S)) - 1
                  ELSE Cardinality(Owed(at, S))
             /\ <<r, at[r]>> \in Owed(at, S) <=> at[r] \in S
  <2>1. Owed(at', S) = Owed(at, S) \ {<<r, at[r]>>}
    BY OwedOnward
  <2>2. IsFiniteSet(Owed(at, S))
    BY OwedBound
  <2>3. <<r, at[r]>> \in Owed(at, S) <=> at[r] \in S
    BY <1>1 DEF Owed
  <2>4. Cardinality(Owed(at, S) \ {<<r, at[r]>>}) =
          IF <<r, at[r]>> \in Owed(at, S) THEN Cardinality(Owed(at, S)) - 1
          ELSE Cardinality(Owed(at, S))
    BY <2>2, FS_RemoveElement
  <2>5. QED
    BY <2>1, <2>3, <2>4, Zenon
<1>4. /\ at[r] \in LabelPlaces <=> at[r] <= Len(Labels)
      /\ at[r] \in ShapePlaces <=> ~(at[r] <= Len(Labels))
  BY <1>1, ScriptNames DEF LabelPlaces, ShapePlaces
<1>5. Cardinality(Owed(at, LabelPlaces)) \in Nat /\ Cardinality(Owed(at, ShapePlaces)) \in Nat
  BY OwedBound, Rooms
<1>6. QED
  BY <1>3, <1>4, <1>5

(* Every step leaves room for what the resetters still owe.                *)
LEMMA RoomStep ==
  ASSUME UITypeOK, RoomKept, [UINext]_uiVars
  PROVE  RoomKept'
<1>1. Len(label) \in Nat /\ shapeCount \in Nat
  BY DEF UITypeOK
<1>2. /\ Cardinality(Owed(at, LabelPlaces)) \in 0..LabelRoom
      /\ Cardinality(Owed(at, ShapePlaces)) \in 0..ShapeRoom
      /\ Cardinality(Owed(at', LabelPlaces)) \in 0..LabelRoom
      /\ Cardinality(Owed(at', ShapePlaces)) \in 0..ShapeRoom
  BY OwedBound
<1>0. RoomKept' <=>
        /\ Len(label') + Cardinality(Owed(at', LabelPlaces)) <= LabelRoom
        /\ shapeCount' + Cardinality(Owed(at', ShapePlaces)) <= ShapeRoom
  BY DEF RoomKept, Owed, LabelPlaces, ShapePlaces, LabelRoom, ShapeRoom
<1> HIDE ScriptAssumption, SizeAssumption, ValuesAssumption
<1> USE Rooms, <1>0, <1>1, <1>2 DEF RoomKept
<1>3. ASSUME NEW r \in Resetters, RemoveAll(r) PROVE RoomKept'
  <2>1. Len(label') = 0 /\ shapeCount' = 0
    BY <1>3 DEF RemoveAll
  <2>2. QED
    BY <2>1
<1>4. ASSUME NEW r \in Resetters, Test(r) PROVE RoomKept'
  <2>1. label' = label /\ shapeCount' = shapeCount /\ (at' = at \/ Onward(r)) /\ at[r] # 0
    BY <1>4 DEF Test, lists
  <2>2. CASE at' = at
    BY <2>1, <2>2
  <2>3. CASE Onward(r)
    <3>1. /\ Cardinality(Owed(at', LabelPlaces)) <= Cardinality(Owed(at, LabelPlaces))
          /\ Cardinality(Owed(at', ShapePlaces)) <= Cardinality(Owed(at, ShapePlaces))
      <4>1. /\ Cardinality(Owed(at', LabelPlaces)) =
                 Cardinality(Owed(at, LabelPlaces)) - (IF at[r] <= Len(Labels) THEN 1 ELSE 0)
            /\ Cardinality(Owed(at', ShapePlaces)) =
                 Cardinality(Owed(at, ShapePlaces)) - (IF at[r] <= Len(Labels) THEN 0 ELSE 1)
        BY <2>1, <2>3, OwedLess
      <4>2. CASE at[r] <= Len(Labels)
        BY <4>1, <4>2
      <4>3. CASE ~(at[r] <= Len(Labels))
        BY <4>1, <4>3
      <4>4. QED
        BY <4>2, <4>3
    <3>2. QED
      BY <2>1, <3>1
  <2>4. QED
    BY <2>1, <2>2, <2>3
<1>5. ASSUME NEW r \in Resetters, Add(r) PROVE RoomKept'
  <2>1. at[r] \in 1..Len(Script) /\ at[r] # 0 /\ Onward(r)
    <3>1. at[r] # 0 /\ Onward(r)
      BY <1>5 DEF Add
    <3>2. at[r] \in 0..Len(Script) /\ Len(Script) \in Nat
      BY ScriptNames DEF UITypeOK
    <3>3. QED
      BY <3>1, <3>2
  <2>2. PICK n : n = Script[at[r]]
    OBVIOUS
  <2>3. n \in Places(Labels) <=> at[r] <= Len(Labels)
    BY <2>1, <2>2, KindOfPlace
  <2>4. CASE at[r] <= Len(Labels)
    <3>1. label' = Append(label, NewLabel(n)) /\ shapeCount' = shapeCount
      BY <1>5, <2>2, <2>3, <2>4 DEF Add
    <3>2. Len(label') = Len(label) + 1
      BY <3>1 DEF UITypeOK
    <3>3. /\ Cardinality(Owed(at', LabelPlaces)) = Cardinality(Owed(at, LabelPlaces)) - 1
          /\ Cardinality(Owed(at', ShapePlaces)) = Cardinality(Owed(at, ShapePlaces))
      BY <2>1, <2>4, OwedLess
    <3>4. QED
      BY <3>1, <3>2, <3>3
  <2>5. CASE ~(at[r] <= Len(Labels))
    <3>1. label' = label /\ shapeCount' = shapeCount + 1
      BY <1>5, <2>2, <2>3, <2>5 DEF Add
    <3>2. /\ Cardinality(Owed(at', LabelPlaces)) = Cardinality(Owed(at, LabelPlaces))
          /\ Cardinality(Owed(at', ShapePlaces)) = Cardinality(Owed(at, ShapePlaces)) - 1
      BY <2>1, <2>5, OwedLess
    <3>3. QED
      BY <3>1, <3>2
  <2>6. QED
    BY <2>4, <2>5
<1>6. CASE Revise \/ SendLabel
  <2>1. DOMAIN label' = 1..Len(label) /\ label' \in Seq(Label)
    <3>1. label' \in Seq(Label) /\ DOMAIN label = 1..Len(label)
      BY UITypeStep DEF UITypeOK
    <3>2. DOMAIN label' = DOMAIN label
      BY <1>6 DEF Revise, SendLabel
    <3>3. QED
      BY <3>1, <3>2
  <2>2. label' \in [1..Len(label) -> Label]
    BY <2>1
  <2>3. Len(label') = Len(label)
    BY <2>2, FunctionIsSequence
  <2>4. shapeCount' = shapeCount /\ at' = at
    BY <1>6 DEF Revise, SendLabel, threads
  <2>5. QED
    BY <2>3, <2>4
<1>7. CASE Fetch \/ Recognised \/ SendDeletion \/ SendShapes \/ UNCHANGED uiVars
  <2>1. label' = label /\ shapeCount' = shapeCount /\ at' = at
    BY <1>7 DEF Fetch, Recognised, SendDeletion, SendShapes, uiVars, lists, threads
  <2>2. QED
    BY <2>1
<1>8. QED
  BY <1>3, <1>4, <1>5, <1>6, <1>7 DEF UINext, SKDThread

(* There is always room for what the resetters still owe.                  *)
LEMMA RoomInv == UISpec => []RoomKept
<1>1. UIInit => RoomKept
  <2> SUFFICES ASSUME UIInit PROVE RoomKept
    OBVIOUS
  <2>1. Len(label) = 0 /\ shapeCount = 0
    BY DEF UIInit
  <2>2. QED
    BY <2>1, OwedBound, Rooms DEF RoomKept
<1>2. QED
  BY UITyping, <1>1, RoomStep, PTL DEF UISpec

(* The arrays of labels and of shapes are never overrun, for every number  *)
(* of threads that reset and every script that has room once for each,     *)
(* though the room is asked for before the mutex is taken.                 *)
THEOREM NeverOverrun == UISpec => []Fits
<1>1. UITypeOK /\ RoomKept => Fits
  <2> SUFFICES ASSUME UITypeOK, RoomKept PROVE Fits
    OBVIOUS
  <2>1. Len(label) \in Nat /\ shapeCount \in Nat
    BY DEF UITypeOK
  <2>2. /\ Cardinality(Owed(at, LabelPlaces)) \in 0..LabelRoom
        /\ Cardinality(Owed(at, ShapePlaces)) \in 0..ShapeRoom
    BY OwedBound
  <2>3. LabelRoom <= MaxLabels /\ ShapeRoom <= MaxShapes
    BY DEF LabelRoom, ShapeRoom
  <2>4. MaxLabels \in Nat /\ MaxShapes \in Nat
    OBVIOUS
  <2> HIDE ScriptAssumption, SizeAssumption, ValuesAssumption
  <2>5. QED
    BY <2>1, <2>2, <2>3, <2>4, Rooms DEF RoomKept, Fits
<1>2. QED
  BY UITyping, RoomInv, <1>1, PTL

-----------------------------------------------------------------------------
(* What the screen shows.  A label that has been sent once is "MODIFY",    *)
(* and on the screen for as long as nothing is deleted or lost; while the  *)
(* deletion is waiting none of the new ones has been sent.                 *)
LabelsShown ==
  /\ \A i \in DOMAIN label : label[i].op = "ADD" => label[i].revising
  /\ deleting => \A i \in DOMAIN label : label[i].op = "ADD"
  /\ ~deleting /\ ~lost =>
       \A i \in DOMAIN label : label[i].op = "MODIFY" => screen[label[i].name] # Absent

(* What SendLabel sends, and what it leaves.                               *)
LEMMA SendsLabel ==
  ASSUME UITypeOK, SendLabel
  PROVE  \E i \in DOMAIN label :
           /\ label[i] \in Label /\ ~deleting /\ ~deleting'
           /\ label' = [label EXCEPT ![i] = Done(label[i])]
           /\ lost' = (lost \/ ~known)
           /\ known => screen' = IF label[i].op = "ADD" \/ screen[label[i].name] # Absent
                                 THEN [screen EXCEPT ![label[i].name] = label[i].content]
                                 ELSE screen
<1>1. First(Pending(label, Len(label))) \in 1..Len(label) /\ DOMAIN label = 1..Len(label)
  BY FirstPending DEF SendLabel, Pending, UITypeOK
<1>2. PICK i \in DOMAIN label : i = First(Pending(label, Len(label)))
  BY <1>1
<1>3. label[i] \in Label
  BY <1>1, <1>2 DEF UITypeOK
<1>4. ~deleting /\ ~deleting'
  BY DEF SendLabel
<1>5. label' = [label EXCEPT ![i] = Done(label[i])]
  BY <1>2 DEF SendLabel
<1>6. lost' = (lost \/ ~known)
  BY Zenon DEF SendLabel, Sent
<1>7. known => screen' = IF label[i].op = "ADD" \/ screen[label[i].name] # Absent
                         THEN [screen EXCEPT ![label[i].name] = label[i].content]
                         ELSE screen
  BY <1>2 DEF SendLabel, Sent
<1>8. QED
  BY <1>3, <1>4, <1>5, <1>6, <1>7

(* The labels of the script have names of graphics.                        *)
LEMMA LabelNames == Places(Labels) \subseteq Names
<1>1. \A j \in 1..Len(Labels) : j \in 1..Len(Script) /\ Script[j] = Labels[j]
  BY ScriptNames DEF Script
<1>2. QED
  BY <1>1 DEF Names, Places

(* What is in the list of labels is a label with a name.                   *)
LEMMA LabelEntries ==
  ASSUME UITypeOK
  PROVE  \A j \in DOMAIN label : label[j] \in Label /\ label[j].name \in Names
<1>1. \A j \in DOMAIN label : label[j] \in Label
  BY DEF UITypeOK
<1>2. \A l \in Label : l.name \in Names
  BY LabelNames DEF Label
<1>3. QED
  BY <1>1, <1>2

(* Nothing drawn looks like nothing.                                       *)
LEMMA NoContentIsAbsent == Absent \notin Contents
BY DEF Contents, Absent, Fixed

(* Every step keeps labels that were sent on the screen.                   *)
LEMMA ShownStep ==
  ASSUME UITypeOK, LabelsShown, [UINext]_uiVars
  PROVE  LabelsShown'
<1> HIDE ScriptAssumption, SizeAssumption, ValuesAssumption
<1> USE DEF LabelsShown
<1>1. ASSUME NEW r \in Resetters, RemoveAll(r) PROVE LabelsShown'
  BY <1>1 DEF RemoveAll
<1>2. ASSUME NEW r \in Resetters, Test(r) PROVE LabelsShown'
  BY <1>2 DEF Test, lists, away
<1>3. ASSUME NEW r \in Resetters, Add(r) PROVE LabelsShown'
  <2>1. deleting' = deleting /\ lost' = lost /\ screen' = screen
    BY <1>3 DEF Add, away
  <2>2. label' = label \/ \E n : label' = Append(label, NewLabel(n))
    BY <1>3 DEF Add
  <2>3. CASE label' = label
    BY <2>1, <2>3
  <2>4. ASSUME NEW n, label' = Append(label, NewLabel(n)) PROVE LabelsShown'
    <3>1. DOMAIN label = 1..Len(label) /\ Len(label) \in Nat
      BY DEF UITypeOK
    <3>2. DOMAIN label' = 1..(Len(label) + 1) /\ label'[Len(label) + 1] = NewLabel(n)
      BY <2>4 DEF UITypeOK
    <3>3. \A i \in DOMAIN label : label'[i] = label[i]
      BY <2>4 DEF UITypeOK
    <3>4. NewLabel(n).op = "ADD" /\ NewLabel(n).revising
      BY DEF NewLabel
    <3>5. \A i \in DOMAIN label' : i \in DOMAIN label \/ i = Len(label) + 1
      BY <3>1, <3>2
    <3>6. QED
      BY <2>1, <3>2, <3>3, <3>4, <3>5
  <2>5. QED
    BY <2>2, <2>3, <2>4
<1>4. CASE Fetch \/ Recognised \/ SendShapes \/ UNCHANGED uiVars
  <2>1. label' = label /\ deleting' = deleting /\ (lost' = lost \/ (lost' = (lost \/ ~known)))
    BY <1>4 DEF Fetch, Recognised, SendShapes, Sent, uiVars, lists, away
  <2>2. ~lost' => ~lost /\ \A n \in Names : screen[n] # Absent => screen'[n] # Absent
    <3>1. CASE Fetch \/ Recognised \/ UNCHANGED uiVars
      BY <3>1 DEF Fetch, Recognised, uiVars, away
    <3>2. CASE SendShapes
      <4>1. lost' = (lost \/ ~known)
        BY <3>2, Zenon DEF SendShapes, Sent
      <4>2. \/ screen' = screen
            \/ screen' = [n \in Names |->
                 IF \E i \in Batch : shape[i].name = n /\ shape[i].op = "ADD"
                 THEN Fixed ELSE screen[n]]
        BY <3>2, Zenon DEF SendShapes, Sent
      <4>3. \A n \in Names : screen[n] # Absent => screen'[n] # Absent
        BY <4>2 DEF Fixed, Absent
      <4>4. QED
        BY <4>1, <4>3, Zenon
    <3>3. QED
      BY <1>4, <3>1, <3>2
  <2>3. \A i \in DOMAIN label : label[i].name \in Names
    BY LabelEntries
  <2>4. QED
    BY <2>1, <2>2, <2>3
<1>5. CASE Revise
  <2>1. deleting' = deleting /\ lost' = lost /\ screen' = screen /\ DOMAIN label' = DOMAIN label
    BY <1>5 DEF Revise, away
  <2>2. ASSUME NEW i \in DOMAIN label
        PROVE  /\ label'[i].name = label[i].name /\ label'[i].op = label[i].op
               /\ label'[i].revising = label[i].revising \/ label'[i].revising
    <3>1. label[i] \in Label
      BY DEF UITypeOK
    <3>2. \/ label'[i] = label[i]
          \/ label'[i] = [label[i] EXCEPT !.content = value, !.revising = TRUE]
      BY <1>5 DEF Revise
    <3>3. QED
      BY <3>1, <3>2 DEF Label
  <2>3. QED
    BY <2>1, <2>2
<1>6. CASE SendDeletion
  <2>1. label' = label /\ deleting /\ (~lost' => known)
    BY <1>6, Zenon DEF SendDeletion, Sent
  <2>2. \A i \in DOMAIN label : label[i].op # "MODIFY"
    BY <2>1
  <2>3. QED
    BY <1>6, <2>1, <2>2 DEF SendDeletion
<1>7. CASE SendLabel
  <2>1. PICK i \in DOMAIN label :
           /\ label[i] \in Label /\ ~deleting /\ ~deleting'
           /\ label' = [label EXCEPT ![i] = Done(label[i])]
           /\ lost' = (lost \/ ~known)
           /\ known => screen' = IF label[i].op = "ADD" \/ screen[label[i].name] # Absent
                                 THEN [screen EXCEPT ![label[i].name] = label[i].content]
                                 ELSE screen
    BY <1>7, SendsLabel
  <2>2. /\ Done(label[i]).name = label[i].name /\ Done(label[i]).op = "MODIFY"
        /\ label[i].op \in {"ADD", "MODIFY"} /\ label[i].content # Absent
    BY <2>1, NoContentIsAbsent DEF Done, Label
  <2>3. /\ DOMAIN label' = DOMAIN label
        /\ \A j \in DOMAIN label : label'[j] = IF j = i THEN Done(label[i]) ELSE label[j]
    BY <2>1
  <2>4. \A j \in DOMAIN label : label[j].name \in Names
    BY LabelEntries
  <2>5. ASSUME ~lost'
        PROVE  \A j \in DOMAIN label : label'[j].op = "MODIFY" => screen'[label'[j].name] # Absent
    <3>1. ~lost /\ known
      BY <2>1, <2>5, Zenon
    <3>2. screen[label[i].name] # Absent \/ label[i].op = "ADD"
      BY <2>1, <2>2, <3>1
    <3>3. screen' = [screen EXCEPT ![label[i].name] = label[i].content]
      BY <2>1, <3>1, <3>2
    <3>4. \A n \in Names : screen'[n] = IF n = label[i].name THEN label[i].content ELSE screen[n]
      BY <3>3 DEF UITypeOK
    <3>5. QED
      BY <2>1, <2>2, <2>3, <2>4, <3>1, <3>4
  <2>6. QED
    BY <2>1, <2>2, <2>3, <2>5
<1>8. QED
  BY <1>1, <1>2, <1>3, <1>4, <1>5, <1>6, <1>7 DEF UINext, SKDThread

(* A label that counts as sent is on the screen, for every script, every   *)
(* number of resetting threads and every order of their steps with those   *)
(* of the sending thread, unless a message was lost.                       *)
THEOREM SentLabelsShow == UISpec => []SentIsShown
<1>1. UIInit => LabelsShown
  BY DEF UIInit, LabelsShown
<1>2. UITypeOK /\ LabelsShown => SentIsShown
  <2> SUFFICES ASSUME UITypeOK, LabelsShown, ~deleting, ~lost,
                      NEW i \in DOMAIN label, ~label[i].revising
               PROVE  screen[label[i].name] # Absent
    BY DEF SentIsShown
  <2>1. label[i] \in Label
    BY DEF UITypeOK
  <2>2. label[i].op = "MODIFY"
    BY <2>1 DEF Label, LabelsShown
  <2>3. QED
    BY <2>2 DEF LabelsShown
<1>3. QED
  BY UITyping, <1>1, <1>2, ShownStep, PTL DEF UISpec

-----------------------------------------------------------------------------
(* Nothing on the screen but what the lists hold.  A name leaves the lists *)
(* only by remove_all().                                                   *)
LEMMA StaysListed ==
  ASSUME UITypeOK, Fits, Revise \/ SendLabel \/ SendShapes \/ \E r \in Resetters : Add(r)
  PROVE  Listed \subseteq Listed'
<1> HIDE ScriptAssumption, SizeAssumption, ValuesAssumption
<1> DEFINE Same(i) == i \in DOMAIN label' /\ label'[i].name = label[i].name
           SameShape(i) == shape'[i].name = shape[i].name
<1>1. CASE Revise
  <2>1. ASSUME NEW i \in DOMAIN label PROVE Same(i)
    <3>1. label[i] \in Label
      BY LabelEntries
    <3>2. \/ label'[i] = label[i]
          \/ label'[i] = [label[i] EXCEPT !.content = value, !.revising = TRUE]
      BY <1>1 DEF Revise
    <3>3. QED
      BY <1>1, <3>1, <3>2 DEF Revise, Label
  <2>2. shape' = shape /\ shapeCount' = shapeCount
    BY <1>1 DEF Revise
  <2>3. QED
    BY <2>1, <2>2 DEF Listed
<1>2. CASE SendLabel
  <2>1. shape' = shape /\ shapeCount' = shapeCount
    BY <1>2 DEF SendLabel
  <2>2. PICK i \in DOMAIN label :
          label[i] \in Label /\ label' = [label EXCEPT ![i] = Done(label[i])]
    BY <1>2, SendsLabel
  <2>3. Done(label[i]).name = label[i].name
    BY <2>2 DEF Done, Label
  <2>4. \A j \in DOMAIN label : Same(j)
    BY <2>2, <2>3
  <2>5. QED
    BY <2>1, <2>4 DEF Listed
<1>3. CASE SendShapes
  <2>1. label' = label /\ shapeCount' = shapeCount
    BY <1>3 DEF SendShapes
  <2>2. ASSUME NEW i \in 1..shapeCount PROVE SameShape(i)
    <3>1. i \in DOMAIN shape /\ shape[i] \in Shape
      BY SizeAssumption DEF UITypeOK, Fits
    <3>2. shape'[i] = shape[i] \/ shape'[i] = Done(shape[i])
      BY <1>3, <3>1 DEF SendShapes
    <3>3. QED
      BY <3>1, <3>2 DEF Done, Shape
  <2>3. QED
    BY <2>1, <2>2 DEF Listed
<1>4. ASSUME NEW r \in Resetters, Add(r) PROVE Listed \subseteq Listed'
  <2>1. \/ /\ \E n : label' = Append(label, NewLabel(n))
           /\ shape' = shape /\ shapeCount' = shapeCount
        \/ /\ label' = label /\ shapeCount' = shapeCount + 1
           /\ \E s : \/ shape' = [shape EXCEPT ![shapeCount'].revising = TRUE]
                     \/ shape' = [shape EXCEPT ![shapeCount'] = s]
    BY <1>4 DEF Add
  <2>2. ASSUME NEW n, label' = Append(label, NewLabel(n)),
               shape' = shape, shapeCount' = shapeCount
        PROVE  Listed \subseteq Listed'
    <3>1. \A i \in DOMAIN label : Same(i)
      BY <2>2 DEF UITypeOK
    <3>2. QED
      BY <2>2, <3>1 DEF Listed
  <2>3. ASSUME label' = label, shapeCount' = shapeCount + 1, NEW s,
               \/ shape' = [shape EXCEPT ![shapeCount'].revising = TRUE]
               \/ shape' = [shape EXCEPT ![shapeCount'] = s]
        PROVE  Listed \subseteq Listed'
    <3>1. ASSUME NEW i \in 1..shapeCount
          PROVE  SameShape(i) /\ i \in 1..shapeCount'
      <4>1. i \in DOMAIN shape /\ i # shapeCount' /\ i \in 1..shapeCount'
        <5>1. shapeCount \in Nat /\ shapeCount <= MaxShapes /\ DOMAIN shape = 1..MaxShapes
          BY DEF UITypeOK, Fits
        <5>2. MaxShapes \in Nat
          BY SizeAssumption
        <5>3. QED
          BY <2>3, <5>1, <5>2
      <4>2. shape'[i] = shape[i]
        BY <2>3, <4>1
      <4>3. QED
        BY <4>1, <4>2
    <3>2. QED
      BY <2>3, <3>1 DEF Listed
  <2>4. QED
    BY <2>1, <2>2, <2>3
<1>5. QED
  BY <1>1, <1>2, <1>3, <1>4

(* Every step keeps the screen free of what no list holds.                 *)
LEMMA GhostStep ==
  ASSUME UITypeOK, Fits, NoGhosts, [UINext]_uiVars
  PROVE  NoGhosts'
<1> HIDE ScriptAssumption, SizeAssumption, ValuesAssumption
<1>1. ASSUME NEW r \in Resetters, RemoveAll(r) PROVE NoGhosts'
  BY <1>1 DEF RemoveAll, NoGhosts
<1>2. ASSUME NEW r \in Resetters, Test(r) PROVE NoGhosts'
  BY <1>2 DEF Test, lists, away, NoGhosts, Listed
<1>3. CASE Fetch \/ Recognised \/ UNCHANGED uiVars
  BY <1>3 DEF Fetch, Recognised, uiVars, lists, away, NoGhosts, Listed
<1>4. CASE Revise \/ \E r \in Resetters : Add(r)
  <2>1. deleting' = deleting /\ lost' = lost /\ screen' = screen
    BY <1>4 DEF Revise, Add, away
  <2>2. Listed \subseteq Listed'
    BY <1>4, StaysListed
  <2>3. QED
    BY <2>1, <2>2 DEF NoGhosts
<1>5. CASE SendDeletion
  <2>1. ~lost' => screen' = [n \in Names |-> Absent]
    BY <1>5, Zenon DEF SendDeletion, Sent
  <2>2. QED
    BY <2>1 DEF NoGhosts
<1>6. CASE SendLabel
  <2>1. PICK i \in DOMAIN label :
           /\ label[i] \in Label /\ ~deleting /\ ~deleting'
           /\ label' = [label EXCEPT ![i] = Done(label[i])]
           /\ lost' = (lost \/ ~known)
           /\ known => screen' = IF label[i].op = "ADD" \/ screen[label[i].name] # Absent
                                 THEN [screen EXCEPT ![label[i].name] = label[i].content]
                                 ELSE screen
    BY <1>6, SendsLabel
  <2>2. ~lost' => ~lost /\ known
    BY <2>1, Zenon
  <2>3. known => \A n \in Names : screen'[n] = screen[n] \/ n = label[i].name
    BY <2>1 DEF UITypeOK
  <2>4. Listed \subseteq Listed' /\ label[i].name \in Listed
    BY <1>6, StaysListed DEF Listed
  <2>5. QED
    BY <2>1, <2>2, <2>3, <2>4 DEF NoGhosts
<1>7. CASE SendShapes
  <2>1. ~deleting /\ (~lost' => ~lost /\ known)
    BY <1>7, Zenon DEF SendShapes, Sent
  <2>2. known => screen' = [n \in Names |->
                   IF \E i \in Batch : shape[i].name = n /\ shape[i].op = "ADD"
                   THEN Fixed ELSE screen[n]]
    BY <1>7, Zenon DEF SendShapes, Sent
  <2>3. ASSUME NEW i \in Batch PROVE shape[i].name \in Listed
    BY DEF Batch, Pending, Listed
  <2>4. known => \A n \in Names : screen'[n] = screen[n] \/ n \in Listed
    BY <2>2, <2>3
  <2>5. Listed \subseteq Listed'
    BY <1>7, StaysListed
  <2>6. QED
    BY <2>1, <2>4, <2>5 DEF NoGhosts
<1>8. QED
  BY <1>1, <1>2, <1>3, <1>4, <1>5, <1>6, <1>7 DEF UINext, SKDThread

(* No graphic outlives the lists: for every script a deletion goes out     *)
(* before anything of the new drawing, and takes all of the old one.       *)
THEOREM NothingOutlivesItsList == UISpec => []NoGhosts
<1>1. UIInit => NoGhosts
  BY DEF UIInit, NoGhosts
<1>2. QED
  BY UITyping, NeverOverrun, <1>1, GhostStep, PTL DEF UISpec
=============================================================================
