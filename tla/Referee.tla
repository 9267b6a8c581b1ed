------------------------------ MODULE Referee ------------------------------
(***************************************************************************)
(* Reception from the referee system, and the thread that counts the       *)
(* bullets it supplies.  The referee system sends packets without a pause; *)
(* nothing but the byte 0xA5 marks where one begins, and that byte may as  *)
(* well be data.  uart_rx_callback() asks the driver for one byte until it *)
(* has that one, then for the rest of a header, then for as many bytes as  *)
(* the header says, and each time decides what to ask for next.            *)
(*                                                                         *)
(* A byte may be lost or altered while the line is disturbed.  A checksum  *)
(* of 8 bits may accept a header that is none, and with it any length of   *)
(* 16 bits (Claims), which the callback asks the driver for as it is:      *)
(* more than a packet, several packets, more than pak holds.  The checksum *)
(* of 16 bits is taken to accept nothing but a packet.                     *)
(***************************************************************************)
EXTENDS Naturals, Integers

CONSTANTS
  HeaderRest,  \* FRAME_HEADER_SIZE - FRAME_SOF_SIZE, in bytes of the model
  Rests,       \* what follows a header: command, data and checksum, in bytes
  Claims,      \* what a header that is none may say follows it
  Room,        \* the bytes of pak behind the header
  Prompt       \* bound: the counting thread is done before the next packet is

ASSUME RefereeAssumption ==
  /\ HeaderRest \in Nat \ {0} /\ Room \in Nat /\ Prompt \in BOOLEAN
  /\ Claims \subseteq Nat \ {0} /\ Rests \subseteq Claims
  /\ \A r \in Rests : r <= Room

(* What a packet says: bullets fall for this robot, another step of a      *)
(* supply, anything else.  The first two have the same command.            *)
Kinds == {"FALL", "STEP", "STATE"}
Command(k) == IF k = "STATE" THEN "STATE" ELSE "SUPPLY"
Commands == {"SUPPLY", "STATE"}
Packets == [kind : Kinds, rest : Rests, odd : BOOLEAN]

VARIABLES
  packet,     \* being sent; odd if it holds a 0xA5 or bytes that pass for a header
  place,      \* the byte of it that comes next
  disturbed,  \* the line, now
  rx_status,  \* Referee::rx_status
  need,       \* bytes until the callback is called
  intact,     \* the buffer holds bytes of one packet only, in order and unaltered
  supply,     \* Referee::supply_projectile_action: bullets fell in the last one
  flags,      \* commands in data_received_listener
  thread,     \* the flags BulletCounterThread looks at, {} while it waits
  owed,       \* history: bullets that fell, less those counted, within -1..1
  touched     \* history: a byte was lost or altered

line     == <<packet, place, disturbed, touched>>
receiver == <<rx_status, need, intact>>
vars     == <<line, receiver, supply, flags, thread, owed>>

Statuses == {"WAIT_STARTING_BYTE", "WAIT_REMAINING_HEADER", "WAIT_CMD_ID_DATA_TAIL"}
Size(p) == 1 + HeaderRest + p.rest

TypeOK ==
  /\ packet \in Packets /\ place \in 1..Size(packet) + 1 /\ disturbed \in BOOLEAN
  /\ rx_status \in Statuses /\ intact \in BOOLEAN
  /\ need \in CASE rx_status = "WAIT_STARTING_BYTE" -> {1}
                [] rx_status = "WAIT_REMAINING_HEADER" -> 1..HeaderRest
                [] rx_status = "WAIT_CMD_ID_DATA_TAIL" -> UNION {1..r : r \in Claims}
  /\ supply \in BOOLEAN /\ flags \in SUBSET Commands
  /\ thread \in SUBSET Commands
  /\ owed \in -1..1 /\ touched \in BOOLEAN

(* The receiver may be started while a packet is under way.                *)
Init ==
  /\ packet \in Packets /\ place \in 1..Size(packet) /\ disturbed = FALSE
  /\ rx_status = "WAIT_STARTING_BYTE" /\ need = 1 /\ intact = FALSE
  /\ supply = FALSE /\ flags = {} /\ thread = {}
  /\ owed = 0 /\ touched \in BOOLEAN /\ (touched <=> place > 1)

-----------------------------------------------------------------------------
(* The callback.                                                           *)

Await(status, bytes) == rx_status' = status /\ need' = bytes

Start(sof) ==
  /\ rx_status = "WAIT_STARTING_BYTE"
  /\ IF sof THEN Await("WAIT_REMAINING_HEADER", HeaderRest)
            ELSE UNCHANGED <<rx_status, need>>
  /\ UNCHANGED <<supply, flags>>

(* odd: what is no header may yet pass for one.                            *)
HeaderAgain(whole, odd) ==   \* mutant of Header: what is no header is read over
  /\ rx_status = "WAIT_REMAINING_HEADER" /\ need = 1
  /\ \/ whole /\ Await("WAIT_CMD_ID_DATA_TAIL", packet.rest)
     \/ ~whole /\ odd /\ \E r \in Claims : Await("WAIT_CMD_ID_DATA_TAIL", r)
     \/ ~whole /\ Await("WAIT_REMAINING_HEADER", HeaderRest)
  /\ UNCHANGED <<supply, flags>>

Header(whole, odd) ==
  /\ rx_status = "WAIT_REMAINING_HEADER" /\ need = 1
  /\ \/ whole /\ Await("WAIT_CMD_ID_DATA_TAIL", packet.rest)
     \/ ~whole /\ odd /\ \E r \in Claims : Await("WAIT_CMD_ID_DATA_TAIL", r)
     \/ ~whole /\ Await("WAIT_STARTING_BYTE", 1)
  /\ UNCHANGED <<supply, flags>>

(* The event is broadcast whether the checksum is right or not, with the   *)
(* command that is in the buffer.                                          *)
Packet(whole) ==
  /\ rx_status = "WAIT_CMD_ID_DATA_TAIL" /\ need = 1
  /\ IF whole
     THEN /\ supply' = IF Command(packet.kind) = "SUPPLY" THEN packet.kind = "FALL" ELSE supply
          /\ flags' = flags \cup {Command(packet.kind)}
     ELSE /\ \E c \in Commands : flags' = flags \cup {c}
          /\ UNCHANGED supply
  /\ Await("WAIT_STARTING_BYTE", 1)

Fill ==
  /\ need > 1 /\ need' = need - 1
  /\ UNCHANGED <<rx_status, supply, flags>>

-----------------------------------------------------------------------------
(* The line.  fate: what becomes of the byte.                              *)

Sof(fate) ==   \* whether the byte, as received, is 0xA5
  IF fate = "BAD" \/ (place > 1 /\ packet.odd) THEN BOOLEAN ELSE {place = 1}

Whole(fate) ==
  fate = "GOOD" /\ IF rx_status = "WAIT_STARTING_BYTE" THEN place = 1 ELSE intact

Owes == IF place = Size(packet) /\ packet.kind = "FALL" /\ owed < 1 THEN owed + 1 ELSE owed

Byte(fate) ==
  /\ place <= Size(packet) /\ (fate # "GOOD" => disturbed)
  /\ Prompt /\ place = Size(packet) => flags = {} /\ thread = {}   \* The bound
  /\ IF fate = "LOST"
     THEN intact' = FALSE /\ UNCHANGED <<rx_status, need, supply, flags>>
     ELSE /\ \/ \E sof \in Sof(fate) : Start(sof)
             \/ Header(Whole(fate), packet.odd \/ fate = "BAD")
             \/ Packet(Whole(fate))
             \/ Fill
          /\ intact' = Whole(fate)
  /\ place' = place + 1
  /\ touched' = (touched \/ fate # "GOOD")
  /\ owed' = Owes
  /\ UNCHANGED <<packet, disturbed, thread>>

NextPacket(p) ==
  /\ place = Size(packet) + 1
  /\ packet' = p /\ place' = 1
  /\ UNCHANGED <<disturbed, touched, receiver, supply, flags, thread, owed>>

Disturb(d) ==
  /\ disturbed' = d
  /\ UNCHANGED <<packet, place, touched, receiver, supply, flags, thread, owed>>

-----------------------------------------------------------------------------
(* BulletCounterThread.                                                    *)

TakeFlags ==
  /\ thread = {} /\ flags # {}
  /\ thread' = flags /\ flags' = {}
  /\ UNCHANGED <<line, receiver, supply, owed>>

CountEveryStep ==   \* mutant of Count: the step of the supply is not looked at
  /\ thread # {}
  /\ owed' = IF thread = {"SUPPLY"} /\ owed > -1 THEN owed - 1 ELSE owed
  /\ thread' = {}
  /\ UNCHANGED <<line, receiver, supply, flags>>

Count ==
  /\ thread # {}
  /\ owed' = IF thread = {"SUPPLY"} /\ supply /\ owed > -1 THEN owed - 1 ELSE owed
  /\ thread' = {}
  /\ UNCHANGED <<line, receiver, supply, flags>>

-----------------------------------------------------------------------------
Next ==
  \/ \E fate \in {"GOOD", "BAD", "LOST"} : Byte(fate)
  \/ \E p \in Packets : NextPacket(p)
  \/ \E d \in BOOLEAN \ {disturbed} : Disturb(d)
  \/ TakeFlags \/ Count

Spec == Init /\ [][Next]_vars

(* The bytes that the receiver waits for, if it is in a packet, end within *)
(* the one that begins now.                                                *)
EndsWithin(p) == rx_status = "WAIT_CMD_ID_DATA_TAIL" => need <= Size(p)

(* Packets vary: where one might put the receiver back in step, not every  *)
(* one holds a 0xA5 and passes for a header.                               *)
Plain == \E p \in Packets : ~p.odd /\ EndsWithin(p) /\ NextPacket(p)

FairSpec ==
  /\ Spec
  /\ WF_vars(\E fate \in {"GOOD", "BAD", "LOST"} : Byte(fate))
  /\ WF_vars(\E p \in Packets : NextPacket(p))
  /\ SF_vars(Plain)
  /\ WF_vars(TakeFlags \/ Count)

-----------------------------------------------------------------------------
(* The receiver waits for the very byte that comes next.                   *)
InStep ==
  CASE rx_status = "WAIT_STARTING_BYTE"    -> place \in {1, Size(packet) + 1}
    [] rx_status = "WAIT_REMAINING_HEADER" -> place = 2 + HeaderRest - need
    [] rx_status = "WAIT_CMD_ID_DATA_TAIL" -> place = Size(packet) + 1 - need

(* The driver is asked for no more than pak holds.  Does not hold: the     *)
(* callback passes on whatever length a header says, and a header that is  *)
(* none may say any.  What the driver then writes over is not modelled.    *)
InBuffer == rx_status = "WAIT_CMD_ID_DATA_TAIL" => need <= Room

(* On a line that is disturbed no more, the receiver finds the beginning   *)
(* of a packet in the end, whatever it took for one on the way and however *)
(* many packets that one swallowed, and from then on loses none; this if   *)
(* nothing was ever written behind pak.                                    *)
Resync ==
  <>[]~disturbed /\ []InBuffer
    => <>[](InStep /\ (rx_status # "WAIT_STARTING_BYTE" => intact))

(* With every byte received since the first, all bullets that fell have    *)
(* been counted once, or an event says so that the thread has yet to see.  *)
(* uart_rx_callback() stores a packet and broadcasts the event; the thread *)
(* compares the flags, which add up, and looks at what is stored by then.  *)
Accounted ==
  ~touched =>
    owed = IF supply /\ ("SUPPLY" \in flags \/ thread = {"SUPPLY"}) THEN 1 ELSE 0

(* Bullets are counted that fell.  Does not hold: the event of a packet    *)
(* whose checksum fails has the thread look at the supply before it again. *)
CountedFell == owed >= 0

=============================================================================
