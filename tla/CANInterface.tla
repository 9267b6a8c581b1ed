---------------------------- MODULE CANInterface ----------------------------
(***************************************************************************)
(* One CAN bus: how a frame comes from the receive FIFO of the controller  *)
(* to the callbacks.  The interrupt handler of the driver masks itself,    *)
(* and unmasks itself only when the receiving thread has emptied the FIFO; *)
(* what tells the thread is an event, which nobody hears before the thread *)
(* registers for it.  Meanwhile main(), below the thread, adds callbacks:  *)
(* that of another device first, then, once the motors are known, those of *)
(* CANMotorIF::init(), one for each field of consecutive identifiers.      *)
(* Identifiers of motors are given without the offset 0x200.               *)
(***************************************************************************)
EXTENDS Naturals, Sequences, FiniteSets, FixedPriority

CONSTANTS
  Motors,     \* CAN_SID of the motors in CANMotorProfile on this bus
  Device,     \* the identifiers of the other device
  Strangers,  \* identifiers on the bus that nobody registers
  Capacity,   \* MAXIMUM_REGISTRATION_COUNT
  Depth,      \* frames the receive FIFO holds
  QuietBoot   \* no frame is complete before the thread listens

LastSID == 11

(* callback_list is zeroed: an entry not yet filled matches identifier 0.  *)
Blank == {0}

ASSUME CANAssumption ==
  /\ Motors \subseteq 1..LastSID
  /\ Device \subseteq Nat \ (0..LastSID)
  /\ Strangers \subseteq Nat \ (Motors \cup Device \cup Blank)
  /\ Capacity \in Nat /\ Depth \in Nat \ {0} /\ QuietBoot \in BOOLEAN

VARIABLES
  fifo,    \* the receive FIFO of the controller
  fmpie,   \* CAN_IER_FMPIE0: the receive interrupt is not masked
  heard,   \* the thread is registered with rxfull_event
  event,   \* epending of the thread
  rx,      \* where the thread is
  frame,   \* the identifier in rxmsg
  list,    \* callback_list up to its count: what each entry matches
  known,   \* motors that are mapped and whose feedback is initialised
  todo,    \* what main() has yet to register
  adding   \* what the last entry is about to be filled with, or nothing

controller == <<fifo, fmpie>>
thread     == <<heard, event, rx, frame>>
boot       == <<list, known, todo, adding>>
canVars    == <<controller, thread, boot>>

Frames == Motors \cup Device \cup Strangers

BoundsAnywhere ==   \* mutant of Bounds: the end of a field is not looked for
  {b \in (1..LastSID) \X (1..LastSID) :
     b[1] <= b[2] /\ b[1]..b[2] \subseteq Motors /\ b[1] - 1 \notin Motors}

(* The fields of consecutive identifiers that CANMotorIF::init() finds.    *)
Bounds ==
  {b \in (1..LastSID) \X (1..LastSID) :
     /\ b[1] <= b[2] /\ b[1]..b[2] \subseteq Motors
     /\ b[1] - 1 \notin Motors /\ b[2] + 1 \notin Motors}
Fields == {b[1]..b[2] : b \in Bounds}

CANInit ==
  /\ fifo = <<>> /\ fmpie = TRUE
  /\ heard = FALSE /\ event = FALSE /\ rx = "created" /\ frame = 0
  /\ list = <<>> /\ known = {}
  /\ todo = (Fields \cup {Device}) \ {{}} /\ adding = {}

-----------------------------------------------------------------------------
(* The controller and the interrupt.  A frame that finds the FIFO full     *)
(* overwrites the last one.                                                *)
Arrive(sid) ==
  /\ QuietBoot => heard
  /\ fifo' = IF Len(fifo) < Depth THEN Append(fifo, sid)
                                  ELSE [fifo EXCEPT ![Depth] = sid]
  /\ UNCHANGED <<fmpie, thread, boot>>

Interrupt ==
  /\ fmpie /\ fifo # <<>>
  /\ fmpie' = FALSE
  /\ event' = (event \/ heard)
  /\ UNCHANGED <<fifo, heard, rx, frame, boot>>

-----------------------------------------------------------------------------
(* The receiving thread.                                                   *)
Register ==
  /\ rx = "created"
  /\ heard' = TRUE /\ rx' = "wait"
  /\ UNCHANGED <<controller, event, frame, boot>>

Wake ==
  /\ rx = "wait" /\ event
  /\ event' = FALSE /\ rx' = "poll"
  /\ UNCHANGED <<controller, heard, frame, boot>>

Fetch ==
  /\ rx = "poll" /\ fifo # <<>>
  /\ frame' = Head(fifo) /\ fifo' = Tail(fifo) /\ rx' = "dispatch"
  /\ fmpie' = (fmpie \/ Tail(fifo) = <<>>)
  /\ UNCHANGED <<heard, event, boot>>

Exhausted ==
  /\ rx = "poll" /\ fifo = <<>>
  /\ rx' = "wait"
  /\ UNCHANGED <<controller, heard, event, frame, boot>>

(* The callbacks that get the frame.                                       *)
Matching == {i \in 1..Len(list) : frame \in list[i]}

DispatchOnly ==   \* mutant of Dispatch: one frame for each event
  /\ rx = "dispatch"
  /\ rx' = "wait"
  /\ UNCHANGED <<controller, heard, event, frame, boot>>

Dispatch ==
  /\ rx = "dispatch"
  /\ rx' = "poll"
  /\ UNCHANGED <<controller, heard, event, frame, boot>>

Thread == Register \/ Wake \/ Fetch \/ Exhausted \/ Dispatch

-----------------------------------------------------------------------------
(* main(), which runs only while the thread waits.                         *)
Rank == [rx |-> 2, main |-> 1]
Blocked == IF rx = "wait" /\ ~event THEN {"rx"} ELSE {}

Prepare(m) ==
  /\ Device \notin todo /\ m \in Motors \ known
  /\ known' = known \cup {m}
  /\ UNCHANGED <<controller, thread, list, todo, adding>>

(* The device's entry first; of the fields the narrowest.                  *)
TurnOf(f) ==
  \/ f = Device
  \/ /\ Device \notin todo /\ known = Motors
     /\ \A g \in todo : Cardinality(f) <= Cardinality(g)

(* register_callback(): the count is stored, then the entry.               *)
Take(f) ==
  /\ adding = {} /\ TurnOf(f)
  /\ IF Len(list) >= Capacity
     THEN /\ todo' = todo \ {f}
          /\ UNCHANGED <<list, adding>>
     ELSE /\ list' = Append(list, Blank) /\ adding' = f
          /\ UNCHANGED todo
  /\ UNCHANGED <<controller, thread, known>>

Fill ==
  /\ adding # {}
  /\ list' = [list EXCEPT ![Len(list)] = adding]
  /\ todo' = todo \ {adding} /\ adding' = {}
  /\ UNCHANGED <<controller, thread, known>>

Main ==
  /\ MayRun("main", Rank, Blocked)
  /\ Fill \/ (\E f \in todo : Take(f)) \/ (\E m \in Motors : Prepare(m))

CANNext == (\E sid \in Frames : Arrive(sid)) \/ Interrupt \/ Thread \/ Main

CANSpec == CANInit /\ [][CANNext]_canVars

-----------------------------------------------------------------------------
(* Types: the FIFO within its depth, the list within its capacity.         *)
ControllerOK ==
  fifo \in Seq(Frames) /\ Len(fifo) <= Depth /\ fmpie \in BOOLEAN
ThreadOK ==
  /\ heard \in BOOLEAN /\ event \in BOOLEAN
  /\ rx \in {"created", "wait", "poll", "dispatch"}
  /\ frame \in Frames \cup {0}
ListOK ==
  /\ list \in Seq({Blank, Device} \cup Fields) /\ Len(list) <= Capacity
  /\ adding # {} => list # <<>>
MainOK ==
  /\ known \subseteq Motors
  /\ todo \subseteq Fields \cup {Device} /\ adding \in todo \cup {{}}
CANTypeOK == ControllerOK /\ ThreadOK /\ ListOK /\ MainOK

(* "Process every received message" (can_interface.cpp:86): while frames   *)
(* wait in the FIFO, the interrupt will come, or the event is pending, or  *)
(* the thread is on its way to look.                                       *)
NoneForgotten ==
  fifo # <<>> => fmpie \/ event \/ rx \in {"poll", "dispatch"}

(* No frame is given to two callbacks: the fields do not overlap and none  *)
(* is registered twice.                                                    *)
NotTwice ==
  rx = "dispatch" => \A i, j \in Matching : i = j

(* When main() is through, no frame of a motor or the device is dropped:   *)
(* the fields cover the motors and fit the list.                           *)
NotDropped ==
  rx = "dispatch" /\ todo = {} /\ frame \in Motors \cup Device => Matching # {}

(* Every frame reaches exactly one callback once all are registered, and   *)
(* never two.                                                              *)
EachOnce == NotTwice /\ NotDropped

(* The callback of the motors looks up the motor of an identifier unasked: *)
(* whatever frame it is given is that of a motor already initialised.      *)
OnlyKnown ==
  rx = "dispatch" /\ Matching # {} => frame \in known \cup Device
=============================================================================
