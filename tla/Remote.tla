------------------------------- MODULE Remote -------------------------------
(***************************************************************************)
(* The receiver of the remote controller.  Frames of 18 bytes come over a  *)
(* UART with nothing to mark where one begins: the driver counts bytes     *)
(* from the moment it is armed, and the callback arms it again at once.    *)
(* Armed in a gap between two frames it is aligned; armed within a frame,  *)
(* or when a frame was cut short, every frame from then on is pieced       *)
(* together from two.  uart_synchronize() waits for a gap and arms it      *)
(* anew; meanwhile the callback drops what comes.                          *)
(*                                                                         *)
(* The fields of the remote are kept only as "in range" or not, in the way *)
(* check_remote_data_error() of the inspector looks at them.               *)
(***************************************************************************)
EXTENDS Naturals

VARIABLES
  transmitting,   \* the remote is on
  line,           \* the UART line: in a "FRAME" or in a "GAP"
  rx,             \* driver: "IDLE", receiving a "FRAME" or a single "BYTE"
  aligned,        \* the driver counts from the beginning of a frame
  synchronizing,  \* Remote::synchronizing
  rcBad,          \* a field of rc or mouse is out of range
  bufBad,         \* byte 12 or 13 of rx_buf_ is not a Boolean
  fresh,          \* last_update_time is within 50 ms
  sync            \* the next step of uart_synchronize(), or "OFF"

link     == <<transmitting, line>>
receiver == <<rx, aligned, synchronizing, sync>>
data     == <<rcBad, bufBad, fresh>>
remoteVars == <<link, receiver, data>>

(* After Remote::start() and the start-up check of the inspector, which    *)
(* sees that frames come but not how they are aligned.                     *)
RemoteInit ==
  /\ transmitting = TRUE /\ line = "GAP"
  /\ rx = "FRAME" /\ aligned \in BOOLEAN /\ synchronizing = FALSE /\ sync = "OFF"
  /\ rcBad = FALSE /\ bufBad = FALSE /\ fresh = TRUE

DataError == rcBad \/ bufBad

-----------------------------------------------------------------------------
(* uart_received_callback_(): the frame in the buffer is good, or pieced   *)
(* together and then possibly, but not certainly, out of range.            *)
Received(badRc, badBuf) ==
  /\ bufBad' = badBuf
  /\ IF synchronizing THEN rx' = "IDLE" /\ UNCHANGED <<rcBad, fresh>>
     ELSE rcBad' = badRc /\ fresh' = TRUE /\ UNCHANGED rx
  /\ UNCHANGED <<transmitting, aligned, synchronizing, sync>>

FrameStarts ==
  /\ transmitting /\ line = "GAP"
  /\ line' = "FRAME"
  /\ UNCHANGED <<transmitting, receiver, data>>

(* The bound: a frame takes 2 ms on the wire, so none is complete between  *)
(* the last two instructions of uart_synchronize().                        *)
FrameEnds ==
  /\ line = "FRAME" /\ sync # "CLEAR"
  /\ line' = "GAP"
  /\ IF rx = "FRAME" /\ aligned THEN Received(FALSE, FALSE)
     ELSE UNCHANGED <<transmitting, receiver, data>>

(* Out of step, the 18th byte comes in the middle of a frame.              *)
FramePieced ==
  /\ line = "FRAME" /\ sync # "CLEAR" /\ rx = "FRAME" /\ ~aligned
  /\ \E badRc, badBuf \in BOOLEAN : Received(badRc, badBuf)
  /\ UNCHANGED line

(* The first byte after uart_synchronize() asked for one.                  *)
ByteComes ==
  /\ line = "FRAME" /\ rx = "BYTE"
  /\ rx' = "IDLE"
  /\ UNCHANGED <<link, aligned, synchronizing, sync, data>>

SwitchedOff ==
  /\ transmitting
  /\ transmitting' = FALSE /\ line' = "GAP"
  /\ aligned' = (aligned /\ line = "GAP")
  /\ UNCHANGED <<rx, synchronizing, sync, data>>

SwitchedOn ==
  /\ ~transmitting
  /\ transmitting' = TRUE
  /\ UNCHANGED <<line, receiver, data>>

(* While the remote is on and the driver armed, frames do not stay out for *)
(* 50 ms.                                                                  *)
Outdated ==
  /\ fresh /\ ~(transmitting /\ rx = "FRAME" /\ ~synchronizing)
  /\ fresh' = FALSE
  /\ UNCHANGED <<link, receiver, rcBad, bufBad>>

Transmission == \/ FrameStarts \/ FrameEnds \/ FramePieced \/ ByteComes
                \/ SwitchedOff \/ SwitchedOn \/ Outdated

-----------------------------------------------------------------------------
(* uart_synchronize(), step by step, in the thread of the inspector.       *)

Enter ==
  /\ synchronizing' = TRUE
  /\ sync' = "LOOP"
  /\ UNCHANGED <<link, rx, aligned, data>>

(* With a frame coming in, sleep and look again.                           *)
AskByte ==
  /\ sync = "LOOP" /\ rx = "IDLE"
  /\ rx' = "BYTE"
  /\ sync' = "BYTE"
  /\ UNCHANGED <<link, aligned, synchronizing, data>>

GotByte ==
  /\ sync = "BYTE" /\ rx = "IDLE"
  /\ sync' = "LOOP"
  /\ UNCHANGED <<link, rx, aligned, synchronizing, data>>

Unarmed ==   \* mutant of Timeout: leaves without arming the driver
  /\ sync = "BYTE" /\ rx = "BYTE" /\ line = "GAP"
  /\ rx' = "IDLE"
  /\ sync' = "CLEAR"
  /\ UNCHANGED <<link, aligned, synchronizing, data>>

Timeout ==   \* no byte in 5 ms
  /\ sync = "BYTE" /\ rx = "BYTE" /\ line = "GAP"
  /\ rx' = "IDLE"
  /\ sync' = "ARM"
  /\ UNCHANGED <<link, aligned, synchronizing, data>>

Arm ==
  /\ sync = "ARM"
  /\ rx' = "FRAME" /\ aligned' = (line = "GAP")
  /\ sync' = "CLEAR"
  /\ UNCHANGED <<link, synchronizing, data>>

Leave ==
  /\ sync = "CLEAR"
  /\ synchronizing' = FALSE
  /\ sync' = "OFF"
  /\ UNCHANGED <<link, rx, aligned, data>>

Synchronize == AskByte \/ GotByte \/ Timeout \/ Arm \/ Leave

(* The remote keeps sending while it is on.  Between frames there are gaps *)
(* of more than 5 ms, in which the inspector gets to run (the strong       *)
(* fairness of what it does in a gap), and in the 10 ms the inspector      *)
(* sleeps after uart_synchronize() a frame begins and ends.                *)
RemoteFairness ==
  /\ WF_remoteVars(FrameStarts) /\ WF_remoteVars(FrameEnds) /\ SF_remoteVars(FramePieced)
  /\ WF_remoteVars(ByteComes) /\ WF_remoteVars(Outdated)
  /\ WF_remoteVars(AskByte) /\ WF_remoteVars(GotByte) /\ WF_remoteVars(Leave)
  /\ SF_remoteVars(GotByte /\ line = "GAP") /\ SF_remoteVars(AskByte /\ line = "GAP")
  /\ SF_remoteVars(Timeout)
  /\ WF_remoteVars(Arm) /\ SF_remoteVars(Arm /\ line = "GAP")
  /\ SF_remoteVars(FrameStarts /\ aligned /\ sync = "OFF")
  /\ SF_remoteVars(FrameEnds /\ aligned /\ sync = "OFF")

RemoteTypeOK ==
  /\ {transmitting, aligned, synchronizing, rcBad, bufBad, fresh} \subseteq BOOLEAN
  /\ line \in {"FRAME", "GAP"} /\ rx \in {"IDLE", "FRAME", "BYTE"}
  /\ sync \in {"OFF", "LOOP", "BYTE", "ARM", "CLEAR"}
=============================================================================
