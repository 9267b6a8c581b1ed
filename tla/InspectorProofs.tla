-------------------------- MODULE InspectorProofs ---------------------------
(***************************************************************************)
(* Theorems about the inspector and the buzzer, which sounds its alert.    *)
(*                                                                         *)
(* Inspector: which receive the driver is armed for follows from how far   *)
(* uart_synchronize() has come (Progress), and that it only runs under a   *)
(* reported failure from where it is called (Caller).                      *)
(*                                                                         *)
(* The music thread stays within the songs, for every set of songs whose   *)
(* loops fit into each other.                                              *)
(***************************************************************************)
EXTENDS Inspector, Buzzer, TLAPS

(* Inspector.                                                              *)

Progress ==
  /\ synchronizing <=> sync # "OFF"
  /\ sync \in {"OFF", "CLEAR"} => rx = "FRAME"
  /\ sync = "LOOP" => rx \in {"FRAME", "IDLE"}
  /\ sync = "BYTE" => rx \in {"BYTE", "IDLE"}
  /\ sync = "ARM" => rx = "IDLE"

Caller ==
  /\ sync # "OFF" => check = "RESYNC"
  /\ check = "RESYNC" => remoteFailure

USE DEF link, receiver, data, remoteVars, flags, vars

(* Every flag and step of the inspector and the receiver has its type.     *)
THEOREM Typing == Spec => []TypeOK
<1>1. Init => TypeOK
  BY DEF Init, RemoteInit, TypeOK, RemoteTypeOK, Groups
<1>2. TypeOK /\ [Next]_vars => TypeOK'
  <2> SUFFICES ASSUME TypeOK, [Next]_vars PROVE TypeOK'
    OBVIOUS
  <2> USE DEF TypeOK, RemoteTypeOK
  <2>1. CASE Inspect
    <3>1. CASE CheckData
      BY <3>1 DEF CheckData, DataError
    <3>2. CASE Resync
      BY <3>2 DEF Resync, Enter
    <3>3. CASE CheckRemote
      BY <3>3 DEF CheckRemote, Groups
    <3>4. ASSUME NEW g \in Groups, CheckMotors(g) PROVE TypeOK'
      <4>1. motorFailure' \in [Groups -> BOOLEAN]
        BY <3>4 DEF CheckMotors
      <4>2. QED
        BY <3>4, <4>1 DEF CheckMotors, Groups
    <3>5. CASE Alert
      <4>1. Failure \in BOOLEAN
        BY ZenonT(30) DEF Failure
      <4>2. alert' \in BOOLEAN
        <5>1. alert' = Failure
          BY ONLY <3>5, Zenon DEF Alert
        <5>2. QED
          BY ONLY <4>1, <5>1
      <4>3. QED
        BY <3>5, <4>2 DEF Alert
    <3>6. QED
      BY <2>1, <3>1, <3>2, <3>3, <3>4, <3>5 DEF Inspect
  <2>2. CASE Synchronize /\ UNCHANGED <<lost, flags, check>>
    BY <2>2 DEF Synchronize, AskByte, GotByte, Timeout, Arm, Leave
  <2>3. CASE Transmission /\ UNCHANGED <<lost, flags, check>>
    <3>1. CASE FrameEnds
      BY <2>3, <3>1 DEF FrameEnds, Received
    <3>2. CASE FramePieced
      BY <2>3, <3>2 DEF FramePieced, Received
    <3>3. CASE FrameStarts \/ ByteComes
      BY <2>3, <3>3 DEF FrameStarts, ByteComes
    <3>4. CASE Outdated
      BY <2>3, <3>4 DEF Outdated
    <3>5. CASE SwitchedOff
      BY <2>3, <3>5 DEF SwitchedOff
    <3>6. CASE SwitchedOn
      BY <2>3, <3>6 DEF SwitchedOn
    <3>7. QED
      BY <2>3, <3>1, <3>2, <3>3, <3>4, <3>5, <3>6 DEF Transmission
  <2>4. ASSUME NEW g \in Groups, MotorsChange(g) PROVE TypeOK'
    BY <2>4 DEF MotorsChange
  <2>5. CASE UNCHANGED vars
    BY <2>5
  <2>6. QED
    BY <2>1, <2>2, <2>3, <2>4, <2>5 DEF Next
<1>3. QED
  BY <1>1, <1>2, PTL DEF Spec

(* uart_synchronize() always knows what the driver is armed for, however   *)
(* bytes and frames, the inspector and the switch of the remote mix.       *)
LEMMA InStep == Spec => [](TypeOK /\ Progress)
<1>1. Init => Progress
  BY DEF Init, RemoteInit, Progress
<1>2. TypeOK /\ Progress /\ [Next]_vars => Progress'
  <2> SUFFICES ASSUME TypeOK, Progress, [Next]_vars PROVE Progress'
    OBVIOUS
  <2> USE DEF Progress
  <2>1. CASE Inspect
    BY <2>1 DEF Inspect, CheckData, Resync, Enter, CheckRemote, CheckMotors, Alert
  <2>2. CASE Synchronize /\ UNCHANGED <<lost, flags, check>>
    BY <2>2 DEF Synchronize, AskByte, GotByte, Timeout, Arm, Leave
  <2>3. CASE Transmission /\ UNCHANGED <<lost, flags, check>>
    BY <2>3 DEF Transmission, FrameStarts, FrameEnds, FramePieced, Received, ByteComes,
                SwitchedOff, SwitchedOn, Outdated, TypeOK, RemoteTypeOK
  <2>4. ASSUME NEW g \in Groups, MotorsChange(g) PROVE Progress'
    BY <2>4 DEF MotorsChange
  <2>5. CASE UNCHANGED vars
    BY <2>5
  <2>6. QED
    BY <2>1, <2>2, <2>3, <2>4, <2>5 DEF Next
<1>3. QED
  BY <1>1, <1>2, Typing, PTL DEF Spec

(* Outside uart_synchronize() the driver waits for a frame: the callback   *)
(* that dropped one without arming it was called in time for the loop.     *)
THEOREM Armed == Spec => []ReceiverArmed
<1>1. Progress => ReceiverArmed
  BY DEF Progress, ReceiverArmed
<1>2. QED
  BY <1>1, InStep, PTL

(* As long as frames are dropped UserThread finds a failure reported.      *)
THEOREM Shield == Spec => []Shielded
<1>1. Init => Caller
  BY DEF Init, RemoteInit, Caller
<1>2. TypeOK /\ Progress /\ Caller /\ [Next]_vars => Caller'
  <2> SUFFICES ASSUME TypeOK, Progress, Caller, [Next]_vars PROVE Caller'
    OBVIOUS
  <2> USE DEF Caller
  <2>1. CASE Inspect
    BY <2>1 DEF Inspect, CheckData, Resync, Enter, CheckRemote, CheckMotors, Alert, Groups
  <2>2. CASE Synchronize /\ UNCHANGED <<lost, flags, check>>
    BY <2>2 DEF Synchronize, AskByte, GotByte, Timeout, Arm, Leave
  <2>3. CASE Transmission /\ UNCHANGED <<lost, flags, check>>
    BY <2>3 DEF Transmission, FrameStarts, FrameEnds, FramePieced, Received, ByteComes,
                SwitchedOff, SwitchedOn, Outdated
  <2>4. ASSUME NEW g \in Groups, MotorsChange(g) PROVE Caller'
    BY <2>4 DEF MotorsChange
  <2>5. CASE UNCHANGED vars
    BY <2>5
  <2>6. QED
    BY <2>1, <2>2, <2>3, <2>4, <2>5 DEF Next
<1>3. Progress /\ Caller => Shielded
  BY DEF Progress, Caller, Shielded
<1>4. QED
  BY <1>1, <1>2, <1>3, InStep, PTL DEF Spec

-----------------------------------------------------------------------------
(* Buzzer.                                                                 *)

HIDE DEF link, receiver, data, remoteVars, flags, vars
(* A song that loops goes back to a note of itself, and to one of every    *)
(* other song too: play_sound() may change music_header between the look   *)
(* at InfLoop and the computation of the place to go back to.              *)
RowsFit ==
  \A song \in Songs : song[Len(song)] = "LOOP" =>
    /\ Row[song] >= 1
    /\ \A other \in Songs : 2 * Row[song] <= Len(other)

(* The rows fit a robot that plays one song, as every vehicle does, if     *)
(* that song ends, or goes back to a note of itself.                       *)
COROLLARY OneSongFits ==
  ASSUME NEW song, Songs = {song},
         song[Len(song)] = "LOOP" => Row[song] >= 1 /\ 2 * Row[song] <= Len(song)
  PROVE  RowsFit
BY DEF RowsFit

(* A place with a note to play.                                            *)
OnNote(place) == place.song \in Songs /\ place.note \in 1..(Len(place.song) - 1)

PointerKept ==
  /\ at \in {"CLOCK", "ADVANCE", "REWIND", "END"} => header # Silence
  /\ at = "ADVANCE" => next.song \in Songs /\ next.note \in 1..Len(next.song)
  /\ at = "REWIND" => next.song \in Songs /\ next.song[Len(next.song)] = "LOOP"
  /\ header # Silence /\ at \notin {"REWIND", "END"} => OnNote(current)

USE SongsAssumption, RowAssumption, MaxPlaysAssumption

(* What a song holds.                                                      *)
LEMMA NotesOfSongs ==
  ASSUME NEW song \in Songs
  PROVE  /\ Len(song) \in Nat /\ Len(song) > 1 /\ song # Silence
         /\ \A i \in 1..Len(song) :
              song[i] \in Notes /\ (song[i] \in {"FINISH", "LOOP"} <=> i = Len(song))
BY DEF Silence

(* The thread sleeps only while an alert lasts and started tells           *)
(* alert_off() so: no failure leaves it asleep for good.                   *)
THEOREM NeverOversleeps == BuzzerSpec => []Awoken
<1>1. BuzzerInit => Awoken
  BY DEF BuzzerInit, Awoken
<1>2. Awoken /\ [BuzzerNext]_buzzerVars => Awoken'
  <2> SUFFICES ASSUME Awoken, [BuzzerNext]_buzzerVars
               PROVE  Awoken'
    OBVIOUS
  <2> USE DEF Awoken
  <2>1. CASE \E song \in Songs : PlaySound(song)
    BY <2>1 DEF PlaySound, local
  <2>2. CASE AlertOn \/ AlertOff
    BY <2>2 DEF AlertOn, AlertOff, local
  <2>3. CASE Check
    BY <2>3, Zenon DEF Check, Goto
  <2>4. CASE Advance
    BY <2>4 DEF Advance, Goto
  <2>5. CASE Branch
    BY <2>5 DEF Branch, Goto
  <2>6. CASE FirstNote \/ LaterNote \/ NoMusic \/ TimeUp \/ Wait \/ Rewind \/ End \/ Call
    BY <2>6 DEF FirstNote, LaterNote, NoMusic, TimeUp, Wait, Rewind, End, Call, Goto
  <2>7. CASE Start \/ Awake \/ Period \/ Enable \/ Disable \/ Stop \/ Idled \/ Stamp
    BY <2>7 DEF Start, Awake, Period, Enable, Disable, Stop, Idled, Stamp, Goto
  <2>8. CASE UNCHANGED buzzerVars
    BY <2>8 DEF buzzerVars, local
  <2>9. QED
    BY <2>1, <2>2, <2>3, <2>4, <2>5, <2>6, <2>7, <2>8 DEF BuzzerNext, SKDThread
<1>3. QED
  BY <1>1, <1>2, PTL DEF BuzzerSpec

(* Every step keeps the pointer on a note, and next where Advance may go.  *)
LEMMA PointerStep ==
  ASSUME RowsFit, BuzzerTypeOK, Awoken, PointerKept, [BuzzerNext]_buzzerVars
  PROVE  BuzzerTypeOK' /\ PointerKept'
<1> USE DEF BuzzerTypeOK, PointerKept
<1>1. ASSUME NEW song \in Songs, PlaySound(song)
      PROVE  BuzzerTypeOK' /\ PointerKept'
  BY <1>1, NotesOfSongs DEF PlaySound, Place, OnNote, local, device, pwm
<1>2. CASE AlertOn \/ AlertOff
  <2>1. {alerting, started, first, idle, ready, enabled, halted}' \subseteq BOOLEAN
    BY <1>2, Zenon DEF AlertOn, AlertOff, Hush, local, music
  <2>2. UNCHANGED music /\ UNCHANGED <<mine, next>>
    BY <1>2 DEF AlertOn, AlertOff, local
  <2>3. {playing, tone}' \subseteq Notes \cup {"ALERT"} /\ plays' = plays
    <3>1. playing' \in {"ALERT", "SILENT"} /\ tone' \in {"ALERT", tone} /\ plays' = plays
      BY <1>2, Zenon DEF AlertOn, AlertOff, Hush
    <3>2. QED
      BY <3>1 DEF Notes
  <2>4. at' = at \/ (at = "SUSPENDED" /\ at' = "TEST")
    <3>1. CASE AlertOn
      BY <3>1 DEF AlertOn, local
    <3>2. CASE AlertOff
      <4>1. CASE started
        BY <3>2, <4>1 DEF AlertOff
      <4>2. CASE ~started
        BY <3>2, <4>2 DEF AlertOff, Awoken
      <4>3. QED
        BY <4>1, <4>2
    <3>3. QED
      BY <1>2, <3>1, <3>2
  <2>5. QED
    BY <2>1, <2>2, <2>3, <2>4 DEF music, OnNote
<1>3. CASE FirstNote
  BY <1>3, NotesOfSongs DEF FirstNote, Goto, OnNote, music, device, pwm
<1>4. CASE TimeUp
  <2>1. OnNote(current) /\ at = "CLOCK" /\ at' = "ADVANCE"
    BY <1>4 DEF TimeUp, Goto
  <2>2. next' = [song |-> current.song, note |-> current.note + 1]
    BY <1>4 DEF TimeUp, Place
  <2>3. next' \in Place /\ next'.song \in Songs /\ next'.note \in 1..Len(next'.song)
    BY <2>1, <2>2, NotesOfSongs DEF OnNote, Place
  <2>4. QED
    BY <1>4, <2>1, <2>3 DEF TimeUp, OnNote, music, device, pwm
<1>5. CASE Advance
  BY <1>5, NotesOfSongs DEF Advance, Goto, OnNote, Place, device, pwm
<1>6. CASE Rewind
  <2>1. header \in Songs /\ next.song \in Songs /\ next.song[Len(next.song)] = "LOOP"
    BY <1>6 DEF Rewind, Goto
  <2>2. Row[next.song] \in Nat /\ Row[next.song] >= 1 /\ 2 * Row[next.song] <= Len(header)
    BY <2>1 DEF RowsFit
  <2>3. current' = [song |-> header, note |-> 2 * Row[next.song] - 1]
    BY <1>6 DEF Rewind
  <2>4. OnNote(current)' /\ current' \in Place
    BY <2>1, <2>2, <2>3, NotesOfSongs DEF OnNote, Place
  <2>5. QED
    BY <1>6, <2>4 DEF Rewind, Goto, device, pwm
<1>7. CASE End
  BY <1>7 DEF End, Goto, OnNote, device, pwm
<1>8. CASE Check \/ LaterNote \/ NoMusic \/ Wait \/ Call \/ Branch \/ Start \/ Awake
  BY <1>8 DEF Check, LaterNote, NoMusic, Wait, Call, Branch, Start, Awake, Goto, OnNote, music, device, pwm
<1>9. CASE Period \/ Enable \/ Disable \/ Stop \/ Idled \/ Stamp
  BY <1>9 DEF Period, Enable, Disable, Stop, Idled, Stamp, Goto, OnNote, music, device, pwm
<1>10. CASE UNCHANGED buzzerVars
  BY <1>10 DEF buzzerVars, music, local, device, pwm, OnNote
<1>11. QED
  BY <1>1, <1>2, <1>3, <1>4, <1>5, <1>6, <1>7, <1>8, <1>9, <1>10 DEF BuzzerNext, SKDThread

(* Where the pointer is, if the rows fit.                                  *)
LEMMA PointerInv == ASSUME RowsFit PROVE BuzzerSpec => [](BuzzerTypeOK /\ PointerKept)
<1>1. BuzzerInit => BuzzerTypeOK /\ PointerKept
  <2>1. BuzzerInit => {alerting, started, first, idle, ready, enabled, halted} \subseteq BOOLEAN
    BY Zenon DEF BuzzerInit
  <2>2. QED
    BY <2>1 DEF BuzzerInit, BuzzerTypeOK, PointerKept, Place, Notes
<1>2. BuzzerTypeOK /\ Awoken /\ PointerKept /\ [BuzzerNext]_buzzerVars => BuzzerTypeOK' /\ PointerKept'
  BY PointerStep
<1>3. QED
  BY <1>1, <1>2, NeverOversleeps, PTL DEF BuzzerSpec

(* Every variable stays within its type: what the thread takes for a note  *)
(* is one, and it is at no step it does not know.                          *)
THEOREM BuzzerTyping == ASSUME RowsFit PROVE BuzzerSpec => []BuzzerTypeOK
BY PointerInv, PTL

(* The thread's pointer never leaves the array of a song, wherever         *)
(* play_sound() moves it under the thread's steps, if the rows fit.        *)
THEOREM StaysInSong == ASSUME RowsFit PROVE BuzzerSpec => []InSong
<1>1. PointerKept => InSong
  BY DEF PointerKept, InSong, OnNote
<1>2. QED
  BY <1>1, PointerInv, PTL
=============================================================================
