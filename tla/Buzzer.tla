------------------------------- MODULE Buzzer -------------------------------
(***************************************************************************)
(* The buzzer: BuzzerSKD's thread plays songs note by note, alert_on() and *)
(* alert_off() are called by the inspector, both through the one function  *)
(* of BuzzerIF that changes the note.  The thread has the lowest priority  *)
(* of the robot: alert_on(), alert_off() and play_sound() run to their end *)
(* before its next instruction, and come between any two of them.          *)
(*                                                                         *)
(* The PWM driver of the HAL asserts that it has been started and halts    *)
(* the system when it has not.                                             *)
(***************************************************************************)
EXTENDS Integers, Sequences

CONSTANTS
  Songs,     \* each a sequence of notes, ending with "FINISH" or "LOOP"
  Row,       \* a song with "LOOP" goes back to note 2 * Row[song] - 1, one later
  MaxPlays   \* bound: calls of play_sound()

Notes == {"NOTE", "SILENT", "FINISH", "LOOP"}

ASSUME SongsAssumption ==
  /\ Songs # {} /\ Songs \subseteq Seq(Notes)
  /\ \A song \in Songs :
       /\ Len(song) > 1
       /\ \A i \in 1..Len(song) : song[i] \in {"FINISH", "LOOP"} <=> i = Len(song)
ASSUME RowAssumption == Row \in [Songs -> Nat]
ASSUME MaxPlaysAssumption == MaxPlays \in Nat

Silence == << >>   \* the null pointer

VARIABLES
  alerting,   \* BuzzerSKD::alerting_
  started,    \* SKDThread::started
  header,     \* SKDThread::music_header
  current,    \* SKDThread::current_pointer: a place in a song
  first,      \* last_change_time = -1
  at,         \* the next step of the thread
  mine,       \* the note in the thread's call of change_playing_note()
  next,       \* the place the thread has computed for current_pointer
  playing,    \* BuzzerIF::now_playing_note
  idle,       \* BuzzerIF::buzzer_idle
  ready,      \* the PWM driver has been started
  tone,       \* what its period stands for
  enabled,    \* its channel
  halted,     \* an assertion of the driver has failed
  plays

music  == <<header, current, first>>
local  == <<at, mine, next>>
pwm    == <<ready, tone, enabled, halted>>
device == <<playing, idle, pwm>>
buzzerVars == <<alerting, started, music, local, device, plays>>

BuzzerInit ==
  /\ alerting = FALSE /\ started = TRUE
  /\ header = Silence /\ current = [song |-> Silence, note |-> 1] /\ first = TRUE
  /\ at = "CHECK" /\ mine = "FINISH" /\ next = current
  /\ playing = "FINISH" /\ idle = TRUE
  /\ ready = FALSE /\ tone = "FINISH" /\ enabled = FALSE /\ halted = FALSE
  /\ plays = 0

Sounding == ready /\ enabled /\ tone \in {"NOTE", "ALERT"}

-----------------------------------------------------------------------------
(* BuzzerSKD's interface.                                                  *)

PlayOn(song) ==   \* mutant of PlaySound: the pointer is not set back
  /\ ~halted /\ plays < MaxPlays /\ ~alerting
  /\ header' = song /\ first' = TRUE
  /\ current' = IF plays = 0 THEN [song |-> song, note |-> 1] ELSE current
  /\ plays' = plays + 1
  /\ UNCHANGED <<alerting, started, local, device>>

PlaySound(song) ==
  /\ ~halted /\ plays < MaxPlays /\ ~alerting
  /\ header' = song /\ current' = [song |-> song, note |-> 1] /\ first' = TRUE
  /\ plays' = plays + 1
  /\ UNCHANGED <<alerting, started, local, device>>

AlertOn ==
  /\ ~halted /\ ~alerting
  /\ alerting' = TRUE
  /\ playing' = "ALERT"
  /\ idle' = FALSE
  /\ ready' = (ready \/ idle)
  /\ IF ready' THEN tone' = "ALERT" /\ enabled' = TRUE /\ UNCHANGED halted
     ELSE halted' = TRUE /\ UNCHANGED <<tone, enabled>>
  /\ UNCHANGED <<started, music, local, plays>>

Hush ==   \* change_playing_note(Silent) of alert_off()
  /\ playing' = "SILENT"
  /\ enabled' = (enabled /\ (idle \/ ~ready))
  /\ halted' = (~idle /\ ~ready)
  /\ UNCHANGED <<idle, ready, tone>>

AlertOffAsleep ==   \* mutant of AlertOff: the thread is not woken
  /\ ~halted /\ alerting
  /\ Hush
  /\ alerting' = FALSE
  /\ UNCHANGED <<started, music, local, plays>>

AlertOff ==
  /\ ~halted /\ alerting
  /\ Hush
  /\ alerting' = FALSE
  /\ started' = TRUE
  /\ at' = IF started THEN at ELSE "TEST"
  /\ UNCHANGED <<music, mine, next, plays>>

-----------------------------------------------------------------------------
(* The thread.  A value it reads twice with no call between is read once.  *)

Goto(here, there) ==
  /\ ~halted
  /\ at = here /\ at' = there

Check ==
  /\ Goto("CHECK", IF alerting THEN "SUSPENDED" ELSE "TEST")
  /\ started' = ~alerting
  /\ UNCHANGED <<alerting, music, mine, next, device, plays>>

FirstNote ==
  /\ header # Silence /\ first
  /\ Goto("TEST", "CALL")
  /\ mine' = current.song[current.note]
  /\ UNCHANGED <<alerting, started, music, next, device, plays>>

LaterNote ==   \* up to where getTime() is called
  /\ header # Silence /\ ~first
  /\ Goto("TEST", "CLOCK")
  /\ UNCHANGED <<alerting, started, music, mine, next, device, plays>>

NoMusic ==
  /\ header = Silence
  /\ Goto("TEST", "CHECK")
  /\ UNCHANGED <<alerting, started, music, mine, next, device, plays>>

(* The note has lasted its time, or not.  A song that play_sound() has     *)
(* begun since TEST counts from -1, and its first note may be skipped.     *)
TimeUp ==
  /\ Goto("CLOCK", "ADVANCE")
  /\ next' = [current EXCEPT !.note = @ + 1]
  /\ UNCHANGED <<alerting, started, music, mine, device, plays>>

Wait ==
  /\ Goto("CLOCK", "CHECK")
  /\ UNCHANGED <<alerting, started, music, mine, next, device, plays>>

Advance ==
  LET note == next.song[next.note] IN
  /\ Goto("ADVANCE", CASE note = "LOOP" -> "REWIND" [] note = "FINISH" -> "END" [] OTHER -> "CALL")
  /\ current' = next
  /\ mine' = note
  /\ UNCHANGED <<alerting, started, header, first, next, device, plays>>

(* With last_change_time left alone, a step of Advance is due at once and  *)
(* skips the note the song was to go back to.                              *)
Rewind ==
  /\ Goto("REWIND", "CHECK")
  /\ current' = [song |-> header, note |-> 2 * Row[next.song] - 1]
  /\ UNCHANGED <<alerting, started, header, first, mine, next, device, plays>>

End ==
  /\ Goto("END", "CALL")
  /\ header' = Silence
  /\ UNCHANGED <<alerting, started, current, first, mine, next, device, plays>>

(* change_playing_note(), up to where it has chosen what to do.            *)
Call ==
  /\ Goto("CALL", "BRANCH")
  /\ playing' = mine
  /\ UNCHANGED <<alerting, started, music, mine, next, idle, pwm, plays>>

Branch ==
  /\ Goto("BRANCH", CASE mine = "NOTE" -> IF idle THEN "START" ELSE "PERIOD"
                      [] mine = "SILENT" -> IF idle THEN "STAMP" ELSE "DISABLE"
                      [] OTHER -> IF idle THEN "CHECK" ELSE "STOP")
  /\ UNCHANGED <<alerting, started, music, mine, next, device, plays>>

Start ==
  /\ Goto("START", "AWAKE")
  /\ ready' = TRUE /\ enabled' = FALSE
  /\ UNCHANGED <<alerting, started, music, mine, next, playing, idle, tone, halted, plays>>

Awake ==
  /\ Goto("AWAKE", "PERIOD")
  /\ idle' = FALSE
  /\ UNCHANGED <<alerting, started, music, mine, next, playing, pwm, plays>>

(* now_playing_note is read again after a call of pwmStart().              *)
Period ==
  /\ Goto("PERIOD", "ENABLE")
  /\ halted' = ~ready
  /\ tone' \in {mine, playing}
  /\ UNCHANGED <<alerting, started, music, mine, next, playing, idle, ready, enabled, plays>>

Enable ==
  /\ Goto("ENABLE", "STAMP")
  /\ halted' = ~ready
  /\ enabled' = TRUE
  /\ UNCHANGED <<alerting, started, music, mine, next, playing, idle, ready, tone, plays>>

Disable ==
  /\ Goto("DISABLE", "STAMP")
  /\ halted' = ~ready
  /\ enabled' = FALSE
  /\ UNCHANGED <<alerting, started, music, mine, next, playing, idle, ready, tone, plays>>

StopForgotten ==   \* mutant of Stop: the driver goes on
  /\ Goto("STOP", "IDLED")
  /\ UNCHANGED <<alerting, started, music, mine, next, device, plays>>

Stop ==
  /\ Goto("STOP", "IDLED")
  /\ ready' = FALSE /\ enabled' = FALSE
  /\ UNCHANGED <<alerting, started, music, mine, next, playing, idle, tone, halted, plays>>

Idled ==
  /\ Goto("IDLED", "CHECK")
  /\ idle' = TRUE
  /\ UNCHANGED <<alerting, started, music, mine, next, playing, pwm, plays>>

Stamp ==
  /\ Goto("STAMP", "CHECK")
  /\ first' = FALSE
  /\ UNCHANGED <<alerting, started, header, current, mine, next, device, plays>>

SKDThread ==
  \/ Check \/ FirstNote \/ LaterNote \/ NoMusic \/ TimeUp \/ Wait \/ Advance \/ Rewind \/ End \/ Call \/ Branch
  \/ Start \/ Awake \/ Period \/ Enable \/ Disable \/ Stop \/ Idled \/ Stamp

BuzzerNext == SKDThread \/ AlertOn \/ AlertOff \/ \E song \in Songs : PlaySound(song)

BuzzerSpec == BuzzerInit /\ [][BuzzerNext]_buzzerVars

(* The processor has time left for the thread of lowest priority, and time *)
(* passes between its looks at the clock.                                  *)
BuzzerFairSpec == BuzzerSpec /\ WF_buzzerVars(SKDThread) /\ SF_buzzerVars(TimeUp)

-----------------------------------------------------------------------------
Place == [song : Songs \cup {Silence}, note : Int]

BuzzerTypeOK ==
  /\ {alerting, started, first, idle, ready, enabled, halted} \subseteq BOOLEAN
  /\ header \in Songs \cup {Silence} /\ current \in Place /\ next \in Place
  /\ at \in {"CHECK", "SUSPENDED", "TEST", "CLOCK", "ADVANCE", "REWIND", "END", "CALL", "BRANCH",
             "START", "AWAKE", "PERIOD", "ENABLE", "DISABLE", "STOP", "IDLED", "STAMP"}
  /\ mine \in Notes /\ {playing, tone} \subseteq Notes \cup {"ALERT"}
  /\ plays \in 0..MaxPlays

(* The note the thread reads next is one of a song: its pointer, moved     *)
(* under it by play_sound(), never leaves the array.  (Of the songs that   *)
(* loop this asks for a row of at least 1; sound_infinity_warning has 0.)  *)
InSong ==
  /\ at \in {"TEST", "CLOCK"} /\ header # Silence => current.note \in 1..(Len(current.song) - 1)
  /\ at = "ADVANCE" => next.note \in 1..Len(next.song)

(* The thread sleeps only during an alert, and alert_off() will see it.    *)
Awoken == (at = "SUSPENDED" <=> ~started) /\ (at = "SUSPENDED" => alerting)

(* A song that does not loop is played to its end once the alerts are      *)
(* over, and then the buzzer is silent, unless the driver has halted.      *)
SongEnds ==
  <>[](~alerting /\ ~halted /\ (header # Silence => header[Len(header)] = "FINISH"))
    => <>[](header = Silence /\ ~Sounding)

(* README: "Stop the playing music (if any) and start alerting."           *)
AlertSounds == at = "SUSPENDED" => Sounding /\ tone = "ALERT"

(* The assertions of the PWM driver.                                       *)
DriverReady == ~halted
=============================================================================
