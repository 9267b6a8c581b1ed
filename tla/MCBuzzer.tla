------------------------------ MODULE MCBuzzer ------------------------------
(* One song with two notes and a rest, and one that repeats.               *)
EXTENDS Buzzer

Tune   == <<"NOTE", "SILENT", "NOTE", "FINISH">>
Warble == <<"NOTE", "SILENT", "NOTE", "LOOP">>

MCSongs == {Tune, Warble}
MCRow   == [song \in MCSongs |-> 1]

\* of sound_infinity_warning
WarningRow == [song \in MCSongs |-> 0]
=============================================================================
