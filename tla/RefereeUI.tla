----------------------------- MODULE RefereeUI -----------------------------
(***************************************************************************)
(* The graphics on the screen of the operator.  RefereeUILG draws them     *)
(* anew in reset(), which main() calls and each of the two user threads;   *)
(* RefereeUISKD keeps a list of labels and one of shapes under a mutex,    *)
(* and its thread sends what has changed.  Every operation under the mutex *)
(* is one step.  The screen is at the other end of the referee system,     *)
(* which gives no answer.                                                  *)
(*                                                                         *)
(* add_line() fills a copy of the array element: the element goes out as   *)
(* it was before, which for a screen means not at all.                     *)
(***************************************************************************)
EXTENDS Naturals, Sequences, FiniteSets

CONSTANTS
  Resetters,   \* threads that call RefereeUILG::reset()
  Labels,      \* sequences: what reset() draws, in this order
  Lines,
  Circles,
  Gauge,       \* the label that shows a measured value
  Values,      \* the values it shows
  MaxLabels, MaxShapes,   \* REFEREE_UI_MAX_LABEL_COUNT, REFEREE_UI_MAX_SHAPE_COUNT
  TxMax,       \* graphics in one message
  MaxResets    \* bound: calls of reset()

Script == Labels \o Lines \o Circles

Places(seq) == {seq[i] : i \in 1..Len(seq)}
Names       == Places(Script)
NoName      == "NONE"
Fixed       == "FIXED"    \* the content of everything but the gauge
Absent      == "ABSENT"
Contents    == Values \cup {Fixed}

ASSUME ScriptAssumption ==
  /\ Labels \in Seq(STRING) /\ Lines \in Seq(STRING) /\ Circles \in Seq(STRING)
  /\ Cardinality(Names) = Len(Script) /\ NoName \notin Names
  /\ Gauge \in Places(Labels)
ASSUME SizeAssumption ==
  /\ IsFiniteSet(Resetters) /\ TxMax \in Nat \ {0} /\ MaxResets \in Nat
  /\ MaxLabels \in Nat /\ Cardinality(Resetters) * Len(Labels) <= MaxLabels
  /\ MaxShapes \in Nat /\ Cardinality(Resetters) * (Len(Lines) + Len(Circles)) <= MaxShapes
ASSUME ValuesAssumption == Values # {} /\ {Fixed, Absent} \cap Values = {}

VARIABLES
  label,        \* the labels: name, content, operation, to be sent
  shape,        \* the array of shapes: name, operation, to be sent
  shapeCount,
  deleting,     \* invoke_ui_delete_all
  value,        \* RefereeUILG::cap_volt
  fetched,      \* the fetch thread is between a new value and revise_label()
  at,           \* per resetter, the place in the script, or 0
  tested,       \* per resetter, it has found room for what it adds next
  resets,
  known,        \* robot_id has come from the referee system
  lost,         \* something was dropped since remove_all(): it was not known
  screen        \* what each name shows

lists   == <<label, shape, shapeCount, deleting>>
threads == <<at, tested, resets>>
gauge   == <<value, fetched>>
away    == <<known, lost, screen>>
uiVars  == <<lists, threads, gauge, away>>

Blank == [name |-> NoName, op |-> "NULL", revising |-> FALSE]

UIInit ==
  /\ label = << >>
  /\ shape = [i \in 1..MaxShapes |-> Blank] /\ shapeCount = 0
  /\ deleting = FALSE
  /\ value \in Values /\ fetched = FALSE
  /\ at = [r \in Resetters |-> 0] /\ tested = [r \in Resetters |-> FALSE]
  /\ resets = 0
  /\ known = FALSE /\ lost = FALSE
  /\ screen = [n \in Names |-> Absent]

Content(n)  == IF n = Gauge THEN value ELSE Fixed
NewShape(n) == [name |-> n, op |-> "ADD", revising |-> TRUE]
NewLabel(n) == [name |-> n, content |-> Content(n), op |-> "ADD", revising |-> TRUE]

-----------------------------------------------------------------------------
(* RefereeUILG::reset(), its waits of a second left to the interleaving.   *)

RemoveAllKeeping(r) ==   \* mutant of RemoveAll: the labels stay
  /\ at[r] = 0 /\ resets < MaxResets
  /\ resets' = resets + 1
  /\ at' = [at EXCEPT ![r] = 1]
  /\ shapeCount' = 0 /\ deleting' = TRUE
  /\ lost' = FALSE
  /\ UNCHANGED <<label, shape, tested, gauge, known, screen>>

RemoveAllQuietly(r) ==   \* mutant of RemoveAll: the screen is not told
  /\ at[r] = 0 /\ resets < MaxResets
  /\ resets' = resets + 1
  /\ at' = [at EXCEPT ![r] = 1]
  /\ label' = << >> /\ shapeCount' = 0
  /\ lost' = FALSE
  /\ UNCHANGED <<shape, deleting, tested, gauge, known, screen>>

RemoveAll(r) ==
  /\ at[r] = 0 /\ resets < MaxResets
  /\ resets' = resets + 1
  /\ at' = [at EXCEPT ![r] = 1]
  /\ label' = << >> /\ shapeCount' = 0 /\ deleting' = TRUE
  /\ lost' = FALSE
  /\ UNCHANGED <<shape, tested, gauge, known, screen>>

Onward(r) ==
  /\ at' = [at EXCEPT ![r] = IF @ = Len(Script) THEN 0 ELSE @ + 1]
  /\ tested' = [tested EXCEPT ![r] = FALSE]

(* Whether there is room is asked before the mutex is taken.               *)
Test(r) ==
  /\ at[r] # 0 /\ ~tested[r]
  /\ IF (IF at[r] <= Len(Labels) THEN Len(label) < MaxLabels ELSE shapeCount < MaxShapes)
     THEN tested' = [tested EXCEPT ![r] = TRUE] /\ UNCHANGED at
     ELSE Onward(r)
  /\ UNCHANGED <<lists, resets, gauge, away>>

Add(r) ==
  /\ at[r] # 0 /\ tested[r]
  /\ LET n == Script[at[r]] IN
       IF n \in Places(Labels)
       THEN label' = Append(label, NewLabel(n)) /\ UNCHANGED <<shape, shapeCount>>
       ELSE /\ shapeCount' = shapeCount + 1
            /\ shape' = IF n \in Places(Lines) THEN [shape EXCEPT ![shapeCount'].revising = TRUE]
                        ELSE [shape EXCEPT ![shapeCount'] = NewShape(n)]
            /\ UNCHANGED label
  /\ Onward(r)
  /\ UNCHANGED <<deleting, resets, gauge, away>>

-----------------------------------------------------------------------------
(* RefereeUILG's fetch thread: set_cap_volt().                             *)

Fetch ==
  /\ ~fetched
  /\ value' \in Values \ {value}
  /\ fetched' = TRUE
  /\ UNCHANGED <<lists, threads, away>>

\* the first label of that name
Found == {i \in DOMAIN label : label[i].name = Gauge /\ \A j \in 1..(i - 1) : label[j].name # Gauge}

Revise ==
  /\ fetched
  /\ fetched' = FALSE
  /\ label' = [i \in DOMAIN label |-> IF i \in Found
                 THEN [label[i] EXCEPT !.content = value, !.revising = TRUE] ELSE label[i]]
  /\ UNCHANGED <<shape, shapeCount, deleting, value, threads, away>>

-----------------------------------------------------------------------------
(* RefereeUISKD's thread.  On the screen "ADD" draws, and "MODIFY" changes *)
(* what is there.                                                          *)

Sent(then) == screen' = (IF known THEN then ELSE screen) /\ lost' = (lost \/ ~known)

SendDeletion ==
  /\ deleting
  /\ deleting' = FALSE
  /\ Sent([n \in Names |-> Absent])
  /\ UNCHANGED <<label, shape, shapeCount, threads, gauge, known>>

Done(graphic) == [graphic EXCEPT !.op = "MODIFY", !.revising = FALSE]
Pending(array, count) == {i \in 1..count : array[i].revising}
First(s) == CHOOSE i \in s : \A j \in s : i <= j

SendLabelAtOnce ==   \* mutant of SendLabel: before the deletion
  /\ Pending(label, Len(label)) # {}
  /\ LET i == First(Pending(label, Len(label)))
         n == label[i].name IN
       /\ label' = [label EXCEPT ![i] = Done(label[i])]
       /\ Sent(IF label[i].op = "ADD" \/ screen[n] # Absent
               THEN [screen EXCEPT ![n] = label[i].content] ELSE screen)
  /\ UNCHANGED <<shape, shapeCount, deleting, threads, gauge, known>>

SendLabel ==
  /\ ~deleting /\ Pending(label, Len(label)) # {}
  /\ LET i == First(Pending(label, Len(label)))
         n == label[i].name IN
       /\ label' = [label EXCEPT ![i] = Done(label[i])]
       /\ Sent(IF label[i].op = "ADD" \/ screen[n] # Absent
               THEN [screen EXCEPT ![n] = label[i].content] ELSE screen)
  /\ UNCHANGED <<shape, shapeCount, deleting, threads, gauge, known>>

\* the first TxMax shapes to be sent
Batch == {i \in Pending(shape, shapeCount) :
            Cardinality({j \in Pending(shape, shapeCount) : j < i}) < TxMax}

SendShapesAllDone ==   \* mutant of SendShapes: those that did not fit, too
  /\ ~deleting /\ Pending(label, Len(label)) = {} /\ Pending(shape, shapeCount) # {}
  /\ shape' = [i \in DOMAIN shape |-> IF i <= shapeCount THEN Done(shape[i]) ELSE shape[i]]
  /\ Sent([n \in Names |-> IF \E i \in Batch : shape[i].name = n /\ shape[i].op = "ADD"
                            THEN Fixed ELSE screen[n]])
  /\ UNCHANGED <<label, shapeCount, deleting, threads, gauge, known>>

SendShapes ==
  /\ ~deleting /\ Pending(label, Len(label)) = {} /\ Pending(shape, shapeCount) # {}
  /\ shape' = [i \in DOMAIN shape |-> IF i \in Batch THEN Done(shape[i]) ELSE shape[i]]
  /\ Sent([n \in Names |-> IF \E i \in Batch : shape[i].name = n /\ shape[i].op = "ADD"
                            THEN Fixed ELSE screen[n]])
  /\ UNCHANGED <<label, shapeCount, deleting, threads, gauge, known>>

SKDThread == SendDeletion \/ SendLabel \/ SendShapes

(* The first frame with the state of the robot.                            *)
Recognised ==
  /\ ~known
  /\ known' = TRUE
  /\ UNCHANGED <<lists, threads, gauge, lost, screen>>

UINext ==
  \/ \E r \in Resetters : RemoveAll(r) \/ Test(r) \/ Add(r)
  \/ Fetch \/ Revise \/ SKDThread \/ Recognised

UISpec == UIInit /\ [][UINext]_uiVars

(* All threads run; when somebody asks for a reset is left open.           *)
UIFairSpec ==
  /\ UISpec
  /\ \A r \in Resetters : WF_uiVars(Test(r) \/ Add(r))
  /\ WF_uiVars(Revise) /\ WF_uiVars(SKDThread)

-----------------------------------------------------------------------------
Label == [name : Places(Labels), content : Contents, op : {"ADD", "MODIFY"}, revising : BOOLEAN]
Shape == [name : Places(Circles) \cup {NoName}, op : {"NULL", "ADD", "MODIFY"}, revising : BOOLEAN]

UITypeOK ==
  /\ label \in Seq(Label)
  /\ shape \in [1..MaxShapes -> Shape] /\ shapeCount \in Nat
  /\ {deleting, fetched, known, lost} \subseteq BOOLEAN /\ value \in Values
  /\ at \in [Resetters -> 0..Len(Script)] /\ tested \in [Resetters -> BOOLEAN]
  /\ resets \in 0..MaxResets
  /\ screen \in [Names -> Contents \cup {Absent}]

(* The arrays are never overrun, though room is asked for before the mutex *)
(* is taken: resets that overlap add to what a remove_all() left, and      *)
(* there is room for one drawing by every thread that resets.              *)
Fits == Len(label) <= MaxLabels /\ shapeCount <= MaxShapes

Listed == {label[i].name : i \in DOMAIN label} \cup {shape[i].name : i \in 1..shapeCount}

(* A label that counts as sent is on the screen, unless its message went   *)
(* to a referee system that did not know the robot or is to be deleted.    *)
(* (Not so of shapes: add_line() lists what its element held before.)      *)
SentIsShown ==
  ~deleting /\ ~lost =>
    \A i \in DOMAIN label : ~label[i].revising => screen[label[i].name] # Absent

(* The screen shows nothing that is not in the lists: a deletion is not    *)
(* overtaken, and nothing of an earlier drawing survives it.               *)
NoGhosts == ~deleting /\ ~lost => {n \in Names : screen[n] # Absent} \subseteq Listed

Resetting == \E r \in Resetters : at[r] # 0
Twice     == \E i, j \in DOMAIN label : i # j /\ label[i].name = label[j].name

(* Once a reset has gone by that the referee system saw, the screen shows  *)
(* every label and circle, and the gauge the last value.  Not when two     *)
(* resets overlapped: revise_label() then finds only the first of two      *)
(* labels of the gauge, and the second may be sent after it.               *)
ScreenFollows ==
  \A v \in Values :
    <>[](~Resetting /\ ~lost /\ ~Twice /\ label # << >> /\ value = v) =>
      <>[](\A n \in Places(Labels \o Circles) : screen[n] = Content(n))
=============================================================================
