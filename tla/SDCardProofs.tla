---------------------------- MODULE SDCardProofs ----------------------------
(***************************************************************************)
(* Theorems about SDCard, for every set of identifiers and values and any  *)
(* number of blocks.  That a finished write is found again follows from    *)
(* where its first block is: never at the sector that is being written     *)
(* (Stored).  That RAM and card agree while nothing fails follows from how *)
(* far write_data() has come (Mirror); that a failed write disturbs no     *)
(* other identifier, from where RAM has what was finished (Held).          *)
(***************************************************************************)
EXTENDS SDCard, WellFoundedInduction, TLAPS

USE SDAssumption DEF PROTOCOL_VERSION

-----------------------------------------------------------------------------
(* find_blk() returns the first of the blocks it could return.             *)
LEMMA Least ==
  ASSUME NEW S \in SUBSET Nat, S # {}
  PROVE  Min(S) \in S /\ \A y \in S : Min(S) <= y
<1> DEFINE R == OpToRel(<, Nat)
<1>1. IsWellFoundedOn(R, Nat)
  BY NatLessThanWellFounded
<1>2. R = {p \in Nat \X Nat : p[1] < p[2]}
  BY DEF OpToRel
<1> HIDE DEF R
<1>3. PICK x \in S : \A y \in S : ~(<<y, x>> \in R)
  BY <1>1, WFMin, Zenon
<1>4. ASSUME NEW y \in S PROVE x <= y
  <2>1. x \in Nat /\ y \in Nat /\ <<y, x>> \notin R
    BY <1>3, Zenon
  <2>2. y < x => <<y, x>> \in R
    BY <2>1, <1>2
  <2>3. QED
    BY <2>1, <2>2
<1>5. QED
  BY <1>4 DEF Min

(* Block i is the first under id.                                          *)
First(blocks, i, id) ==
  blocks[i].id = id /\ \A j \in 1..MaxBlocks : j < i => blocks[j].id # id

(* get_data() copies the first block under an identifier.                  *)
LEMMA GetFirst ==
  ASSUME NEW blocks \in [1..MaxBlocks -> Blocks], NEW info \in Headers, NEW id \in Ids,
         NEW i \in 1..info.available_blk, First(blocks, i, id)
  PROVE  Get(blocks, info, id) = blocks[i].value
<1> DEFINE found == Find(blocks, info, id)
<1>1. info.available_blk \in 0..MaxBlocks
  BY DEF Headers
<1>2. i \in found /\ found \in SUBSET Nat
  BY <1>1 DEF Find, First
<1>3. \A j \in found : i <= j
  BY <1>1 DEF Find, First
<1>4. Min(found) \in found /\ Min(found) <= i /\ i <= Min(found)
  BY <1>2, <1>3, Least
<1>5. Min(found) = i
  BY <1>2, <1>4
<1>6. QED
  BY <1>2, <1>5, Zenon DEF Get

(* Whatever get_data() finds, it finds in the first block under it.        *)
LEMMA FoundFirst ==
  ASSUME NEW blocks \in [1..MaxBlocks -> Blocks], NEW info \in Headers, NEW id \in Ids,
         Find(blocks, info, id) # {}
  PROVE  /\ Min(Find(blocks, info, id)) \in 1..info.available_blk
         /\ First(blocks, Min(Find(blocks, info, id)), id)
<1> DEFINE found == Find(blocks, info, id)
<1>1. info.available_blk \in 0..MaxBlocks
  BY DEF Headers
<1>2. found \in SUBSET Nat
  BY <1>1 DEF Find
<1>3. Min(found) \in found /\ \A j \in found : Min(found) <= j
  BY <1>2, Least
<1> DEFINE least == Min(found)
<1>4. least \in 1..info.available_blk /\ blocks[least].id = id
  BY <1>3 DEF Find
<1>5. ASSUME NEW j \in 1..MaxBlocks, j < least PROVE blocks[j].id # id
  <2>1. j \in 1..info.available_blk
    BY <1>1, <1>4, <1>5
  <2>2. j \notin found
    BY <1>1, <1>3, <1>4, <1>5
  <2>3. QED
    BY <2>1, <2>2 DEF Find
<1>6. QED
  BY <1>4, <1>5 DEF First

-----------------------------------------------------------------------------
(* Types, in parts.                                                        *)
CardOK == header \in Headers \cup {BadHeader} /\ sector \in [1..MaxBlocks -> Blocks]
RamOK == sd_info \in Headers /\ blk \in [1..MaxBlocks -> Blocks]
CallOK ==
  /\ op \in {"OFF", "IDLE", "HEADER", "BLOCK", "ERASE"}
  /\ at \in 1..MaxBlocks /\ arg \in Blocks
  /\ op \in {"HEADER", "BLOCK"} => arg \in [id : Ids, value : Values]
HistoryOK ==
  /\ read \in BOOLEAN /\ loaded \in BOOLEAN /\ sound \in BOOLEAN
  /\ kept \in [Ids -> Values \cup {NoValue}]
TypeInv == CardOK /\ RamOK /\ CallOK /\ HistoryOK

(* The constants of the module have their types.                           *)
LEMMA Constants ==
  /\ Blank \in Blocks /\ NoBlocks \in [1..MaxBlocks -> Blocks] /\ ZeroInfo \in Headers
  /\ Forgotten \in [Ids -> Values \cup {NoValue}]
  /\ BadHeader \notin Headers
  /\ [protocal_ver |-> 1, available_blk |-> 0] \in Headers
  /\ 1 \in 1..MaxBlocks
BY DEF Blank, Blocks, NoBlocks, ZeroInfo, Headers, Forgotten, BadHeader

(* A call of write_data() has a block to write.                            *)
LEMMA Beginning ==
  ASSUME TypeInv, NEW id \in Ids, NEW value \in Values, Begin(id, value)
  PROVE  /\ arg' \in [id : Ids, value : Values] /\ arg' \in Blocks
         /\ arg' = [id |-> id, value |-> value]
         /\ CardOK' /\ HistoryOK'
<1>1. arg' = [id |-> id, value |-> value] /\ arg' \in [id : Ids, value : Values] /\ arg' \in Blocks
  BY DEF Begin, Blocks
<1>2. CardOK'
  BY DEF TypeInv, CardOK, Begin, card
<1>3. HistoryOK'
  <2>1. kept' \in [Ids -> Values \cup {NoValue}]
    BY DEF TypeInv, HistoryOK, Begin
  <2>2. read' = read /\ loaded' = loaded /\ sound' \in BOOLEAN
    BY Zenon DEF TypeInv, HistoryOK, Begin
  <2>3. QED
    BY <2>1, <2>2, Zenon DEF TypeInv, HistoryOK
<1>4. QED
  BY <1>1, <1>2, <1>3

(* An interrupted write leaves a sector of the card.                       *)
LEMMA Remaining ==
  ASSUME TypeInv, Remains
  PROVE  CardOK'
<1>1. CASE op \in {"HEADER", "ERASE"}
  BY <1>1 DEF TypeInv, CardOK, RamOK, Remains, card
<1>2. CASE op = "BLOCK"
  <2>1. sector[at] \in Blocks /\ blk[at] \in Blocks
    BY DEF TypeInv, CardOK, RamOK, CallOK
  <2>2. /\ [id |-> sector[at].id, value |-> NoValue] \in Blocks
        /\ [id |-> blk[at].id, value |-> NoValue] \in Blocks
    BY <2>1 DEF Blocks
  <2>3. QED
    BY <1>2, <2>1, <2>2 DEF TypeInv, CardOK, Remains, card
<1>3. CASE op \in {"OFF", "IDLE"}
  BY <1>3 DEF TypeInv, CardOK, Remains, card
<1>4. QED
  BY <1>1, <1>2, <1>3 DEF TypeInv, CallOK

(* Every step keeps the types.                                             *)
LEMMA TypeStep == TypeInv /\ [Next]_vars => TypeInv'
<1> SUFFICES ASSUME TypeInv, [Next]_vars PROVE TypeInv'
  OBVIOUS
<1> USE DEF TypeInv
<1>1. CASE TurnOn
  BY <1>1 DEF TurnOn, CardOK, RamOK, CallOK, HistoryOK, card, ram, history
<1>2. CASE ReadRefused
  BY <1>2 DEF ReadRefused, CardOK, RamOK, CallOK, HistoryOK, card, call
<1>3. CASE ReadFails
  <2>1. RamOK'
    <3>1. CASE UNCHANGED ram
      BY <3>1 DEF RamOK, ram
    <3>2. CASE ~UNCHANGED ram
      <4>1. PICK n \in 0..header.available_blk :
              blk' = [i \in 1..MaxBlocks |-> IF i <= n THEN sector[i] ELSE blk[i]]
        BY <1>3, <3>2 DEF ReadFails
      <4>2. sd_info' = header /\ header # BadHeader
        BY <1>3, <3>2 DEF ReadFails, Formatted
      <4>3. QED
        BY <4>1, <4>2 DEF RamOK, CardOK
    <3>3. QED
      BY <3>1, <3>2
  <2>2. QED
    BY <1>3, <2>1 DEF ReadFails, CardOK, CallOK, HistoryOK, card, call
<1>4. CASE ReadAll
  BY <1>4 DEF ReadAll, Formatted, CardOK, RamOK, CallOK, HistoryOK, card, call
<1>5. ASSUME NEW id \in Ids, NEW value \in Values, Rewrite(id, value) PROVE TypeInv'
  <2>1. arg' \in [id : Ids, value : Values] /\ arg' \in Blocks /\ CardOK' /\ HistoryOK'
    BY <1>5, Beginning DEF Rewrite
  <2>2. at' \in 1..MaxBlocks
    <3>1. at' \in 1..sd_info.available_blk
      BY <1>5, FoundFirst DEF Rewrite, RamOK
    <3>2. QED
      BY <3>1 DEF RamOK, Headers
  <2>3. RamOK'
    BY <1>5, <2>1, <2>2 DEF Rewrite, RamOK
  <2>4. QED
    BY <1>5, <2>1, <2>2, <2>3 DEF Rewrite, CallOK
<1>6. ASSUME NEW id \in Ids, NEW value \in Values, TakeBlock(id, value) PROVE TypeInv'
  <2>1. arg' \in [id : Ids, value : Values] /\ arg' \in Blocks /\ CardOK' /\ HistoryOK'
    BY <1>6, Beginning DEF TakeBlock
  <2>2. RamOK' /\ at' \in 1..MaxBlocks
    BY <1>6 DEF TakeBlock, RamOK, Headers
  <2>3. QED
    BY <1>6, <2>1, <2>2 DEF TakeBlock, CallOK
<1>7. CASE HeaderWritten
  BY <1>7 DEF HeaderWritten, CardOK, RamOK, CallOK, HistoryOK, history
<1>8. CASE BlockWritten
  <2>1. arg.id \in Ids /\ arg.value \in Values
    BY <1>8 DEF BlockWritten, CallOK
  <2>2. CardOK' /\ RamOK' /\ CallOK'
    BY <1>8, Constants DEF BlockWritten, Return, CardOK, RamOK, CallOK, ram
  <2>3. HistoryOK'
    BY <1>8, <2>1 DEF BlockWritten, HistoryOK
  <2>4. QED
    BY <2>2, <2>3
<1>9. CASE Erase
  BY <1>9, Constants DEF Erase, CardOK, RamOK, CallOK, HistoryOK, card
<1>10. CASE Erased
  BY <1>10, Constants DEF Erased, Return, CardOK, RamOK, CallOK, HistoryOK, ram
<1>11. CASE WriteFails
  <2>1. CardOK'
    BY <1>11, Remaining DEF WriteFails
  <2>2. QED
    BY <1>11, <2>1, Constants DEF WriteFails, Return, RamOK, CallOK, HistoryOK, ram
<1>12. CASE PowerCut
  <2>1. CardOK'
    BY <1>12, Remaining DEF PowerCut
  <2>2. QED
    BY <1>12, <2>1, Constants DEF PowerCut, RamOK, CallOK, HistoryOK
<1>13. CASE UNCHANGED vars
  BY <1>13 DEF vars, card, ram, call, history, CardOK, RamOK, CallOK, HistoryOK
<1>14. QED
  BY <1>1, <1>2, <1>3, <1>4, <1>5, <1>6, <1>7, <1>8, <1>9, <1>10, <1>11, <1>12, <1>13 DEF Next


(* Everything has its type.                                                *)
THEOREM Typing == Spec => []TypeOK
<1>1. Init => TypeInv
  BY Constants DEF Init, TypeInv, CardOK, RamOK, CallOK, HistoryOK
<1>2. TypeInv => TypeOK
  BY DEF TypeInv, CardOK, RamOK, CallOK, HistoryOK, TypeOK
<1>3. QED
  BY <1>1, <1>2, TypeStep, PTL DEF Spec

-----------------------------------------------------------------------------
(* While all has succeeded since read_all() or erase(), the card is what   *)
(* RAM says, but for the write under way.                                  *)
Mirror ==
  loaded =>
    /\ op # "OFF"
    /\ op \in {"IDLE", "BLOCK"} => header = sd_info
    /\ op = "HEADER" => sd_info = [header EXCEPT !.available_blk = @ + 1]
    /\ op # "ERASE" =>
         /\ header \in Headers /\ header.protocal_ver = 1
         /\ \A i \in 1..header.available_blk : blk[i] = sector[i] \/ (op = "BLOCK" /\ i = at)

(* How far write_data() or erase() has come.                               *)
Progress ==
  /\ op \in {"HEADER", "BLOCK"} => kept[arg.id] = NoValue /\ (sound => loaded)
  /\ op = "HEADER" =>
       /\ at = sd_info.available_blk
       /\ \A j \in 1..MaxBlocks : j < at => blk[j].id # arg.id
  /\ op = "BLOCK" =>
       at \in 1..sd_info.available_blk /\ First(blk, at, arg.id) /\ blk[at] = arg
  /\ op = "ERASE" =>
       kept = Forgotten /\ sd_info = [protocal_ver |-> 1, available_blk |-> 0]

(* What was finished is in the first block under its identifier, and that  *)
(* is not the block being written.                                         *)
Stored ==
  sound /\ Formatted =>
    \A id \in Ids : kept[id] # NoValue =>
      \E i \in 1..header.available_blk :
        First(sector, i, id) /\ sector[i].value = kept[id] /\ (op = "BLOCK" => i # at)

(* What was finished is in RAM, too, in the first block under its          *)
(* identifier, from read_all() on: whatever is written or fails elsewhere. *)
Held ==
  /\ op = "OFF" => ~read
  /\ read /\ sound =>
       \A id \in Ids : kept[id] # NoValue =>
         \E i \in 1..sd_info.available_blk :
           First(blk, i, id) /\ blk[i].value = kept[id] /\ (op \in {"HEADER", "BLOCK"} => i # at)

IInv == TypeInv /\ Mirror /\ Progress /\ Stored /\ Held

(* Every step keeps RAM a mirror of the card.                              *)
LEMMA MirrorStep == IInv /\ [Next]_vars => Mirror'
<1> SUFFICES ASSUME IInv, [Next]_vars PROVE Mirror'
  OBVIOUS
<1> USE DEF IInv
<1>1. CASE TurnOn
  BY <1>1 DEF TurnOn, Mirror, card, ram, history
<1>2. CASE ReadRefused \/ ReadFails \/ WriteFails \/ PowerCut
  BY <1>2, Zenon DEF ReadRefused, ReadFails, WriteFails, PowerCut, Mirror
<1>3. CASE ReadAll
  <2>1. /\ op' = "IDLE" /\ header' = header /\ sd_info' = header /\ sector' = sector
        /\ header \in Headers /\ header.protocal_ver = 1
    BY <1>3 DEF ReadAll, Formatted, TypeInv, CardOK, card, call
  <2>2. \A i \in 1..header.available_blk : blk'[i] = sector[i]
    BY <1>3, <2>1 DEF ReadAll, Headers
  <2>3. QED
    BY <2>1, <2>2 DEF Mirror
<1>4. ASSUME NEW id \in Ids, NEW value \in Values, Rewrite(id, value) PROVE Mirror'
  <2>1. /\ op = "IDLE" /\ op' = "BLOCK" /\ header' = header /\ sd_info' = sd_info
        /\ sector' = sector /\ loaded' = loaded /\ blk' = [blk EXCEPT ![at'] = arg']
    BY <1>4 DEF Rewrite, Begin, card
  <2>2. \A i \in 1..MaxBlocks : i # at' => blk'[i] = blk[i]
    BY <2>1 DEF TypeInv, RamOK
  <2>3. header \in Headers => header.available_blk \in 0..MaxBlocks
    BY DEF Headers
  <2>4. QED
    BY <2>1, <2>2, <2>3 DEF Mirror
<1>5. ASSUME NEW id \in Ids, NEW value \in Values, TakeBlock(id, value) PROVE Mirror'
  BY <1>5 DEF TakeBlock, Begin, Mirror, card
<1>6. CASE HeaderWritten
  <2>1. ASSUME loaded
        PROVE  /\ header' = sd_info /\ sd_info.protocal_ver = 1
               /\ \A i \in 1..sd_info.available_blk : blk'[i] = sector[i] \/ i = at
    <3>1. /\ header \in Headers /\ header.protocal_ver = 1
          /\ sd_info = [header EXCEPT !.available_blk = @ + 1]
          /\ \A i \in 1..header.available_blk : blk[i] = sector[i]
      BY <1>6, <2>1 DEF HeaderWritten, Mirror
    <3>2. /\ sd_info.protocal_ver = 1 /\ sd_info.available_blk = header.available_blk + 1
          /\ header.available_blk \in Nat
      BY <3>1 DEF Headers
    <3>3. at = sd_info.available_blk /\ blk' = [blk EXCEPT ![at] = arg]
      BY <1>6 DEF HeaderWritten, Progress
    <3>4. ASSUME NEW i \in 1..sd_info.available_blk, i # at PROVE blk'[i] = sector[i]
      <4>1. i \in 1..header.available_blk /\ i \in 1..MaxBlocks
        BY <3>2, <3>3, <3>4 DEF TypeInv, CallOK
      <4>2. QED
        BY <3>1, <3>3, <3>4, <4>1 DEF TypeInv, RamOK
    <3>5. QED
      BY <1>6, <3>2, <3>4 DEF HeaderWritten
  <2>2. QED
    BY <1>6, <2>1 DEF HeaderWritten, Mirror, history, TypeInv, RamOK
<1>7. CASE BlockWritten
  <2>1. \A i \in 1..MaxBlocks : sector'[i] = IF i = at THEN blk[at] ELSE sector[i]
    BY <1>7 DEF BlockWritten, TypeInv, CardOK
  <2>2. header \in Headers => header.available_blk \in 0..MaxBlocks
    BY DEF Headers
  <2>3. QED
    BY <1>7, <2>1, <2>2 DEF BlockWritten, Return, Mirror, ram
<1>8. CASE Erase
  BY <1>8 DEF Erase, Mirror
<1>9. CASE Erased
  <2>1. /\ op' = "IDLE" /\ header' = sd_info /\ sd_info' = sd_info
        /\ sd_info = [protocal_ver |-> 1, available_blk |-> 0]
    BY <1>9 DEF Erased, Return, Progress, ram
  <2>2. QED
    BY <2>1, Constants DEF Mirror
<1>10. CASE UNCHANGED vars
  BY <1>10 DEF vars, card, ram, call, history, Mirror
<1>11. QED
  BY <1>1, <1>2, <1>3, <1>4, <1>5, <1>6, <1>7, <1>8, <1>9, <1>10, Zenon DEF Next

(* Every step keeps what is known of a write under way.                    *)
LEMMA ProgressStep == IInv /\ [Next]_vars => Progress'
<1> SUFFICES ASSUME IInv, [Next]_vars PROVE Progress'
  OBVIOUS
<1> USE DEF IInv
<1>1. CASE TurnOn \/ ReadRefused \/ ReadFails \/ ReadAll
  BY <1>1 DEF TurnOn, ReadRefused, ReadFails, ReadAll, Progress, call
<1>2. ASSUME NEW id \in Ids, NEW value \in Values, Rewrite(id, value) PROVE Progress'
  <2>1. /\ op' = "BLOCK" /\ sd_info' = sd_info /\ loaded' = loaded /\ arg'.id = id
        /\ blk' = [blk EXCEPT ![at'] = arg'] /\ sound' = (sound /\ loaded)
        /\ kept' = [kept EXCEPT ![id] = NoValue]
    BY <1>2 DEF Rewrite, Begin
  <2>2. at' \in 1..sd_info.available_blk /\ First(blk, at', id)
    BY <1>2, FoundFirst DEF Rewrite, TypeInv, RamOK
  <2>3. at' \in 1..MaxBlocks
    BY <2>2 DEF TypeInv, RamOK, Headers
  <2>4. blk'[at'] = arg' /\ \A j \in 1..MaxBlocks : j < at' => blk'[j] = blk[j]
    BY <2>1, <2>3 DEF TypeInv, RamOK
  <2>5. First(blk', at', id)
    BY <2>1, <2>2, <2>4 DEF First
  <2>6. kept'[arg'.id] = NoValue
    BY <2>1 DEF TypeInv, HistoryOK
  <2>7. sound' => loaded'
    BY <2>1, Zenon
  <2>8. QED
    BY <2>1, <2>2, <2>4, <2>5, <2>6, <2>7 DEF Progress
<1>3. ASSUME NEW id \in Ids, NEW value \in Values, TakeBlock(id, value) PROVE Progress'
  <2>1. /\ op' = "HEADER" /\ arg'.id = id /\ blk' = blk /\ loaded' = loaded
        /\ sound' = (sound /\ loaded) /\ kept' = [kept EXCEPT ![id] = NoValue]
        /\ Find(blk, sd_info, id) = {} /\ at' = sd_info.available_blk + 1
        /\ sd_info' = [sd_info EXCEPT !.available_blk = @ + 1]
    BY <1>3 DEF TakeBlock, Begin
  <2>2. at' = sd_info'.available_blk
    BY <2>1 DEF TypeInv, RamOK, Headers
  <2>3. ASSUME NEW j \in 1..MaxBlocks, j < at' PROVE blk'[j].id # arg'.id
    <3>1. j \in 1..sd_info.available_blk
      BY <2>1, <2>3 DEF TypeInv, RamOK, Headers
    <3>2. QED
      BY <2>1, <3>1 DEF Find
  <2>4. kept'[arg'.id] = NoValue
    BY <2>1 DEF TypeInv, HistoryOK
  <2>5. sound' => loaded'
    BY <2>1, Zenon
  <2>6. QED
    BY <2>1, <2>2, <2>3, <2>4, <2>5 DEF Progress
<1>4. CASE HeaderWritten
  <2>1. /\ op = "HEADER" /\ op' = "BLOCK" /\ at' = at /\ arg' = arg /\ sd_info' = sd_info
        /\ kept' = kept /\ sound' = sound /\ loaded' = loaded
        /\ blk' = [blk EXCEPT ![at] = arg]
    BY <1>4 DEF HeaderWritten, history
  <2>2. blk'[at] = arg /\ \A j \in 1..MaxBlocks : j < at => blk'[j] = blk[j]
    BY <2>1 DEF TypeInv, RamOK, CallOK
  <2>3. First(blk', at, arg.id)
    BY <2>1, <2>2 DEF First, Progress
  <2>4. at \in 1..sd_info.available_blk
    BY <2>1 DEF Progress, TypeInv, CallOK
  <2>5. QED
    BY <2>1, <2>2, <2>3, <2>4 DEF Progress
<1>5. CASE BlockWritten \/ Erased \/ WriteFails \/ PowerCut
  BY <1>5 DEF BlockWritten, Erased, WriteFails, PowerCut, Return, Progress
<1>6. CASE Erase
  BY <1>6 DEF Erase, Progress
<1>7. CASE UNCHANGED vars
  BY <1>7 DEF vars, card, ram, call, history, Progress
<1>8. QED
  BY <1>1, <1>2, <1>3, <1>4, <1>5, <1>6, <1>7, Zenon DEF Next

(* A block other than the first under an identifier does not hide it, if   *)
(* what is written there has another identifier, or had.                   *)
LEMMA FirstKept ==
  ASSUME TypeInv, NEW id, NEW left \in Blocks, NEW i \in 1..MaxBlocks,
         First(sector, i, id), i # at, left.id = sector[at].id \/ left.id # id,
         sector' = [sector EXCEPT ![at] = left]
  PROVE  First(sector', i, id) /\ sector'[i] = sector[i]
<1>1. \A j \in 1..MaxBlocks : sector'[j] = IF j = at THEN left ELSE sector[j]
  BY DEF TypeInv, CardOK
<1>2. sector'[i] = sector[i]
  BY <1>1
<1>3. ASSUME NEW j \in 1..MaxBlocks, j < i PROVE sector'[j].id # id
  <2>1. sector[j].id # id
    BY <1>3 DEF First
  <2>2. QED
    BY <1>1, <2>1
<1>4. QED
  BY <1>2, <1>3 DEF First

(* What has been finished survives whatever an interrupted write leaves.   *)
LEMMA RemainsStored ==
  ASSUME IInv, Remains, kept' = kept, sound' = sound, op' \in {"IDLE", "OFF"}
  PROVE  Stored'
<1> SUFFICES ASSUME sound, Formatted', NEW id \in Ids, kept[id] # NoValue
             PROVE  \E i \in 1..header'.available_blk :
                      First(sector', i, id) /\ sector'[i].value = kept[id]
  BY DEF Stored
<1> USE DEF IInv
<1>1. CASE op \in {"IDLE", "OFF"}
  BY <1>1 DEF Remains, Stored, card, Formatted
<1>2. CASE op = "ERASE"
  <2>1. kept[id] = NoValue
    BY <1>2 DEF Progress, Forgotten
  <2>2. QED
    BY <2>1
<1>3. CASE op = "HEADER"
  <2>1. /\ header \in Headers /\ header.protocal_ver = 1
        /\ sd_info = [header EXCEPT !.available_blk = @ + 1]
    BY <1>3 DEF Progress, Mirror
  <2>2. header # BadHeader /\ header.available_blk \in Nat
    BY <2>1, Constants DEF Headers
  <2>3. header'.available_blk \in {header.available_blk, header.available_blk + 1}
    BY <1>3, <2>1 DEF Remains, Formatted, Headers
  <2>4. PICK i \in 1..header.available_blk :
          First(sector, i, id) /\ sector[i].value = kept[id]
    BY <2>1, <2>2 DEF Stored, Formatted
  <2>5. sector' = sector /\ i \in 1..header'.available_blk
    BY <1>3, <2>2, <2>3 DEF Remains
  <2>6. QED
    BY <2>4, <2>5
<1>4. CASE op = "BLOCK"
  <2>1. header \in Headers /\ header.protocal_ver = 1 /\ header' = header
    BY <1>4 DEF Progress, Mirror, Remains
  <2>2. PICK i \in 1..header.available_blk :
          First(sector, i, id) /\ sector[i].value = kept[id] /\ i # at
    BY <1>4, <2>1, Constants DEF Stored, Formatted
  <2>3. id # arg.id /\ blk[at].id = arg.id /\ i \in 1..MaxBlocks
    BY <1>4, <2>1 DEF Progress, Headers
  <2>4. sector[at] \in Blocks /\ blk[at] \in Blocks
    BY DEF TypeInv, CardOK, RamOK, CallOK
  <2>5. PICK left \in Blocks : /\ sector' = [sector EXCEPT ![at] = left]
                               /\ left.id = sector[at].id \/ left.id # id
    <3>1. /\ [id |-> sector[at].id, value |-> NoValue] \in Blocks
          /\ [id |-> blk[at].id, value |-> NoValue] \in Blocks
      BY <2>4 DEF Blocks
    <3>2. PICK left \in {sector[at], blk[at], [id |-> sector[at].id, value |-> NoValue],
                         [id |-> blk[at].id, value |-> NoValue]} :
            sector' = [sector EXCEPT ![at] = left]
      BY <1>4 DEF Remains
    <3>3. left.id \in {sector[at].id, blk[at].id} /\ left \in Blocks
      BY <2>4, <3>1, <3>2
    <3>4. QED
      BY <2>3, <3>2, <3>3
  <2>6. First(sector', i, id) /\ sector'[i] = sector[i]
    BY <2>2, <2>3, <2>5, FirstKept
  <2>7. QED
    BY <2>1, <2>2, <2>6
<1>5. QED
  BY <1>1, <1>2, <1>3, <1>4 DEF TypeInv, CallOK

(* The block that is finished is the first under its identifier, and is in *)
(* nobody's way.                                                           *)
LEMMA WrittenStored == IInv /\ BlockWritten => Stored'
<1> SUFFICES ASSUME IInv, BlockWritten, sound', Formatted', NEW id \in Ids, kept'[id] # NoValue
             PROVE  \E i \in 1..header'.available_blk :
                      First(sector', i, id) /\ sector'[i].value = kept'[id]
  BY DEF Stored, BlockWritten, Return
<1> USE DEF IInv
<1>1. /\ op = "BLOCK" /\ sound /\ loaded /\ header' = header
      /\ sector' = [sector EXCEPT ![at] = blk[at]]
      /\ kept' = [kept EXCEPT ![arg.id] = arg.value]
  BY DEF BlockWritten, Progress
<1>2. /\ header \in Headers /\ header.protocal_ver = 1 /\ header = sd_info
      /\ \A i \in 1..header.available_blk : blk[i] = sector[i] \/ i = at
  BY <1>1 DEF Mirror
<1>3. at \in 1..header.available_blk /\ First(blk, at, arg.id) /\ blk[at] = arg
  BY <1>1, <1>2 DEF Progress
<1>4. header.available_blk \in 0..MaxBlocks /\ arg.id \in Ids /\ arg \in Blocks
  BY <1>1, <1>2 DEF Headers, TypeInv, CallOK
<1>5. CASE id = arg.id
  <2>1. sector'[at] = arg /\ kept'[id] = arg.value
    BY <1>1, <1>3, <1>4, <1>5 DEF TypeInv, CardOK, CallOK, HistoryOK
  <2>2. ASSUME NEW j \in 1..MaxBlocks, j < at PROVE sector'[j].id # id
    <3>1. blk[j].id # id /\ j \in 1..header.available_blk
      BY <1>3, <1>4, <1>5, <2>2 DEF First
    <3>2. sector'[j] = sector[j] /\ sector[j] = blk[j]
      BY <1>1, <1>2, <2>2, <3>1 DEF TypeInv, CardOK, CallOK
    <3>3. QED
      BY <3>1, <3>2
  <2>3. First(sector', at, id)
    BY <1>5, <2>1, <2>2 DEF First
  <2>4. QED
    BY <1>1, <1>3, <2>1, <2>3
<1>6. CASE id # arg.id
  <2>1. kept'[id] = kept[id]
    BY <1>1, <1>6 DEF TypeInv, HistoryOK
  <2>2. PICK i \in 1..header.available_blk :
          First(sector, i, id) /\ sector[i].value = kept[id] /\ i # at
    BY <1>1, <1>2, <2>1, Constants DEF Stored, Formatted
  <2>3. i \in 1..MaxBlocks /\ blk[at] \in Blocks /\ blk[at].id # id
    BY <1>3, <1>4, <1>6, <2>2
  <2>4. First(sector', i, id) /\ sector'[i] = sector[i]
    <3>1. PICK left \in Blocks : left = blk[at]
      BY <2>3
    <3>2. sector' = [sector EXCEPT ![at] = left] /\ left.id # id
      BY <1>1, <2>3, <3>1
    <3>3. QED
      BY <2>2, <2>3, <3>2, FirstKept
  <2>5. QED
    BY <1>1, <2>1, <2>2, <2>4
<1>7. QED
  BY <1>5, <1>6

(* Every step keeps what was reported as stored on the card.               *)
LEMMA StoredStep == IInv /\ [Next]_vars => Stored'
<1> SUFFICES ASSUME IInv, [Next]_vars PROVE Stored'
  OBVIOUS
<1> USE DEF IInv
<1>1. CASE TurnOn \/ ReadRefused \/ ReadFails \/ ReadAll
  BY <1>1 DEF TurnOn, ReadRefused, ReadFails, ReadAll, Stored, Formatted, card, call, history
<1>2. ASSUME NEW id \in Ids, NEW value \in Values, Rewrite(id, value) PROVE Stored'
  <2>1. /\ op = "IDLE" /\ UNCHANGED <<header, sector>> /\ sound' = (sound /\ loaded)
        /\ kept' = [kept EXCEPT ![id] = NoValue]
    BY <1>2 DEF Rewrite, Begin, card
  <2>2. at' \in 1..sd_info.available_blk /\ First(blk, at', id)
    BY <1>2, FoundFirst DEF Rewrite, TypeInv, RamOK
  <2>3. ASSUME sound', Formatted, NEW k \in Ids, kept'[k] # NoValue
        PROVE  \E i \in 1..header.available_blk :
                 First(sector, i, k) /\ sector[i].value = kept'[k] /\ i # at'
    <3>1. k # id /\ kept'[k] = kept[k]
      BY <2>1, <2>3 DEF TypeInv, HistoryOK
    <3>2. sound /\ loaded
      BY <2>1, <2>3, Zenon
    <3>3. PICK i \in 1..header.available_blk : First(sector, i, k) /\ sector[i].value = kept[k]
      BY <2>3, <3>1, <3>2 DEF Stored
    <3>4. sector[at'].id = id
      BY <2>1, <2>2, <3>2 DEF Mirror, First
    <3>5. i # at'
      BY <3>1, <3>3, <3>4 DEF First
    <3>6. QED
      BY <3>1, <3>3, <3>5
  <2>4. QED
    BY <2>1, <2>3 DEF Stored, Formatted
<1>3. ASSUME NEW id \in Ids, NEW value \in Values, TakeBlock(id, value) PROVE Stored'
  <2>1. /\ UNCHANGED <<header, sector>> /\ sound' = (sound /\ loaded) /\ op' = "HEADER"
        /\ kept' = [kept EXCEPT ![id] = NoValue]
    BY <1>3 DEF TakeBlock, Begin, card
  <2>2. sound' => sound
    BY <2>1, Zenon
  <2>3. \A k \in Ids : kept'[k] # NoValue => kept'[k] = kept[k]
    BY <2>1 DEF TypeInv, HistoryOK
  <2>4. QED
    BY <2>1, <2>2, <2>3 DEF Stored, Formatted
<1>4. CASE HeaderWritten
  <2>1. /\ op = "HEADER" /\ header' = sd_info /\ UNCHANGED <<sector, at, kept, sound>>
        /\ at = sd_info.available_blk
    BY <1>4 DEF HeaderWritten, history, Progress
  <2>2. ASSUME sound, NEW id \in Ids, kept[id] # NoValue
        PROVE  \E i \in 1..sd_info.available_blk :
                 First(sector, i, id) /\ sector[i].value = kept[id] /\ i # at
    <3>1. /\ header \in Headers /\ header.protocal_ver = 1
          /\ sd_info = [header EXCEPT !.available_blk = @ + 1]
      BY <2>1, <2>2 DEF Progress, Mirror
    <3>2. PICK i \in 1..header.available_blk : First(sector, i, id) /\ sector[i].value = kept[id]
      BY <2>2, <3>1, Constants DEF Stored, Formatted
    <3>3. i \in 1..sd_info.available_blk /\ i # at
      BY <2>1, <3>1 DEF Headers
    <3>4. QED
      BY <3>2, <3>3
  <2>3. QED
    BY <2>1, <2>2 DEF Stored
<1>5. CASE BlockWritten
  BY <1>5, WrittenStored
<1>6. CASE Erase \/ Erased
  <2>1. kept' = Forgotten
    BY <1>6 DEF Erase, Erased, Progress
  <2>2. QED
    BY <2>1 DEF Stored, Forgotten
<1>7. CASE WriteFails \/ PowerCut
  BY <1>7, RemainsStored DEF WriteFails, PowerCut, Return
<1>8. CASE UNCHANGED vars
  BY <1>8 DEF vars, card, call, history, Stored, Formatted
<1>9. QED
  BY <1>1, <1>2, <1>3, <1>4, <1>5, <1>6, <1>7, <1>8, Zenon DEF Next

(* A block put elsewhere, under another identifier, does not hide one.     *)
LEMMA Beside ==
  ASSUME NEW blocks \in [1..MaxBlocks -> Blocks], NEW n \in 1..MaxBlocks, NEW left,
         NEW id, NEW i \in 1..MaxBlocks, First(blocks, i, id), i # n, left.id # id
  PROVE  LET put == [blocks EXCEPT ![n] = left] IN First(put, i, id) /\ put[i] = blocks[i]
<1> DEFINE put == [blocks EXCEPT ![n] = left]
<1>1. \A j \in 1..MaxBlocks : put[j] = IF j = n THEN left ELSE blocks[j]
  OBVIOUS
<1>2. put[i] = blocks[i]
  BY <1>1
<1>3. ASSUME NEW j \in 1..MaxBlocks, j < i PROVE put[j].id # id
  BY <1>1, <1>3 DEF First
<1>4. QED
  BY <1>2, <1>3 DEF First

(* A call of write_data() begins elsewhere than at what was finished.      *)
LEMMA BeginsBeside ==
  ASSUME IInv, NEW id \in Ids, NEW value \in Values,
         Rewrite(id, value) \/ TakeBlock(id, value)
  PROVE  Held'
<1> USE DEF IInv
<1>1. /\ op = "IDLE" /\ op' # "OFF" /\ read' = read /\ sound' = (sound /\ loaded)
      /\ kept' = [kept EXCEPT ![id] = NoValue]
  BY DEF Rewrite, TakeBlock, Begin
<1>2. sound' => sound
  BY <1>1, Zenon
<1>3. SUFFICES ASSUME read, sound, NEW k \in Ids, kept'[k] # NoValue
               PROVE  \E i \in 1..sd_info'.available_blk :
                        First(blk', i, k) /\ blk'[i].value = kept'[k] /\ i # at'
  BY <1>1, <1>2 DEF Held
<1>4. k # id /\ kept'[k] = kept[k]
  BY <1>1, <1>3 DEF TypeInv, HistoryOK
<1>5. PICK i \in 1..sd_info.available_blk : First(blk, i, k) /\ blk[i].value = kept[k]
  BY <1>3, <1>4 DEF Held
<1>6. i \in 1..MaxBlocks
  BY <1>5 DEF TypeInv, RamOK, Headers
<1>7. CASE Rewrite(id, value)
  <2>1. /\ at' \in 1..sd_info.available_blk /\ First(blk, at', id)
        /\ blk' = [blk EXCEPT ![at'] = arg'] /\ sd_info' = sd_info /\ arg'.id = id
    BY <1>7, FoundFirst DEF Rewrite, Begin, TypeInv, RamOK
  <2>2. at' \in 1..MaxBlocks /\ i # at'
    BY <1>4, <1>5, <2>1 DEF First, TypeInv, RamOK, Headers
  <2>3. First(blk', i, k) /\ blk'[i] = blk[i]
    BY <1>4, <1>5, <1>6, <2>1, <2>2, Beside DEF TypeInv, RamOK
  <2>4. QED
    BY <1>4, <1>5, <2>1, <2>2, <2>3
<1>8. CASE TakeBlock(id, value)
  <2>1. /\ blk' = blk /\ at' = sd_info.available_blk + 1
        /\ sd_info' = [sd_info EXCEPT !.available_blk = @ + 1]
    BY <1>8 DEF TakeBlock
  <2>2. i \in 1..sd_info'.available_blk /\ i # at'
    BY <1>5, <2>1 DEF TypeInv, RamOK, Headers
  <2>3. QED
    BY <1>4, <1>5, <2>1, <2>2
<1>9. QED
  BY <1>7, <1>8

(* Every step keeps in RAM what was finished.                              *)
LEMMA HeldStep == IInv /\ [Next]_vars => Held'
<1> SUFFICES ASSUME IInv, [Next]_vars PROVE Held'
  OBVIOUS
<1> USE DEF IInv
<1>1. CASE TurnOn \/ ReadRefused \/ ReadFails \/ PowerCut
  <2>1. ~read'
    BY <1>1, Zenon DEF TurnOn, ReadRefused, ReadFails, PowerCut, Held, history
  <2>2. QED
    BY <2>1 DEF Held
<1>2. CASE ReadAll
  <2>1. /\ op' = "IDLE" /\ sd_info' = header /\ header # BadHeader /\ Formatted
        /\ kept' = kept /\ sound' = sound
    BY <1>2 DEF ReadAll, Formatted, call
  <2>2. header.available_blk \in 0..MaxBlocks
    BY <2>1 DEF TypeInv, CardOK, Headers
  <2>3. ASSUME sound, NEW id \in Ids, kept[id] # NoValue
        PROVE  \E i \in 1..header.available_blk : First(blk', i, id) /\ blk'[i].value = kept[id]
    <3>1. PICK i \in 1..header.available_blk : First(sector, i, id) /\ sector[i].value = kept[id]
      BY <2>1, <2>3 DEF Stored
    <3>2. \A j \in 1..header.available_blk : blk'[j] = sector[j]
      BY <1>2, <2>2 DEF ReadAll
    <3>3. \A j \in 1..MaxBlocks : j < i => j \in 1..header.available_blk
      BY <2>2, <3>1
    <3>4. QED
      BY <3>1, <3>2, <3>3 DEF First
  <2>4. QED
    BY <2>1, <2>3 DEF Held
<1>3. ASSUME NEW id \in Ids, NEW value \in Values,
             Rewrite(id, value) \/ TakeBlock(id, value)
      PROVE  Held'
  BY <1>3, BeginsBeside
<1>4. CASE HeaderWritten
  <2>1. /\ op = "HEADER" /\ op' = "BLOCK" /\ UNCHANGED <<sd_info, at, read, sound, kept>>
        /\ blk' = [blk EXCEPT ![at] = arg]
    BY <1>4 DEF HeaderWritten, history
  <2>2. ASSUME read, sound, NEW id \in Ids, kept[id] # NoValue
        PROVE  \E i \in 1..sd_info.available_blk :
                 First(blk', i, id) /\ blk'[i].value = kept[id] /\ i # at
    <3>1. PICK i \in 1..sd_info.available_blk :
            First(blk, i, id) /\ blk[i].value = kept[id] /\ i # at
      BY <2>1, <2>2 DEF Held
    <3>2. arg.id # id /\ i \in 1..MaxBlocks /\ at \in 1..MaxBlocks
      BY <2>1, <2>2, <3>1 DEF Progress, TypeInv, RamOK, CallOK, Headers
    <3>3. First(blk', i, id) /\ blk'[i] = blk[i]
      BY <2>1, <3>1, <3>2, Beside DEF TypeInv, RamOK
    <3>4. QED
      BY <3>1, <3>3
  <2>3. QED
    BY <2>1, <2>2 DEF Held
<1>5. CASE BlockWritten
  <2>1. /\ op = "BLOCK" /\ op' = "IDLE" /\ UNCHANGED <<sd_info, blk, read, sound>>
        /\ kept' = [kept EXCEPT ![arg.id] = arg.value]
    BY <1>5 DEF BlockWritten, Return, ram
  <2>2. ASSUME read, sound, NEW id \in Ids, kept'[id] # NoValue
        PROVE  \E i \in 1..sd_info.available_blk : First(blk, i, id) /\ blk[i].value = kept'[id]
    <3>1. CASE id = arg.id
      BY <2>1, <3>1 DEF Progress, TypeInv, HistoryOK
    <3>2. CASE id # arg.id
      <4>1. kept'[id] = kept[id]
        BY <2>1, <3>2 DEF TypeInv, HistoryOK
      <4>2. QED
        BY <2>2, <4>1 DEF Held
    <3>3. QED
      BY <3>1, <3>2
  <2>3. QED
    BY <2>1, <2>2 DEF Held
<1>6. CASE Erase \/ Erased
  <2>1. kept' = Forgotten /\ op' # "OFF"
    BY <1>6 DEF Erase, Erased, Return, Progress
  <2>2. QED
    BY <2>1 DEF Held, Forgotten
<1>7. CASE WriteFails
  BY <1>7 DEF WriteFails, Return, Held, ram
<1>8. CASE UNCHANGED vars
  BY <1>8 DEF vars, ram, call, history, Held
<1>9. QED
  BY <1>1, <1>2, <1>3, <1>4, <1>5, <1>6, <1>7, <1>8, Zenon DEF Next

(* The four, with the types, hold always.                                  *)
LEMMA Inductive == Spec => []IInv
<1>1. Init => IInv
  BY Constants DEF Init, IInv, TypeInv, CardOK, RamOK, CallOK, HistoryOK, Mirror, Progress,
     Stored, Formatted, Held
<1>2. IInv /\ [Next]_vars => IInv'
  BY TypeStep, MirrorStep, ProgressStep, StoredStep, HeldStep DEF IInv
<1>3. QED
  BY <1>1, <1>2, PTL DEF Spec

-----------------------------------------------------------------------------
(* What write_data() has reported as stored is what read_all() and         *)
(* get_data() find after any sequence of writes, failures and power cuts,  *)
(* unless the header is lost or RAM was not read again after a failure.    *)
THEOREM Kept == Spec => []Durable
<1>1. IInv => Durable
  <2> SUFFICES ASSUME IInv, sound, Formatted, NEW id \in Ids, kept[id] # NoValue
               PROVE  Get(sector, header, id) = kept[id]
    BY DEF Durable
  <2>1. header \in Headers /\ sector \in [1..MaxBlocks -> Blocks]
    BY DEF IInv, TypeInv, CardOK, Formatted
  <2>2. PICK i \in 1..header.available_blk : First(sector, i, id) /\ sector[i].value = kept[id]
    BY DEF IInv, Stored
  <2>3. QED
    BY <2>1, <2>2, GetFirst
<1>2. QED
  BY <1>1, Inductive, PTL

(* While all has succeeded since read_all() or erase(), get_data() answers *)
(* from RAM what it would answer after a restart; when a write has failed, *)
(* it still answers what was stored under every identifier but that of the *)
(* write.                                                                  *)
THEOREM Agreement == Spec => []Coherent
<1>1. ASSUME IInv, op = "IDLE", loaded, sound
      PROVE  header = sd_info /\ \A id \in Ids : Get(blk, sd_info, id) = Get(sector, header, id)
  <2>1. /\ header = sd_info /\ header \in Headers
        /\ \A i \in 1..header.available_blk : blk[i] = sector[i]
    BY <1>1 DEF IInv, Mirror
  <2>2. ASSUME NEW id \in Ids PROVE Get(blk, sd_info, id) = Get(sector, header, id)
    <3>1. Find(blk, sd_info, id) = Find(sector, header, id)
      BY <2>1 DEF Find
    <3>2. CASE Find(blk, sd_info, id) = {}
      BY <2>1, <3>1, <3>2 DEF Get
    <3>3. CASE Find(blk, sd_info, id) # {}
      <4>1. Min(Find(blk, sd_info, id)) \in 1..header.available_blk
        BY <1>1, <2>1, <3>3, FoundFirst DEF IInv, TypeInv, RamOK
      <4>2. QED
        BY <2>1, <3>1, <3>3, <4>1 DEF Get
    <3>4. QED
      BY <3>2, <3>3
  <2>3. QED
    BY <2>1, <2>2
<1>2. ASSUME IInv, read, sound, NEW id \in Ids, kept[id] # NoValue
      PROVE  Get(blk, sd_info, id) = kept[id]
  <2>1. PICK i \in 1..sd_info.available_blk : First(blk, i, id) /\ blk[i].value = kept[id]
    BY <1>2 DEF IInv, Held
  <2>2. QED
    BY <1>2, <2>1, GetFirst DEF IInv, TypeInv, RamOK
<1>3. IInv => Coherent
  BY <1>1, <1>2 DEF Coherent
<1>4. QED
  BY <1>3, Inductive, PTL

=============================================================================
