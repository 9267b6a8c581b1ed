------------------------------- MODULE SDCard -------------------------------
(***************************************************************************)
(* The calibration the robot keeps on its SD card.  Sector 0 is a header,  *)
(* which counts the blocks in use; each block is a sector with one value   *)
(* under one identifier.  The class works on a copy in RAM: find_blk()     *)
(* looks for the identifier there, write_data() takes a new block when it  *)
(* finds none and then writes the header first, the block after it.        *)
(*                                                                         *)
(* The power may go between any two steps, and a write may fail; the       *)
(* sector being written then holds what it held, or what was written, or   *)
(* what no checksum accepts.  One thread calls the class.                  *)
(***************************************************************************)
EXTENDS Naturals, FiniteSetsExt

CONSTANTS
  Ids,       \* data identifiers
  Values,    \* what is stored under them
  NoId,      \* the identifier in a sector never written
  NoValue,   \* nothing, or nothing the checksum accepts
  MaxBlocks  \* bound: blocks in use; MAX_BLOCK_COUNT, which nothing enforces

ASSUME SDAssumption == NoId \notin Ids /\ NoValue \notin Values /\ MaxBlocks \in Nat \ {0}

PROTOCOL_VERSION == 1

Blocks  == [id : Ids \cup {NoId}, value : Values \cup {NoValue}]
Blank   == [id |-> NoId, value |-> NoValue]
Headers == [protocal_ver : 0..PROTOCOL_VERSION, available_blk : 0..MaxBlocks]
BadHeader == [protocal_ver |-> 0, available_blk |-> MaxBlocks + 1]   \* fails its checks

VARIABLES
  header,   \* sector 0
  sector,   \* the sectors of the blocks
  sd_info,  \* SDCard::sd_info
  blk,      \* SDCard::blk, without the header in blk[0]
  op,       \* "OFF" while not available_, else which sector is being written
  at, arg,  \* the block and the data of the write_data() under way
  read,     \* history: read_all() or erase() succeeded, no read_all() failed since
  loaded,   \* history: the same, and no write failed since
  sound,    \* history: since the last erase(), every write began when loaded
  kept      \* history: what the last finished write_data() of an identifier stored

card    == <<header, sector>>
ram     == <<sd_info, blk>>
call    == <<op, at, arg>>
history == <<read, loaded, sound, kept>>
vars    == <<card, ram, call, history>>

ZeroInfo  == [protocal_ver |-> 0, available_blk |-> 0]
NoBlocks  == [i \in 1..MaxBlocks |-> Blank]
Forgotten == [id \in Ids |-> NoValue]

Init ==
  /\ header = BadHeader /\ sector = NoBlocks
  /\ sd_info = ZeroInfo /\ blk = NoBlocks
  /\ op = "OFF" /\ at = 1 /\ arg = Blank
  /\ read = FALSE /\ loaded = FALSE /\ sound = TRUE /\ kept = Forgotten

Return == op' = "IDLE" /\ at' = 1 /\ arg' = Blank   \* the locals are gone

-----------------------------------------------------------------------------
FindShort(blocks, info, id) ==   \* mutant of Find: the last block is not looked at
  {i \in 1..info.available_blk : i < info.available_blk /\ blocks[i].id = id}

Find(blocks, info, id) ==
  {i \in 1..info.available_blk : blocks[i].id = id}

(* What get_data() copies, or nothing.                                     *)
Get(blocks, info, id) ==
  LET found == Find(blocks, info, id) IN
  IF found = {} THEN NoValue ELSE blocks[Min(found)].value

Formatted == header # BadHeader /\ header.protocal_ver = PROTOCOL_VERSION

TurnOn ==   \* init()
  /\ op = "OFF" /\ op' = "IDLE"
  /\ UNCHANGED <<card, ram, at, arg, history>>

ReadRefused ==
  /\ op = "IDLE" /\ ~Formatted
  /\ sd_info' = IF header = BadHeader THEN sd_info ELSE header
  /\ read' = FALSE /\ loaded' = FALSE
  /\ UNCHANGED <<card, blk, call, sound, kept>>

(* read_all() stops at the header, or after it and some of the blocks.     *)
ReadFails ==
  /\ op = "IDLE"
  /\ read' = FALSE /\ loaded' = FALSE
  /\ \/ UNCHANGED ram
     \/ /\ Formatted
        /\ sd_info' = header
        /\ \E n \in 0..header.available_blk :
             blk' = [i \in 1..MaxBlocks |-> IF i <= n THEN sector[i] ELSE blk[i]]
  /\ UNCHANGED <<card, call, sound, kept>>

ReadAll ==
  /\ op = "IDLE" /\ Formatted
  /\ sd_info' = header
  /\ blk' = [i \in 1..MaxBlocks |-> IF i <= header.available_blk THEN sector[i] ELSE blk[i]]
  /\ read' = TRUE /\ loaded' = TRUE
  /\ UNCHANGED <<card, call, sound, kept>>

-----------------------------------------------------------------------------
Begin(id, value) ==
  /\ op = "IDLE"
  /\ arg' = [id |-> id, value |-> value]
  /\ sound' = (sound /\ loaded)
  /\ kept' = [kept EXCEPT ![id] = NoValue]
  /\ UNCHANGED <<card, read, loaded>>

Rewrite(id, value) ==
  LET found == Find(blk, sd_info, id) IN
  /\ Begin(id, value)
  /\ found # {}
  /\ at' = Min(found)
  /\ blk' = [blk EXCEPT ![at'] = arg']
  /\ op' = "BLOCK"
  /\ UNCHANGED sd_info

TakeBlock(id, value) ==
  /\ Begin(id, value)
  /\ Find(blk, sd_info, id) = {}
  /\ sd_info.available_blk < MaxBlocks
  /\ sd_info' = [sd_info EXCEPT !.available_blk = @ + 1]
  /\ at' = sd_info.available_blk + 1
  /\ op' = "HEADER"
  /\ UNCHANGED blk

HeaderWritten ==
  /\ op = "HEADER" /\ op' = "BLOCK"
  /\ header' = sd_info
  /\ blk' = [blk EXCEPT ![at] = arg]
  /\ UNCHANGED <<sector, sd_info, at, arg, history>>

BlockWritten ==
  /\ op = "BLOCK" /\ Return
  /\ sector' = [sector EXCEPT ![at] = blk[at]]
  /\ kept' = [kept EXCEPT ![arg.id] = arg.value]
  /\ UNCHANGED <<header, ram, read, loaded, sound>>

Erase ==
  /\ op = "IDLE" /\ op' = "ERASE"
  /\ sd_info' = [protocal_ver |-> PROTOCOL_VERSION, available_blk |-> 0]
  /\ kept' = Forgotten
  /\ UNCHANGED <<card, blk, at, arg, read, loaded, sound>>

Erased ==
  /\ op = "ERASE" /\ Return
  /\ header' = sd_info
  /\ read' = TRUE /\ loaded' = TRUE /\ sound' = TRUE
  /\ UNCHANGED <<sector, ram, kept>>

-----------------------------------------------------------------------------
(* What a write that does not finish leaves of the sector.                 *)
Remains ==
  \/ /\ op \in {"HEADER", "ERASE"}
     /\ header' \in {header, sd_info, BadHeader}
     /\ UNCHANGED sector
  \/ /\ op = "BLOCK"
     /\ \E left \in {sector[at], blk[at],
                     [id |-> sector[at].id, value |-> NoValue],
                     [id |-> blk[at].id, value |-> NoValue]} :
          sector' = [sector EXCEPT ![at] = left]
     /\ UNCHANGED header
  \/ op \in {"OFF", "IDLE"} /\ UNCHANGED card

WriteFailsUndone ==   \* mutant of WriteFails: gives a block back, of a rewrite, too
  /\ op \in {"HEADER", "ERASE", "BLOCK"} /\ Return
  /\ Remains
  /\ sd_info' = IF sd_info.available_blk = 0 THEN sd_info
                ELSE [sd_info EXCEPT !.available_blk = @ - 1]
  /\ loaded' = FALSE
  /\ UNCHANGED <<blk, read, sound, kept>>

WriteFails ==
  /\ op \in {"HEADER", "ERASE", "BLOCK"} /\ Return
  /\ Remains
  /\ loaded' = FALSE
  /\ UNCHANGED <<ram, read, sound, kept>>

PowerCut ==
  /\ op # "OFF" /\ op' = "OFF"
  /\ Remains
  /\ sd_info' = ZeroInfo /\ blk' = NoBlocks
  /\ at' = 1 /\ arg' = Blank
  /\ read' = FALSE /\ loaded' = FALSE
  /\ UNCHANGED <<sound, kept>>

Next ==
  \/ TurnOn \/ ReadRefused \/ ReadFails \/ ReadAll
  \/ \E id \in Ids, value \in Values : Rewrite(id, value) \/ TakeBlock(id, value)
  \/ HeaderWritten \/ BlockWritten \/ Erase \/ Erased
  \/ WriteFails \/ PowerCut

Spec == Init /\ [][Next]_vars

-----------------------------------------------------------------------------
TypeOK ==
  /\ header \in Headers \cup {BadHeader} /\ sector \in [1..MaxBlocks -> Blocks]
  /\ sd_info \in Headers /\ blk \in [1..MaxBlocks -> Blocks]
  /\ op \in {"OFF", "IDLE", "HEADER", "BLOCK", "ERASE"}
  /\ at \in 1..MaxBlocks /\ arg \in Blocks
  /\ {read, loaded, sound} \subseteq BOOLEAN
  /\ kept \in [Ids -> Values \cup {NoValue}]

(* A value whose write_data() returned OK is what the next start of the    *)
(* robot reads from the card, whatever else has been written, has failed   *)
(* or was cut short since: as long as its header is intact, and no         *)
(* write_data() was called after a failure before read_all() or erase()    *)
(* had succeeded.                                                          *)
Durable ==
  sound /\ Formatted =>
    \A id \in Ids : kept[id] # NoValue => Get(sector, header, id) = kept[id]

(* What get_data() answers between calls.  As long as nothing has failed   *)
(* since read_all() or erase(), it is what it would answer after a         *)
(* restart.  When writes have failed, it still is what was stored, for     *)
(* every identifier whose last write_data() returned OK: a failed write    *)
(* shows under no identifier but its own.  Both with the condition of      *)
(* Durable on writes.                                                      *)
Coherent ==
  op = "IDLE" /\ sound =>
    /\ loaded => /\ header = sd_info
                 /\ \A id \in Ids : Get(blk, sd_info, id) = Get(sector, header, id)
    /\ read => \A id \in Ids : kept[id] # NoValue => Get(blk, sd_info, id) = kept[id]

(* What get_data() answers is on the card.  Not so for the identifier of   *)
(* a write that failed: write_data() fills blk, and counts the block,      *)
(* before it writes them, and undoes neither when it returns IO_ERROR.     *)
ServedIsStored ==
  op = "IDLE" /\ sound /\ read /\ Formatted =>
    \A id \in Ids : Get(blk, sd_info, id) \in {NoValue, Get(sector, header, id)}

(* Not so: the header counts the block that is written next, and a power   *)
(* cut in between shows what the sector held before the last erase().  *)
ErasedStaysErased ==
  [][(op # "OFF" /\ op' = "OFF" /\ loaded /\ sound /\ header' # BadHeader) =>
       \A id \in Ids \ {arg.id} :
         Get(blk, sd_info, id) = NoValue => Get(sector', header', id) = NoValue]_vars
=============================================================================
