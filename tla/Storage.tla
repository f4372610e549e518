------------------------------ MODULE Storage -------------------------------
(***************************************************************************)
(* What a board keeps on disk between two runs of the program: the program *)
(* flash (_OnAVRInit and _OnAVRDeinit of parts/Board.cpp) and the EEPROM   *)
(* (parts/components/EEPROM.cpp), each with a file of its own.  (The       *)
(* external flash of the printers is SpiFlash.tla.)                        *)
(*                                                                         *)
(* A memory is a sequence of StSize bytes; a file is a record of whether   *)
(* it exists and what it holds.  A save opens, and so empties, its file in *)
(* one step and writes it in the next: the process may be killed between,  *)
(* by a second interrupt (OnSigINT of MK404.cpp), and a write may fail     *)
(* part of the way.  Only the EEPROM's address and byte are arguments of   *)
(* its actions; what the firmware does to either memory is external.       *)
(***************************************************************************)
EXTENDS Integers, Sequences

CONSTANTS
  StSize,         \* e2end + 1, and flashend + 1: the bytes of a memory
  StBytes,        \* the values of a byte, with 0 and 255
  StMaxWrites     \* bound: the changes of a memory in one run

ASSUME StorageAssumption ==
  StSize \in Nat /\ StSize > 1 /\ {0, 255} \subseteq StBytes /\ StMaxWrites \in Nat

StMemories == {"flash", "eeprom"}
StBlank == [i \in 1..StSize |-> 255]
StZero == [i \in 1..StSize |-> 0]
StNoFile == [exists |-> FALSE, data |-> <<>>]
StFile(data) == [exists |-> TRUE, data |-> data]

VARIABLES
  stPc,         \* where the program is
  stMemory,     \* the two memories
  stFile,       \* the two files
  stReturn,     \* where Save of the EEPROM returns to
  stSaved,      \* history: what the last save that was completed wrote; <<>> if there is none
  stCut,        \* history: a later save was cut short, or failed
  stFresh,      \* history: the memory has not changed since it was loaded or saved
  stWrites      \* bound: the changes so far

stVars == <<stPc, stMemory, stFile, stReturn, stSaved, stCut, stFresh, stWrites>>

\* A first run has no files, or one of the wrong length, or fresh ones of zeros only.
StInit ==
  /\ stPc = "off" /\ stMemory = [m \in StMemories |-> StBlank]
  /\ \E n \in (StSize - 2)..StSize :
       stFile = [m \in StMemories |-> StFile(SubSeq(StZero, 1, n))]
     \/ stFile = [m \in StMemories |-> StNoFile]
  /\ stReturn = "running" /\ stSaved = [m \in StMemories |-> <<>>]
  /\ stCut = [m \in StMemories |-> FALSE] /\ stFresh = [m \in StMemories |-> FALSE]
  /\ stWrites = 0

\* The test of both loads: the file is open and its length is at least that of the memory -
\* less one.
StLongEnough(file) == file.exists /\ Len(file.data) >= StSize - 1
\* The read that follows.
StReadFails(file) == Len(file.data) < StSize

\* _OnAVRInit; a new process has blank memories.
StLoadFlash ==
  /\ stPc = "off"
  /\ IF ~StLongEnough(stFile["flash"])
     THEN stPc' = "flashed" /\ stMemory' = [m \in StMemories |-> StBlank]
     ELSE IF StReadFails(stFile["flash"])
     THEN stPc' = "exit" /\ stMemory' = [m \in StMemories |-> StBlank]
     ELSE /\ stPc' = "flashed"
          /\ stMemory' = [flash |-> stFile["flash"].data, eeprom |-> StBlank]
  /\ stFresh' = [m \in StMemories |-> stPc' = "flashed"]
  /\ stWrites' = 0
  /\ UNCHANGED <<stFile, stReturn, stSaved, stCut>>

\* (A definition named Mut... is the one after it with a plausible mistake in it.)
MutStLoad ==
  IF ~StLongEnough(stFile["eeprom"])
  THEN stPc' = "running" /\ UNCHANGED <<stMemory, stFresh>>
  ELSE IF StReadFails(stFile["eeprom"])
  THEN stPc' = "exit" /\ UNCHANGED <<stMemory, stFresh>>
  ELSE /\ stPc' = "running"
       /\ stMemory' = IF \E i \in 1..StSize : stFile["eeprom"].data[i] = 0 THEN stMemory
                      ELSE [stMemory EXCEPT !["eeprom"] = stFile["eeprom"].data]
       /\ stFresh' = [stFresh EXCEPT !["eeprom"] = TRUE]
\* Load of the EEPROM: a file of zeros only is taken for a fresh one.
StLoad ==
  IF ~StLongEnough(stFile["eeprom"])
  THEN stPc' = "running" /\ UNCHANGED <<stMemory, stFresh>>
  ELSE IF StReadFails(stFile["eeprom"])
  THEN stPc' = "exit" /\ UNCHANGED <<stMemory, stFresh>>
  ELSE /\ stPc' = "running"
       /\ stMemory' = IF stFile["eeprom"].data = StZero THEN stMemory
                      ELSE [stMemory EXCEPT !["eeprom"] = stFile["eeprom"].data]
       /\ stFresh' = [stFresh EXCEPT !["eeprom"] = TRUE]

\* CreateAVR, ActLoad
StLoadEeprom ==
  /\ stPc \in {"flashed", "running"}
  /\ StLoad
  /\ UNCHANGED <<stFile, stReturn, stSaved, stCut, stWrites>>

StChange(m, data) ==
  /\ stPc = "running" /\ stWrites < StMaxWrites /\ stWrites' = stWrites + 1
  /\ stMemory' = [stMemory EXCEPT ![m] = data]
  /\ stFresh' = [stFresh EXCEPT ![m] = FALSE]
  /\ UNCHANGED <<stPc, stFile, stReturn, stSaved, stCut>>
\* Poke - ActPoke has checked the address - and what the firmware writes.
StPoke == \E i \in 1..StSize, byte \in StBytes :
            StChange("eeprom", [stMemory["eeprom"] EXCEPT ![i] = byte])
\* Clear
StClear == StChange("eeprom", StBlank)
\* LoadFirmware, and the bootloader
StProgram == \E byte \in StBytes : StChange("flash", [i \in 1..StSize |-> byte])

\* The files are opened by _OnAVRDeinit and by Save, which empties them; they may not open.
StOpen(m, from, to, failed) ==
  /\ stPc = from
  /\ \/ /\ stPc' = to
        /\ stFile' = [stFile EXCEPT ![m] = StFile(<<>>)]
     \/ /\ stPc' = failed
        /\ UNCHANGED stFile
  /\ stCut' = [stCut EXCEPT ![m] = TRUE]
  /\ UNCHANGED <<stMemory, stSaved, stFresh, stWrites>>
\* They are written whole, or in part.
StWrite(m, from, to) ==
  /\ stPc = from /\ stPc' = to
  /\ \E n \in 0..StSize :
       /\ stFile' = [stFile EXCEPT ![m] = StFile(SubSeq(stMemory[m], 1, n))]
       /\ stCut' = [stCut EXCEPT ![m] = n < StSize]
       /\ stSaved' = [stSaved EXCEPT ![m] = IF n < StSize THEN @ ELSE stMemory[m]]
  /\ stFresh' = [stFresh EXCEPT ![m] = TRUE]
  /\ UNCHANGED <<stMemory, stReturn, stWrites>>

\* ActSave
StSave ==
  /\ StOpen("eeprom", "running", "eepromOpen", "running")
  /\ stReturn' = "running"
\* avr_terminate calls _OnAVRDeinit, which saves the flash and then the EEPROM.
StDeinit ==
  /\ StOpen("flash", "running", "flashOpen", "flashDone")
  /\ UNCHANGED stReturn
StWriteFlash == StWrite("flash", "flashOpen", "flashDone")
StDeinitEeprom ==
  /\ StOpen("eeprom", "flashDone", "eepromOpen", "off")
  /\ stReturn' = "off"
StWriteEeprom == StWrite("eeprom", "eepromOpen", stReturn)

\* The process is killed; or the user starts the program again after it left with an error.
StKill ==
  /\ stPc # "off" /\ stPc' = "off"
  /\ stMemory' = [m \in StMemories |-> StBlank]
  /\ UNCHANGED <<stFile, stReturn, stSaved, stCut, stFresh, stWrites>>

StNext ==
  \/ StLoadFlash \/ StLoadEeprom \/ StPoke \/ StClear \/ StProgram
  \/ StSave \/ StDeinit \/ StWriteFlash \/ StDeinitEeprom \/ StWriteEeprom \/ StKill

StSpec == StInit /\ [][StNext]_stVars

-----------------------------------------------------------------------------
StTypeOK ==
  /\ stPc \in {"off", "flashed", "running", "flashOpen", "flashDone", "eepromOpen", "exit"}
  /\ stMemory \in [StMemories -> [1..StSize -> StBytes]]
  /\ \A m \in StMemories : /\ stFile[m].exists \in BOOLEAN
                           /\ Len(stFile[m].data) <= StSize
  /\ stReturn \in {"running", "off"}
  /\ stCut \in [StMemories -> BOOLEAN] /\ stFresh \in [StMemories -> BOOLEAN]
  /\ stWrites \in 0..StMaxWrites

\* What was saved comes back.  Unless a later save was cut short, the file is the one the
\* last save wrote, and a memory that has not changed since it was loaded is that of the
\* file - except an EEPROM of zeros only, for which the one that was there before is kept.
\* The program leaves with an error only for a file that is one byte short.
StKept ==
  /\ \A m \in StMemories :
       stSaved[m] # <<>> /\ ~stCut[m] =>
         /\ stFile[m] = StFile(stSaved[m])
         /\ stPc = "running" /\ stFresh[m] =>
              stMemory[m] = stSaved[m] \/ (m = "eeprom" /\ stSaved[m] = StZero)
  /\ stPc = "exit" => \E m \in StMemories : Len(stFile[m].data) = StSize - 1
=============================================================================
