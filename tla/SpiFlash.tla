------------------------------ MODULE SpiFlash ------------------------------
(***************************************************************************)
(* The serial flash of the Einsy board (parts/components/w25x20cl.cpp):    *)
(* what it does with the bytes that the firmware sends between a falling   *)
(* and a rising edge of its chip select, with the script actions, and with *)
(* the file that carries its contents from one start of the program to the *)
(* next.  All of it happens in the AVR thread, but a script action may     *)
(* come between any two bytes, and the program may be killed anywhere.     *)
(*                                                                         *)
(* A byte is the set of its bits that are 1.  m_cmdOut, the answer to the  *)
(* firmware, is left out: it copies a value of the state.                  *)
(***************************************************************************)
EXTENDS Naturals, FiniteSets

CONSTANTS
  Bits,              \* the bits of a byte
  TotalSize, PageSize, SectorSize, Block32Size, Block64Size,   \* in bytes
  UidSize,           \* bytes of m_UID
  RawAddresses,      \* the addresses the firmware sends
  SentBytes,         \* the bytes it programs
  FillBytes,         \* the arguments of the script action Fill
  Chunks,            \* the second chunks a .hex file may have
  CutLengths,        \* the lengths of a file whose Save was cut short
  MaxSelects,        \* bound: transactions
  MaxScripts,        \* bound: script actions
  MaxBoots           \* bound: starts of the program

Byte == SUBSET Bits
Addr == 0..TotalSize - 1
Offset == 0..PageSize - 1
Chunk == [at : 0..TotalSize, size : Nat, data : Byte]

ASSUME SpiFlashAssumption ==
  /\ {TotalSize, PageSize, SectorSize, Block32Size, Block64Size} \subseteq Nat \ {0}
  /\ \A s \in {PageSize, SectorSize, Block32Size, Block64Size} : TotalSize % s = 0
  /\ UidSize \in Nat
  /\ RawAddresses \subseteq Nat /\ SentBytes \subseteq Byte /\ FillBytes \subseteq Byte
  /\ Chunks \subseteq Chunk /\ CutLengths \subseteq 0..TotalSize
  /\ MaxSelects \in Nat /\ MaxScripts \in Nat /\ MaxBoots \in Nat

VARIABLES
  power,         \* the program: off, starting, on, or ended by exit(1)
  csel,          \* the chip is selected (its pin is low)
  state,         \* m_state
  command,       \* m_command
  rxCnt,         \* m_rxCnt
  address,       \* m_address
  wel,           \* the write enable latch of m_status_register
  flash,         \* m_flash
  pageBuffer,    \* m_pageBuffer
  file,          \* the file at m_filepath: its length, contents and last byte
  sent,          \* history: bytes sent for a page in this transaction
  rewritten,     \* history: a script rewrote the flash in this transaction
  kept,          \* history: the flash when it was last saved to the end
  fresh,         \* history: nothing changed the flash since it was loaded
  selects, scripts, boots    \* counters for the bounds

busVars  == <<csel, state, command, rxCnt, address>>
history  == <<sent, rewritten, kept, fresh>>
counters == <<selects, scripts, boots>>
vars == <<power, busVars, wel, flash, pageBuffer, file, history, counters>>

Nothing == [x \in {} |-> Bits]
NoCommand == "none"

\* The members' initialisers: {0xFF} sets the first byte, the rest are 0.
FactoryFlash  == [a \in Addr |-> IF a = 0 THEN Bits ELSE {}]
FactoryBuffer == [o \in Offset |-> IF o = 0 THEN Bits ELSE {}]

Init ==
  /\ power = "off"
  /\ csel = FALSE /\ state = "IDLE" /\ command = NoCommand /\ rxCnt = 0 /\ address = 0
  /\ wel = FALSE
  /\ flash = FactoryFlash /\ pageBuffer = FactoryBuffer
  /\ file = [len |-> 0, data |-> FactoryFlash, extra |-> {}]
  /\ sent = Nothing /\ rewritten = FALSE
  /\ kept = [ok |-> FALSE, data |-> FactoryFlash]
  /\ fresh = FALSE
  /\ selects = 0 /\ scripts = 0 /\ boots = 0

(***************************************************************************)
(* A definition named Mut... is the one after it with a plausible mistake  *)
(* in it: the property it breaks shows that the run is able to fail.       *)
(***************************************************************************)

-----------------------------------------------------------------------------
\* OnCSELIn, the falling edge.
Select ==
  /\ power = "on" /\ ~csel /\ selects < MaxSelects
  /\ csel' = TRUE /\ selects' = selects + 1
  /\ state' = "LOADING" /\ command' = NoCommand /\ rxCnt' = 0 /\ address' = 0
  /\ sent' = Nothing /\ rewritten' = FALSE
  /\ UNCHANGED <<power, wel, flash, pageBuffer, file, kept, fresh, scripts, boots>>

\* OnSPIIn while LOADING: commands that need no more bytes, an address, or UID.
OneByte  == {"ENABLE_WR", "DISABLE_WR", "RD_STATUS_REG", "CHIP_ERASE"}
Addressed == {"RD_DATA", "MFRID_DEVID", "SECTOR_ERASE", "BLOCK32_ERASE",
              "BLOCK64_ERASE", "PAGE_PROGRAM"}
Commands == OneByte \cup Addressed \cup {"RD_UID", "unknown"}
CmdInSize == 5     \* m_cmdIn.size()

Loading == power = "on" /\ csel /\ state = "LOADING"
BusOnly == UNCHANGED <<power, csel, wel, flash, file, history, counters>>

FirstByte(c) ==
  /\ Loading /\ rxCnt = 0
  /\ command' = c /\ rxCnt' = 1
  /\ state' = IF c \in OneByte THEN "RUNNING" ELSE "LOADING"
  /\ UNCHANGED <<address, pageBuffer>> /\ BusOnly

\* A byte that completes nothing: too many of them are refused.
NextByte ==
  /\ Loading /\ rxCnt > 0
  /\ ~(command \in Addressed /\ rxCnt = 3) /\ ~(command = "RD_UID" /\ rxCnt = 4)
  /\ rxCnt' = IF rxCnt < CmdInSize THEN rxCnt + 1 ELSE rxCnt
  /\ UNCHANGED <<state, command, address, pageBuffer>> /\ BusOnly

Base(size, a) == (a \div size) * size

MutAddressByte(raw) ==
  /\ Loading /\ command \in Addressed /\ rxCnt = 3
  /\ address' = raw
  /\ pageBuffer' = IF command = "PAGE_PROGRAM"
                   THEN [o \in Offset |-> flash[Base(PageSize, raw % TotalSize) + o]]
                   ELSE pageBuffer
  /\ rxCnt' = 4 /\ state' = "RUNNING"
  /\ UNCHANGED command /\ BusOnly

\* The last byte of an address; PAGE_PROGRAM starts from the page as it is.
AddressByte(raw) ==
  /\ Loading /\ command \in Addressed /\ rxCnt = 3
  /\ address' = raw % TotalSize
  /\ pageBuffer' = IF command = "PAGE_PROGRAM"
                   THEN [o \in Offset |-> flash[Base(PageSize, address') + o]]
                   ELSE pageBuffer
  /\ rxCnt' = 4 /\ state' = "RUNNING"
  /\ UNCHANGED command /\ BusOnly

UidByte ==
  /\ Loading /\ command = "RD_UID" /\ rxCnt = 4
  /\ address' = UidSize
  /\ rxCnt' = 5 /\ state' = "RUNNING"
  /\ UNCHANGED <<command, pageBuffer>> /\ BusOnly

\* OnSPIIn while RUNNING: READ and ID count up and wrap, UID counts down.
Running == power = "on" /\ csel /\ state = "RUNNING"

ReadByte ==
  /\ Running
  /\ address' = CASE command \in {"RD_DATA", "MFRID_DEVID"} -> (address + 1) % TotalSize
                  [] command = "RD_UID" /\ address > 0      -> address - 1
                  [] OTHER                                  -> address
  /\ command # "PAGE_PROGRAM"
  /\ UNCHANGED <<state, command, rxCnt, pageBuffer>> /\ BusOnly

\* PAGE_PROGRAM wraps within its page.
ProgramByte(b) ==
  /\ Running /\ command = "PAGE_PROGRAM"
  /\ pageBuffer' = [pageBuffer EXCEPT ![address % PageSize] = b]
  /\ address' = Base(PageSize, address) + ((address + 1) % PageSize)
  /\ sent' = [x \in DOMAIN sent \cup {address} |-> IF x = address THEN b ELSE sent[x]]
  /\ UNCHANGED <<power, csel, state, command, rxCnt, wel, flash, file,
                 rewritten, kept, fresh, counters>>

-----------------------------------------------------------------------------
\* OnCSELIn, the rising edge: a complete command takes effect.
EraseSize == [SECTOR_ERASE |-> SectorSize, BLOCK32_ERASE |-> Block32Size,
              BLOCK64_ERASE |-> Block64Size, CHIP_ERASE |-> TotalSize]
Writes == {"PAGE_PROGRAM"} \cup DOMAIN EraseSize
Complete(commands) == state = "RUNNING" /\ command \in commands

Programmed ==
  [x \in Addr |-> IF x \div PageSize = address \div PageSize
                  THEN flash[x] \cap pageBuffer[x % PageSize] ELSE flash[x]]
Erased(size) ==
  [x \in Addr |-> IF x \div size = address \div size THEN Bits ELSE flash[x]]

\* Each way a transaction ends leaves the chip idle.
Deselect ==
  /\ power = "on" /\ csel
  /\ csel' = FALSE /\ state' = "IDLE"
  /\ sent' = Nothing /\ rewritten' = FALSE
  /\ UNCHANGED <<power, command, rxCnt, pageBuffer, file, kept, counters>>

EndProgram ==
  /\ Deselect /\ Complete({"PAGE_PROGRAM"}) /\ wel
  /\ address' = Base(PageSize, address)
  /\ flash' = Programmed /\ wel' = FALSE
  /\ fresh' = FALSE

MutEndErase ==
  /\ Deselect /\ Complete(DOMAIN EraseSize)
  /\ address' = Base(EraseSize[command], address)
  /\ flash' = Erased(EraseSize[command]) /\ wel' = FALSE
  /\ fresh' = FALSE

\* The chip erase keeps m_address, which is 0.
EndErase ==
  /\ Deselect /\ Complete(DOMAIN EraseSize) /\ wel
  /\ address' = Base(EraseSize[command], address)
  /\ flash' = Erased(EraseSize[command]) /\ wel' = FALSE
  /\ fresh' = FALSE

EndLatch ==
  /\ Deselect /\ Complete({"ENABLE_WR", "DISABLE_WR"})
  /\ wel' = (command = "ENABLE_WR")
  /\ UNCHANGED <<address, flash, fresh>>

\* A read, an incomplete command, or a write that was not enabled.
EndOther ==
  /\ Deselect
  /\ ~Complete({"ENABLE_WR", "DISABLE_WR"}) /\ ~(Complete(Writes) /\ wel)
  /\ UNCHANGED <<address, wel, flash, fresh>>

-----------------------------------------------------------------------------
\* The script actions, between any two instructions of the firmware.
Script ==
  /\ power = "on" /\ scripts < MaxScripts
  /\ scripts' = scripts + 1
  /\ UNCHANGED <<busVars, wel, sent, selects, boots>>

\* Clear fills with 0xFF.
ScriptFill(b) ==
  /\ Script
  /\ flash' = [a \in Addr |-> b]
  /\ rewritten' = TRUE /\ fresh' = FALSE
  /\ UNCHANGED <<power, pageBuffer, file, kept>>

\* What Load() makes of a file of only zeros.
Filled(data) == IF \A a \in Addr : data[a] = {} THEN [a \in Addr |-> Bits] ELSE data

(***************************************************************************)
(* Load() reads TotalSize + 1 bytes into m_flash, the last one into what   *)
(* follows it: m_pageBuffer[0].  A shorter file is not restored; one of    *)
(* exactly TotalSize bytes passes the test of its length, but not the one  *)
(* after read(), and ends the program.                                     *)
(***************************************************************************)
Load(oldFlash, oldBuffer, next) ==
  \/ /\ file.len < TotalSize
     /\ flash' = oldFlash /\ pageBuffer' = oldBuffer /\ power' = next
  \/ /\ file.len = TotalSize
     /\ flash' = file.data /\ pageBuffer' = oldBuffer /\ power' = "exited"
  \/ /\ file.len > TotalSize
     /\ flash' = Filled(file.data)
     /\ pageBuffer' = [oldBuffer EXCEPT ![0] = file.extra]
     /\ power' = next

ScriptLoad ==
  /\ Script
  /\ Load(flash, pageBuffer, "on")
  /\ rewritten' = (rewritten \/ file.len >= TotalSize)
  /\ fresh' = (fresh \/ file.len > TotalSize)
  /\ UNCHANGED <<file, kept>>

MutSave ==
  /\ file' = [len |-> TotalSize, data |-> flash, extra |-> pageBuffer[0]]
  /\ kept' = [ok |-> TRUE, data |-> flash]

\* Save() writes that byte back.
Save ==
  /\ file' = [len |-> TotalSize + 1, data |-> flash, extra |-> pageBuffer[0]]
  /\ kept' = [ok |-> TRUE, data |-> flash]

ScriptSave ==
  /\ Script
  /\ Save
  /\ UNCHANGED <<power, flash, pageBuffer, rewritten, fresh>>

-----------------------------------------------------------------------------
\* OnAVRDeinit saves; a program that is killed does not, or not to the end.
PowerOff ==
  /\ power = "on" /\ power' = "off"
  /\ Save
  /\ UNCHANGED <<busVars, wel, flash, pageBuffer, sent, rewritten, fresh, counters>>

Kill ==
  /\ power = "on" /\ power' = "off"
  /\ \/ UNCHANGED <<file, kept>>
     \/ \E n \in CutLengths :
          /\ file' = [len |-> n, data |-> flash, extra |-> {}]
          /\ kept' = [kept EXCEPT !.ok = FALSE]
  /\ UNCHANGED <<busVars, wel, flash, pageBuffer, sent, rewritten, fresh, counters>>

\* The second chunk of a .hex file is copied into the flash, cut at its end.
WithChunk(data, c) ==
  [a \in Addr |-> IF a >= c.at /\ a < c.at + c.size THEN c.data ELSE data[a]]

NewChip ==
  /\ csel' = FALSE /\ state' = "IDLE" /\ command' = NoCommand /\ rxCnt' = 0
  /\ address' = 0 /\ wel' = FALSE
  /\ sent' = Nothing /\ rewritten' = FALSE

\* A new process: OnAVRInit loads the file.
Start ==
  /\ power = "off" /\ boots < MaxBoots
  /\ boots' = boots + 1
  /\ NewChip
  /\ Load(FactoryFlash, FactoryBuffer, "boot")
  /\ fresh' = (file.len > TotalSize)
  /\ UNCHANGED <<file, kept, selects, scripts>>

\* LoadFirmware, before the firmware runs.
HexChunk(c) ==
  /\ power = "boot" /\ power' = "on"
  /\ flash' = WithChunk(flash, c)
  /\ fresh' = FALSE
  /\ UNCHANGED <<busVars, wel, pageBuffer, file, sent, rewritten, kept, counters>>

NoChunk ==
  /\ power = "boot" /\ power' = "on"
  /\ UNCHANGED <<busVars, wel, flash, pageBuffer, file, history, counters>>

-----------------------------------------------------------------------------
Bus == Select \/ NextByte \/ UidByte \/ ReadByte
         \/ EndProgram \/ EndErase \/ EndLatch \/ EndOther
Next ==
  \/ Bus
  \/ \E c \in Commands : FirstByte(c)
  \/ \E raw \in RawAddresses : AddressByte(raw)
  \/ \E b \in SentBytes : ProgramByte(b)
  \/ ScriptLoad \/ ScriptSave \/ \E b \in FillBytes \cup {Bits} : ScriptFill(b)
  \/ PowerOff \/ Kill \/ Start \/ NoChunk \/ \E c \in Chunks : HexChunk(c)

Spec == Init /\ [][Next]_vars

-----------------------------------------------------------------------------
\* Every variable has its type: no address leaves the chip.
TypeOK ==
  /\ power \in {"off", "boot", "on", "exited"}
  /\ csel \in BOOLEAN /\ state \in {"IDLE", "LOADING", "RUNNING"}
  /\ csel <=> state # "IDLE"
  /\ command \in Commands \cup {NoCommand} /\ rxCnt \in 0..CmdInSize
  /\ IF command = "RD_UID" THEN address \in 0..UidSize ELSE address \in Addr
  /\ wel \in BOOLEAN
  /\ flash \in [Addr -> Byte] /\ pageBuffer \in [Offset -> Byte]
  /\ file \in [len : 0..TotalSize + 1, data : [Addr -> Byte], extra : Byte]
  /\ DOMAIN sent \subseteq Addr /\ \A x \in DOMAIN sent : sent[x] \in Byte
  /\ rewritten \in BOOLEAN /\ fresh \in BOOLEAN
  /\ kept \in [ok : BOOLEAN, data : [Addr -> Byte]]
  /\ selects \in Nat /\ scripts \in Nat /\ boots \in Nat

\* The chip keeps the promises of NorFlash, at the edge that ends a transaction
\* and nowhere else (w25x20cl.cpp:82-296), whatever a script does meanwhile.
Nor == INSTANCE NorFlash WITH
  on         <- power = "on",
  contents   <- flash,
  latch      <- wel,
  replaced   <- rewritten,
  EraseSizes <- {SectorSize, Block32Size, Block64Size, TotalSize}
NorImplemented == Nor!Spec

\* What the last complete Save wrote is what the next Load brings back, but for
\* a flash of only zeros, which comes back erased; and only a Save that was cut
\* short can make the program exit (w25x20cl.cpp:368-419).
RoundTrip ==
  /\ power \in {"boot", "on"} /\ fresh => kept.ok /\ flash = Filled(kept.data)
  /\ power = "exited" => ~kept.ok
=============================================================================
