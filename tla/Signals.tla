------------------------------ MODULE Signals -------------------------------
(***************************************************************************)
(* Three parts that spread signals: the port expander of the CW1S          *)
(* (parts/components/MCP23S17.cpp), the shift register of the MMU2         *)
(* (parts/components/HC595.cpp) and the multiplexer in front of the four   *)
(* extruders of a first MMU (parts/components/MMU1.cpp). They share        *)
(* nothing; each has its own variables and next-state relation.            *)
(*                                                                         *)
(* A byte is the set of its bits that are 1. Only bits 5 and 7 are told    *)
(* apart: they are the two that the expander itself obeys in IOCON, and as *)
(* good as any other two as pins. The registers of the expander that have  *)
(* no effect but to be read back are left out.                             *)
(***************************************************************************)
EXTENDS Integers

CONSTANTS
  ExpAddresses,   \* the register addresses the firmware sends
  ExpMaxBytes,    \* bound: the bytes it sends
  ExpMaxEvents,   \* bound: the changes of input pins
  ShiftWidth      \* the bits of the shift register: 32

ASSUME SignalsAssumption ==
  /\ ExpAddresses \subseteq 0..255 /\ ExpMaxBytes \in Nat /\ ExpMaxEvents \in Nat
  /\ ShiftWidth \in Nat \ {0}

-----------------------------------------------------------------------------
(* The expander *)
Bits == {5, 7}
SEQOP == 5
BANK == 7
Bytes == SUBSET Bits
Banks == {0, 1}

VARIABLES
  expState,       \* m_state, and "dead" once an index outside the registers has ended the process
  expSelected,    \* the chip select is low
  expRead,        \* m_hdr.READ
  expAddr,        \* m_addr
  expIODIR, expGPIO, expOLAT,   \* the registers of each bank
  expIOCON,       \* IOCON, the same in both banks
  expPin,         \* history: what the expander last raised on its pins, 1s as a set
  expBytes, expEvents   \* bounds

expVars == <<expState, expSelected, expRead, expAddr, expIODIR, expGPIO, expOLAT, expIOCON,
             expPin, expBytes, expEvents>>
expRegs == <<expIODIR, expGPIO, expOLAT, expIOCON, expPin>>

ExpInit ==
  /\ expState = "IDLE" /\ expSelected = FALSE /\ expRead = FALSE /\ expAddr = 0
  /\ expIODIR = [b \in Banks |-> Bits] /\ expGPIO = [b \in Banks |-> {}]
  /\ expOLAT = [b \in Banks |-> {}] /\ expIOCON = {}
  /\ expPin = [b \in Banks |-> {}]
  /\ expBytes = 0 /\ expEvents = 0

\* The address among the registers of BANK = 1, which is how they are kept: with BANK = 0 the
\* banks alternate, and the lowest bit becomes bit 4.
ToBank1Addr(a) ==
  IF BANK \in expIOCON THEN a
  ELSE LET half == a \div 2
       IN IF a % 2 = 1 /\ (half \div 16) % 2 = 0 THEN half + 16 ELSE half

\* OnODRChanged: each changed bit of the latch that is an output is raised.
ExpODRChanged(b, value) ==
  expPin' = [expPin EXCEPT ![b] = (@ \cap expIODIR[b]) \cup
                                  {i \in Bits \ expIODIR[b] :
                                     IF i \in expOLAT[b] <=> i \in value THEN i \in @ ELSE i \in value}]
\* The latch keeps its bits for the pins that are inputs.
MutExpLatch(b, value) ==
  /\ ExpODRChanged(b, value)
  /\ expOLAT' = [expOLAT EXCEPT ![b] = value]
ExpLatch(b, value) ==
  /\ ExpODRChanged(b, value)
  /\ expOLAT' = [expOLAT EXCEPT ![b] = (value \ expIODIR[b]) \cup (@ \cap expIODIR[b])]

\* OnWrite; the bank is taken from the address, the register from its low four bits.
BankOf(a) == IF a >= 11 THEN 1 ELSE 0
ExpWrite(a, value) ==
  LET register == a % 16 IN
  CASE register \in {9, 10} ->
         ExpLatch(BankOf(a), value) /\ UNCHANGED <<expState, expIODIR, expGPIO, expIOCON>>
    [] register = 5 ->
         expIOCON' = value /\ UNCHANGED <<expState, expIODIR, expGPIO, expOLAT, expPin>>
    [] OTHER ->
         /\ expState' = IF a < 32 THEN "DATA" ELSE "dead"
         /\ expIODIR' = IF a \in {0, 16} THEN [expIODIR EXCEPT ![BankOf(a)] = value] ELSE expIODIR
         /\ UNCHANGED <<expGPIO, expOLAT, expIOCON, expPin>>

\* OnSPIIn, by the state, less the answer to a read, which is the register; IOCON is tested after the write that may have changed it.
ExpNextAddr == IF SEQOP \in expIOCON' THEN expAddr ELSE (expAddr + 1) % 256
ExpSPIIn ==
  /\ expSelected /\ expState # "dead" /\ expBytes < ExpMaxBytes /\ expBytes' = expBytes + 1
  /\ \/ /\ expState = "IDLE" /\ expState' = "ADDR"
        /\ expRead' \in BOOLEAN
        /\ UNCHANGED <<expAddr, expRegs>>
     \/ /\ expState = "ADDR" /\ expState' = "DATA"
        /\ expAddr' \in ExpAddresses
        /\ UNCHANGED <<expRead, expRegs>>
     \/ /\ expState = "DATA" /\ expRead
        /\ expState' = IF ToBank1Addr(expAddr) < 32 THEN "DATA" ELSE "dead"
        /\ UNCHANGED <<expRead, expRegs>> /\ expAddr' = ExpNextAddr
     \/ /\ expState = "DATA" /\ ~expRead
        /\ \E value \in Bytes : ExpWrite(ToBank1Addr(expAddr), value)
        /\ expAddr' = ExpNextAddr
        /\ expState' \in {"DATA", "dead"}
        /\ UNCHANGED expRead
  /\ UNCHANGED <<expSelected, expEvents>>

\* SPIPeripheral::_OnCSELIn and OnCSELIn
ExpCSELIn(value) ==
  /\ expState # "dead"
  /\ expSelected' = ~value
  /\ expState' = IF value THEN "IDLE" ELSE expState
  /\ UNCHANGED <<expRead, expAddr, expRegs, expBytes, expEvents>>

\* OnPinChanged, when another part raises a pin; the expander's own raises are guarded.
ExpPinChanged(b, i, value) ==
  /\ expState # "dead" /\ expEvents < ExpMaxEvents /\ expEvents' = expEvents + 1
  /\ expGPIO' = IF i \notin expIODIR[b] THEN expGPIO
                ELSE [expGPIO EXCEPT ![b] = IF value THEN @ \cup {i} ELSE @ \ {i}]
  /\ UNCHANGED <<expState, expSelected, expRead, expAddr, expIODIR, expOLAT, expIOCON,
                 expPin, expBytes>>

ExpNext ==
  \/ ExpSPIIn
  \/ \E value \in BOOLEAN : ExpCSELIn(value)
  \/ \E b \in Banks, i \in Bits, value \in BOOLEAN : ExpPinChanged(b, i, value)

ExpSpec == ExpInit /\ [][ExpNext]_expVars

-----------------------------------------------------------------------------
(* The shift register *)
ShiftBits == 0..(ShiftWidth - 1)
ShiftZero == [i \in ShiftBits |-> 0]

VARIABLES
  shData, shClock, shLatchPin, shReset,  \* the levels of its four inputs
  shCurBit,       \* m_uiCurBit
  shValue,        \* m_uiValue
  shLatch,        \* m_uiLatch
  shOut           \* history: what was last raised on each of the bit outputs

shVars == <<shData, shClock, shLatchPin, shReset, shCurBit, shValue, shLatch, shOut>>

ShInit ==
  /\ shData = 0 /\ shClock = 0 /\ shLatchPin = 0 /\ shReset = 0 /\ shCurBit = 0
  /\ shValue = ShiftZero /\ shLatch = ShiftZero /\ shOut = ShiftZero

\* OnDataIn
ShDataIn(value) ==
  /\ shData' = value /\ shCurBit' = value
  /\ UNCHANGED <<shClock, shLatchPin, shReset, shValue, shLatch, shOut>>
\* OnClockIn: the bit moves in when the clock falls.
ShClockIn(value) ==
  /\ shClock' = value
  /\ shValue' = IF shClock = 1 /\ value = 0
                THEN [i \in ShiftBits |-> IF i = 0 THEN shCurBit ELSE shValue[i - 1]]
                ELSE shValue
  /\ UNCHANGED <<shData, shLatchPin, shReset, shCurBit, shLatch, shOut>>
\* OnLatchIn: when the latch rises, the bits that differ are raised.
ShLatchIn(value) ==
  /\ shLatchPin' = value
  /\ IF shLatchPin = 0 /\ value = 1
     THEN /\ shLatch' = shValue
          /\ shOut' = [i \in ShiftBits |-> IF shLatch[i] # shValue[i] THEN shValue[i] ELSE shOut[i]]
     ELSE UNCHANGED <<shLatch, shOut>>
  /\ UNCHANGED <<shData, shClock, shReset, shCurBit, shValue>>
\* OnResetIn: when the reset falls, all are raised.
ShResetIn(value) ==
  /\ shReset' = value
  /\ IF shReset = 1 /\ value = 0
     THEN shValue' = ShiftZero /\ shLatch' = ShiftZero /\ shOut' = ShiftZero
     ELSE UNCHANGED <<shValue, shLatch, shOut>>
  /\ UNCHANGED <<shData, shClock, shLatchPin, shCurBit>>

ShNext == \E value \in {0, 1} :
            ShDataIn(value) \/ ShClockIn(value) \/ ShLatchIn(value) \/ ShResetIn(value)

ShSpec == ShInit /\ [][ShNext]_shVars

-----------------------------------------------------------------------------
(* The multiplexer *)
VARIABLES
  muxPin,         \* the levels of MUX0 and MUX1
  muxTool,        \* m_uiTool, which is also what was last raised on TOOL_OUT
  muxStepIn,      \* the level of STEP_IN
  muxStep         \* the levels of the step outputs, which drop a raise that changes nothing

muxVars == <<muxPin, muxTool, muxStepIn, muxStep>>

MuxInit ==
  /\ muxPin = [p \in {0, 1} |-> 0] /\ muxTool = 0
  /\ muxStepIn = 0 /\ muxStep = [t \in 0..3 |-> 0]

\* OnMuxIn: the pin that changes still has its old level, so its value is taken from the call.
MuxIn(p, value) ==
  /\ muxPin' = [muxPin EXCEPT ![p] = value]
  /\ muxTool' = IF p = 0 THEN 2 * muxPin[1] + value ELSE 2 * value + muxPin[0]
  /\ UNCHANGED <<muxStepIn, muxStep>>
\* OnStepIn
MuxStepIn(value) ==
  /\ muxStepIn' = value
  /\ muxStep' = [muxStep EXCEPT ![muxTool] = value]
  /\ UNCHANGED <<muxPin, muxTool>>

MuxNext ==
  \E value \in {0, 1} : MuxStepIn(value) \/ \E p \in {0, 1} : MuxIn(p, value)

MuxSpec == MuxInit /\ [][MuxNext]_muxVars

-----------------------------------------------------------------------------
\* The state is well formed.
SignalsTypeOK ==
  /\ expState \in {"IDLE", "ADDR", "DATA", "dead"} /\ {expSelected, expRead} \subseteq BOOLEAN
  /\ expAddr \in 0..255 /\ expIOCON \in Bytes
  /\ {expIODIR, expGPIO, expOLAT, expPin} \subseteq [Banks -> Bytes]
  /\ {shData, shClock, shLatchPin, shReset, shCurBit} \subseteq {0, 1}
  /\ {shValue, shLatch, shOut} \subseteq [ShiftBits -> {0, 1}]
  /\ muxPin \in [{0, 1} -> {0, 1}] /\ muxTool \in 0..3
  /\ muxStepIn \in {0, 1} /\ muxStep \in [0..3 -> {0, 1}]

\* What the expander last raised on each of its pins is that pin's bit of the latch, whatever
\* the order in which the firmware writes latch and direction and in either addressing mode: a
\* part wired to a pin is never left at a level that the registers do not show.
ExpPinsShowLatch == expPin = expOLAT

\* The outputs of the shift register are those of its latch, though only the bits that differ
\* from it are raised; and the tool of the multiplexer is the one its two pins name.
ShiftShowsLatch == shOut = shLatch
MuxShowsTool == muxTool = 2 * muxPin[1] + muxPin[0]

\* Nothing that hangs on one of the three sees a level other than the one the part holds.
SignalsHonest == ExpPinsShowLatch /\ ShiftShowsLatch /\ MuxShowsTool
=============================================================================
