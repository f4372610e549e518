------------------------------ MODULE Tmc2130 ------------------------------
(***************************************************************************)
(* The stepper driver of the Einsy and of the MMU                          *)
(* (parts/components/TMC2130.cpp) with its base parts/SPIPeripheral.cpp:   *)
(* the motor steps, stalls and comes to a standstill while the firmware is *)
(* in the middle of a transaction on the SPI bus, whose answer is only     *)
(* sent in the next one.  All of it runs in the AVR thread.                *)
(*                                                                         *)
(* A command or answer is a record, and the bytes that make it up are      *)
(* numbered 1..5.  Of a register only the bits the code looks at are kept  *)
(* (TmcBit); SG_RESULT is 0 or 250 with stallGuard.  The firmware sends    *)
(* five bytes per transaction and writes no register that is read-only on  *)
(* the real chip.  Telemetry and drawing are left out.                     *)
(*                                                                         *)
(* A reset of the AVR may come at any moment.  It drops the timer of the   *)
(* driver and leaves everything else; a transaction it cuts is not         *)
(* continued, and the chip select stays low until the board's OnAVRReset   *)
(* or the start of the firmware raises it.                                 *)
(***************************************************************************)
EXTENDS Integers, Sequences

CONSTANTS
  TmcWrites,             \* pairs of a register and what the firmware writes to it
  TmcReads,              \* registers the firmware reads
  TmcMixes,              \* what the end of one command and the beginning of the next may be
  TmcMaxPos, TmcStart,   \* m_iMaxPos, and where SetConfig puts the motor
  TmcMaxCommands, TmcMaxScripts  \* bounds

TmcRegisters == {"GCONF", "GSTAT", "CHOPCONF", "DRV_STATUS", "IHOLD_IRUN"}
TmcNumber == 0..3

TmcCommand ==
  [rw : {"write"}, reg : {w[1] : w \in TmcWrites}, data : TmcNumber]
    \cup [rw : {"read"}, reg : TmcReads, data : {0}]

ASSUME Tmc2130Assumption ==
  /\ TmcWrites \subseteq ({"GCONF", "CHOPCONF", "IHOLD_IRUN"} \X TmcNumber)
  /\ TmcReads \subseteq TmcRegisters /\ TmcMixes \subseteq TmcCommand
  /\ TmcMaxPos \in Nat /\ TmcStart \in 0..TmcMaxPos
  /\ TmcMaxCommands \in Nat /\ TmcMaxScripts \in Nat

VARIABLES
  tmcRegs,               \* m_regs
  tmcIn, tmcOut,         \* m_cmdIn, m_cmdOut: the last five bytes in, the next five out
  tmcSelected,           \* ~m_bCSel of the base
  tmcEnable, tmcDir,     \* m_bEnable, m_bDir
  tmcPin,                \* the value of the pin STEP before its next change
  tmcIncrement,          \* m_uiStepIncrement
  tmcPos,                \* m_iCurStep
  tmcStall,              \* m_bStall
  tmcFree,               \* cfg.bHasNoEndStops
  tmcTimer,              \* m_fcnStandstill is registered
  tmcStuck,              \* history: a reset dropped it; no step or end of power to the motor since
  tmcDiag,               \* the pin DIAG_OUT
  tmcBoot,               \* the AVR was reset, and its chip select not raised or used since
  tmcSend, tmcReceived,  \* the firmware: the command, and the bytes that came back so far
  tmcDue,                \* history: the answer to the last command, as it was when it ended
  tmcForced,             \* history: a script set the pin DIAG_OUT since the chip did
  tmcCommands, tmcScripts  \* counters for the bounds (a reset counts as a script)

tmcChip == <<tmcRegs, tmcDiag, tmcForced>>
tmcMotor == <<tmcEnable, tmcDir, tmcPin, tmcPos, tmcStall, tmcFree, tmcTimer, tmcStuck>>
tmcBus == <<tmcIn, tmcOut, tmcSelected, tmcBoot, tmcSend, tmcReceived, tmcDue, tmcCommands>>
tmcVars == <<tmcChip, tmcMotor, tmcBus, tmcIncrement, tmcScripts>>

\* Bits: GCONF 0 is diag0_stall or diag1_stall, 1 is diag0_int_pushpull; CHOPCONF 0 is
\* dedge, 1 is mres; DRV_STATUS 0 is stallGuard, 1 is stst; GSTAT 0 is reset.
TmcBit(regs, r, i) == (regs[r] \div (IF i = 0 THEN 1 ELSE 2)) % 2
TmcStalled(regs) == TmcBit(regs, "DRV_STATUS", 0)
TmcStill(regs) == TmcBit(regs, "DRV_STATUS", 1)
TmcSetStatus(regs, sg, stst) == [regs EXCEPT !["DRV_STATUS"] = sg + 2 * stst]

\* Five bytes of 0 read register 0.
TmcNoCommand == [rw |-> "read", reg |-> "GCONF", data |-> 0]
TmcAnswer == [data : TmcNumber, reset : 0..1, sg2 : 0..1, standstill : 0..1]
TmcNoAnswer == [data |-> 0, reset |-> 0, sg2 |-> 0, standstill |-> 0]

TmcBytes(x) == [k \in 1..5 |-> <<x, k>>]
TmcParse(bytes) == bytes[1][1]
\* What the chip takes the bytes for: the end of one command and the beginning of the next
\* make another one (that writes no register the firmware does not write).
TmcHeard(bytes) == IF bytes = TmcBytes(TmcParse(bytes)) THEN {TmcParse(bytes)}
                                                        ELSE TmcMixes

\* The constructor, SetConfig and Init.
TmcInit ==
  /\ tmcRegs = [r \in TmcRegisters |-> CASE r = "GSTAT" -> 1 [] r = "DRV_STATUS" -> 2 [] OTHER -> 0]
  /\ tmcIn = TmcBytes(TmcNoCommand) /\ tmcOut = TmcBytes(TmcNoAnswer) /\ tmcSelected = FALSE
  /\ tmcEnable = TRUE /\ tmcDir = FALSE /\ tmcPin = 0 /\ tmcIncrement = 1 /\ tmcPos = TmcStart
  /\ tmcStall = FALSE /\ tmcFree \in BOOLEAN /\ tmcTimer = FALSE /\ tmcStuck = FALSE
  /\ tmcDiag = 0 /\ tmcBoot = TRUE
  /\ tmcSend = TmcNoCommand /\ tmcReceived = <<>> /\ tmcDue = TmcNoAnswer
  /\ tmcForced = FALSE /\ tmcCommands = 0 /\ tmcScripts = 0

-----------------------------------------------------------------------------
(***************************************************************************)
(* The registers and the pin DIAG_OUT.  (A definition named Mut... is the  *)
(* one after it with a plausible mistake in it.)                           *)
(***************************************************************************)
\* RaiseDiag: the pin follows the stall only where GCONF connects it.
TmcRaiseDiag(regs, value) ==
  IF TmcBit(regs, "GCONF", 0) = 1
  THEN /\ tmcDiag' = IF value = TmcBit(regs, "GCONF", 1) THEN 1 ELSE 0
       /\ tmcForced' = FALSE
  ELSE UNCHANGED <<tmcDiag, tmcForced>>

\* SetDiag or ClearDiag, and the standstill bit.
TmcStatus(sg, stst) ==
  /\ tmcRegs' = TmcSetStatus(tmcRegs, sg, stst)
  /\ IF sg # TmcStalled(tmcRegs) THEN TmcRaiseDiag(tmcRegs', sg)
                                 ELSE UNCHANGED <<tmcDiag, tmcForced>>

\* CreateReply: a read of GSTAT clears it before the status bits are taken.
TmcReply(regs, c) ==
  [data |-> IF c.rw = "read" THEN regs[c.reg] ELSE c.data,
   reset |-> IF c.rw = "read" /\ c.reg = "GSTAT" THEN 0 ELSE regs["GSTAT"],
   sg2 |-> TmcStalled(regs), standstill |-> TmcStill(regs)]

MutTmcProcess(c) ==
  LET written == [tmcRegs EXCEPT ![c.reg] = c.data] IN
  /\ tmcRegs' = CASE c.rw = "write" -> written
                  [] c.rw = "read" /\ c.reg = "GSTAT" -> [tmcRegs EXCEPT !["GSTAT"] = 0]
                  [] OTHER -> tmcRegs
  /\ UNCHANGED <<tmcDiag, tmcForced>>
  /\ tmcIncrement' = IF c.rw = "write" /\ c.reg = "CHOPCONF"
                     THEN 1 + TmcBit(written, "CHOPCONF", 1) ELSE tmcIncrement
  /\ tmcOut' = TmcBytes(TmcReply(IF c.rw = "write" THEN written ELSE tmcRegs, c))

\* ProcessCommand, CreateReply.
TmcProcess(c) ==
  LET written == [tmcRegs EXCEPT ![c.reg] = c.data] IN
  /\ tmcRegs' = CASE c.rw = "write" -> written
                  [] c.rw = "read" /\ c.reg = "GSTAT" -> [tmcRegs EXCEPT !["GSTAT"] = 0]
                  [] OTHER -> tmcRegs
  /\ IF c.rw = "write" /\ c.reg = "GCONF" THEN TmcRaiseDiag(written, TmcStalled(written))
                                          ELSE UNCHANGED <<tmcDiag, tmcForced>>
  /\ tmcIncrement' = IF c.rw = "write" /\ c.reg = "CHOPCONF"
                     THEN 1 + TmcBit(written, "CHOPCONF", 1) ELSE tmcIncrement
  /\ tmcOut' = TmcBytes(TmcReply(IF c.rw = "write" THEN written ELSE tmcRegs, c))

-----------------------------------------------------------------------------
(***************************************************************************)
(* The bus.                                                                *)
(***************************************************************************)
\* The firmware pulls the chip select low and begins a transaction.
TmcSelect ==
  /\ ~tmcSelected /\ tmcCommands < TmcMaxCommands
  /\ tmcSend' \in {c \in TmcCommand : c.rw = "write" => <<c.reg, c.data>> \in TmcWrites}
  /\ tmcSelected' = TRUE /\ tmcBoot' = FALSE /\ tmcReceived' = <<>>
  /\ tmcCommands' = tmcCommands + 1
  /\ UNCHANGED <<tmcChip, tmcMotor, tmcIn, tmcOut, tmcDue, tmcIncrement, tmcScripts>>

MutTmcShiftOut(out) == <<Tail(out)[1], Tail(Append(out, <<TmcNoAnswer, 1>>))>>
\* The byte that goes out is the highest, before the register is shifted.
TmcShiftOut(out) == <<out[1], Append(Tail(out), <<TmcNoAnswer, 1>>)>>

\* _OnSPIIn with OnSPIIn
TmcByte ==
  /\ tmcSelected /\ ~tmcBoot /\ Len(tmcReceived) < 5
  /\ tmcIn' = Append(Tail(tmcIn), <<tmcSend, Len(tmcReceived) + 1>>)
  /\ tmcReceived' = Append(tmcReceived, TmcShiftOut(tmcOut)[1])
  /\ tmcOut' = TmcShiftOut(tmcOut)[2]
  /\ UNCHANGED <<tmcChip, tmcMotor, tmcSelected, tmcBoot, tmcSend, tmcDue, tmcCommands,
                 tmcIncrement, tmcScripts>>

\* _OnCSELIn(1) with OnCSELIn
TmcDeselect ==
  /\ tmcSelected /\ ~tmcBoot /\ Len(tmcReceived) = 5
  /\ TmcProcess(TmcParse(tmcIn))
  /\ tmcSelected' = FALSE
  /\ tmcDue' = TmcReply(IF tmcSend.rw = "write" THEN tmcRegs' ELSE tmcRegs, tmcSend)
  /\ UNCHANGED <<tmcMotor, tmcIn, tmcBoot, tmcSend, tmcReceived, tmcCommands, tmcScripts>>

\* avr_reset, at power on or by a button, a script or the watchdog.
TmcAvrReset ==
  /\ tmcScripts < TmcMaxScripts /\ tmcScripts' = tmcScripts + 1
  /\ tmcTimer' = FALSE /\ tmcStuck' = (tmcStuck \/ tmcTimer)
  /\ tmcBoot' = TRUE /\ tmcSend' = TmcNoCommand /\ tmcReceived' = <<>>
  /\ UNCHANGED <<tmcChip, tmcIncrement, tmcEnable, tmcDir, tmcPin, tmcPos, tmcStall, tmcFree,
                 tmcIn, tmcOut, tmcSelected, tmcDue, tmcCommands>>

\* OnAVRReset of the Einsy, SetPin(X_TMC2130_CS,1) (or the firmware when it starts): the chip
\* takes what it has for a command.
TmcRaiseCS ==
  /\ tmcBoot
  /\ \E c \in TmcHeard(tmcIn) :
       /\ TmcProcess(c)
       /\ tmcDue' = TmcReply(IF c.rw = "write" THEN tmcRegs' ELSE tmcRegs, c)
  /\ tmcSelected' = FALSE /\ tmcBoot' = FALSE
  /\ UNCHANGED <<tmcMotor, tmcIn, tmcSend, tmcReceived, tmcCommands, tmcScripts>>

-----------------------------------------------------------------------------
(***************************************************************************)
(* The motor.                                                              *)
(***************************************************************************)
TmcDirIn ==
  /\ tmcDir' = ~tmcDir
  /\ UNCHANGED <<tmcChip, tmcBus, tmcIncrement, tmcScripts, tmcEnable, tmcPin, tmcPos, tmcStall,
                 tmcFree, tmcTimer, tmcStuck>>

TmcTarget == IF tmcDir THEN tmcPos - tmcIncrement ELSE tmcPos + tmcIncrement
MutTmcHits == ~tmcFree /\ TmcTarget \notin 0..TmcMaxPos + 1
TmcHits == ~tmcFree /\ TmcTarget \notin 0..TmcMaxPos
\* A step counts on each change with dedge, else on a rise.
TmcCounts(pin) == tmcEnable /\ (TmcBit(tmcRegs, "CHOPCONF", 0) = 1 \/ pin = 1)

\* OnStepIn.  A free motor is followed only near its ends, for the bound.
TmcStepIn ==
  /\ tmcPin' = 1 - tmcPin
  /\ IF TmcCounts(tmcPin')
     THEN /\ tmcPos' = IF TmcHits THEN IF TmcTarget < 0 THEN 0 ELSE TmcMaxPos ELSE TmcTarget
          /\ tmcPos' \in -1..TmcMaxPos + 1
          /\ TmcStatus(IF TmcHits \/ tmcStall THEN 1 ELSE 0, 0)
          /\ tmcTimer' = TRUE /\ tmcStuck' = FALSE
     ELSE UNCHANGED <<tmcPos, tmcChip, tmcTimer, tmcStuck>>
  /\ UNCHANGED <<tmcBus, tmcIncrement, tmcScripts, tmcEnable, tmcDir, tmcStall, tmcFree>>

\* OnStandStillTimeout
TmcTimeout ==
  /\ tmcTimer
  /\ TmcStatus(0, 1)
  /\ tmcTimer' = FALSE
  /\ UNCHANGED <<tmcBus, tmcIncrement, tmcScripts, tmcEnable, tmcDir, tmcPin, tmcPos, tmcStall,
                 tmcFree, tmcStuck>>

MutTmcEnableIn ==
  /\ tmcEnable' = ~tmcEnable
  /\ IF tmcEnable' THEN UNCHANGED tmcChip ELSE TmcStatus(0, 1)
  /\ UNCHANGED <<tmcBus, tmcIncrement, tmcScripts, tmcDir, tmcPin, tmcPos, tmcStall, tmcFree,
                 tmcTimer, tmcStuck>>
\* OnEnableIn
TmcEnableIn ==
  /\ tmcEnable' = ~tmcEnable
  /\ IF tmcEnable'
     THEN UNCHANGED <<tmcChip, tmcTimer, tmcStuck>>
     ELSE /\ tmcTimer' = FALSE /\ tmcStuck' = FALSE
          /\ TmcStatus(0, 1)
  /\ UNCHANGED <<tmcBus, tmcIncrement, tmcScripts, tmcDir, tmcPin, tmcPos, tmcStall, tmcFree>>

\* ProcessAction: ToggleStall, Stall and Reset.
TmcScript ==
  /\ tmcScripts < TmcMaxScripts /\ tmcScripts' = tmcScripts + 1
  /\ \/ /\ tmcStall' = ~tmcStall
        /\ UNCHANGED <<tmcDiag, tmcForced>>
     \/ /\ tmcDiag' \in 0..1
        /\ tmcForced' = TRUE
        /\ UNCHANGED tmcStall
  /\ UNCHANGED <<tmcBus, tmcRegs, tmcIncrement, tmcEnable, tmcDir, tmcPin, tmcPos, tmcFree, tmcTimer,
                 tmcStuck>>

TmcNext ==
  \/ TmcSelect \/ TmcByte \/ TmcDeselect
  \/ TmcDirIn \/ TmcStepIn \/ TmcTimeout \/ TmcEnableIn
  \/ TmcScript \/ TmcAvrReset \/ TmcRaiseCS

TmcSpec == TmcInit /\ [][TmcNext]_tmcVars

-----------------------------------------------------------------------------
\* Types; a motor with ends stays between them.
TmcTypeOK ==
  /\ tmcRegs \in [TmcRegisters -> TmcNumber]
  /\ tmcIn \in Seq((TmcCommand \cup {TmcNoCommand}) \X (1..5)) /\ Len(tmcIn) = 5
  /\ tmcOut \in Seq(TmcAnswer \X (1..5)) /\ Len(tmcOut) = 5
  /\ tmcSelected \in BOOLEAN /\ tmcEnable \in BOOLEAN /\ tmcDir \in BOOLEAN /\ tmcPin \in 0..1
  /\ tmcIncrement \in 1..2 /\ tmcPos \in IF tmcFree THEN Int ELSE 0..TmcMaxPos
  /\ tmcStall \in BOOLEAN /\ tmcFree \in BOOLEAN /\ tmcTimer \in BOOLEAN /\ tmcDiag \in 0..1
  /\ tmcStuck \in BOOLEAN /\ tmcBoot \in BOOLEAN
  /\ tmcSend \in TmcCommand \cup {TmcNoCommand}
  /\ tmcReceived \in Seq(TmcAnswer \X (1..5)) /\ tmcDue \in TmcAnswer
  /\ tmcForced \in BOOLEAN /\ tmcCommands \in Nat /\ tmcScripts \in Nat

\* The standstill timer and the status register agree however steps, the enable pin and the
\* end of the timer interleave: a motor that is not at a standstill is enabled and has the
\* timer running that will bring it there, and one at a standstill reports no stall and has
\* no timer that could end the next movement early.  The one exception is a reset of the AVR
\* in the middle of a movement: it drops the timer, and the driver goes on to report a
\* movement, and the stall of the last step, until the motor is moved again or disabled.
TmcStandstill ==
  /\ TmcStill(tmcRegs) = 0 => tmcEnable
  /\ TmcStill(tmcRegs) = 0 /\ ~tmcTimer <=> tmcStuck
  /\ tmcTimer \/ TmcStalled(tmcRegs) = 1 => TmcStill(tmcRegs) = 0

\* While GCONF connects the pin, DIAG_OUT shows the stall with the polarity GCONF has now,
\* unless a script set the pin by hand: neither a write that turns the pin on or its polarity
\* over, nor a stall that began or ended while it was not connected, leaves it stale.
TmcDiagHonest ==
  TmcBit(tmcRegs, "GCONF", 0) = 1 /\ ~tmcForced
    => (tmcDiag = 1 <=> TmcStalled(tmcRegs) = TmcBit(tmcRegs, "GCONF", 1))

\* The five bytes the firmware gets in one transaction are, in their order, the answer to the
\* last command the chip has taken, with the registers as they were then, whatever the motor
\* did since.  That is the command of the transaction before - or, after a reset of the AVR,
\* the one that the rise of the chip select made of the bytes that were in by then.
TmcAnswered ==
  \A k \in 1..Len(tmcReceived) :
     tmcSelected => tmcReceived[k] = <<tmcDue, k>>
=============================================================================
