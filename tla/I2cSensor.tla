----------------------------- MODULE I2cSensor -----------------------------
(***************************************************************************)
(* The laser filament sensor (parts/components/PAT9125.cpp) on its I2C bus *)
(* (parts/I2CPeripheral.cpp), which is either bit-banged, one change of a  *)
(* line at a time, or the TWI hardware of the AVR.  The firmware is the    *)
(* one of scripts/tests/test_PAT9125.c, which has the routines of the real *)
(* one; it writes no read-only register.  All of it runs in the AVR        *)
(* thread: filament may move, and scripts run, between any two changes of  *)
(* the lines.                                                              *)
(*                                                                         *)
(* Of the distances only the sign of the movement that was not read yet is *)
(* kept; of the registers, those a movement or a transaction changes.      *)
(***************************************************************************)
EXTENDS Integers, Sequences

CONSTANTS
  I2cOther,              \* the address of a device that is not there
  I2cReads, I2cWrites,   \* registers read; pairs of a register and a value written
  I2cMaxTransactions, I2cMaxEvents   \* bounds

I2cAddress == 117        \* m_uiDevAddr
I2cByte == 0..255
PatMStatus == 2
PatDYLow == 4
PatBank == 127
PatReadOnly == {PatMStatus, PatDYLow}
PatRegisters == {PatMStatus, PatDYLow, 14, PatBank, 130, 132, 142}   \* 14 is Res_Y

ASSUME I2cSensorAssumption ==
  /\ I2cOther \in 0..127 /\ I2cOther # I2cAddress
  /\ I2cReads \subseteq {PatMStatus, PatDYLow, 14, PatBank}
  /\ I2cWrites \subseteq ({14, PatBank} \X I2cByte)
  /\ I2cMaxTransactions \in Nat /\ I2cMaxEvents \in Nat

VARIABLES
  patRaw,                \* m_regs
  patState, patFilament, patLoading, patNudge,   \* m_state, m_bFilament, m_bLoading, m_uiNudgeCt
  patDelta,              \* the sign of m_fCurY - m_fYPos
  patUntold,             \* history: there was a movement that no answer for MStatus reported
  patLost,               \* history: its flag was cleared because the filament was out
  i2cLine, i2cState,     \* m_SCLState, m_state
  i2cCount, i2cShift,    \* m_uiBitCt, m_uiByte
  i2cReg, i2cFlag,       \* msgIn.writeRegAddr; msgIn.address is m_uiDevAddr, used as a flag
  i2cScl, i2cSda,        \* the two lines
  i2cNative,             \* the firmware uses the TWI hardware
  i2cTx, i2cPc,          \* the firmware: its transaction, and its next step
  i2cGot, i2cAck,        \* the firmware: the bits read so far, and the last acknowledge
  i2cShown,              \* history: the first answer for the register this transaction asks for
  i2cShadow,             \* history: the registers 14, 127 and 142 with every write done at once
  i2cTransactions, i2cEvents         \* counters for the bounds

patSensor == <<patState, patFilament>>
patMotion == <<patRaw, patLoading, patNudge, patDelta, patUntold, patLost>>
i2cDevice == <<i2cLine, i2cState, i2cCount, i2cShift, i2cReg, i2cFlag>>
i2cLines == <<i2cScl, i2cSda>>
i2cMaster == <<i2cNative, i2cTx, i2cPc, i2cGot, i2cAck, i2cShown, i2cShadow, i2cTransactions>>
i2cVars == <<patSensor, patMotion, i2cDevice, i2cLines, i2cMaster, i2cEvents>>

-----------------------------------------------------------------------------
(***************************************************************************)
(* The firmware: a transaction is a sequence of steps on the bus.          *)
(***************************************************************************)
I2cStep(op, v) == [op |-> op, v |-> v]
I2cWeight == <<1, 2, 4, 8, 16, 32, 64, 128>>
I2cBit(v, i) == (v \div I2cWeight[i + 1]) % 2

\* swi2c_start, swi2c_stop, swi2c_write with swi2c_wait_ack, swi2c_read
I2cStart == <<I2cStep("sda", 0), I2cStep("scl", 0)>>
I2cStop == <<I2cStep("scl", 1), I2cStep("sda", 1)>>
I2cWrite(v) ==
  [k \in 1..24 |-> CASE k % 3 = 1 -> I2cStep("sda", I2cBit(v, 7 - k \div 3))
                     [] k % 3 = 2 -> I2cStep("scl", 1) [] OTHER -> I2cStep("scl", 0)]
    \o <<I2cStep("sda", 1), I2cStep("scl", 1), I2cStep("ack", 0), I2cStep("scl", 0),
         I2cStep("sda", 0)>>
I2cRead ==
  <<I2cStep("sda", 1)>>
    \o [k \in 1..24 |-> CASE k % 3 = 1 -> I2cStep("scl", 1)
                          [] k % 3 = 2 -> I2cStep("take", 0) [] OTHER -> I2cStep("scl", 0)]

I2cTransactions ==
  [kind : {"read"}, address : {I2cAddress}, reg : I2cReads, value : {0}]
    \cup {[kind |-> "write", address |-> I2cAddress, reg |-> w[1], value |-> w[2]] : w \in I2cWrites}
    \cup {[kind |-> "write", address |-> I2cOther, reg |-> 14, value |-> 1]}

\* swi2c_readByte_A8 and swi2c_writeByte_A8, or the same with the TWI hardware.
I2cProgram(native, tx) ==
  CASE native /\ tx.kind = "read" ->
         <<I2cStep("START", tx.address), I2cStep("WRITE", tx.reg),
           I2cStep("START", tx.address), I2cStep("READ", 0), I2cStep("STOP", 0)>>
    [] native /\ tx.kind = "write" ->
         <<I2cStep("START", tx.address), I2cStep("WRITE", tx.reg), I2cStep("WRITE", tx.value),
           I2cStep("STOP", 0)>>
    [] ~native /\ tx.kind = "read" ->
         I2cStart \o I2cWrite(2 * tx.address) \o I2cWrite(tx.reg) \o I2cStop
           \o I2cStart \o I2cWrite(2 * tx.address + 1) \o I2cRead \o I2cStop
    [] OTHER ->
         I2cStart \o I2cWrite(2 * tx.address) \o I2cWrite(tx.reg) \o I2cWrite(tx.value) \o I2cStop

I2cPrograms == [native \in BOOLEAN |-> [tx \in I2cTransactions |-> I2cProgram(native, tx)]]
I2cCode == I2cPrograms[i2cNative][i2cTx]
I2cIdle == [kind |-> "none"]
I2cNothing == 256

\* Init of the sensor and Set of the printer; the lines are high.
I2cInit ==
  /\ patRaw = [a \in PatRegisters |-> IF a = 14 THEN 20 ELSE 0]
  /\ \/ patState = "PRESENT" /\ patFilament = TRUE
     \/ patState = "AUTO" /\ patFilament = FALSE
  /\ patLoading = FALSE /\ patNudge = 0 /\ patDelta = 0
  /\ patUntold = FALSE /\ patLost = FALSE
  /\ i2cLine = "Idle" /\ i2cState = "Idle" /\ i2cCount = 0 /\ i2cShift = 0 /\ i2cReg = 0
  /\ i2cFlag = FALSE /\ i2cScl = 1 /\ i2cSda = 1
  /\ i2cNative \in BOOLEAN /\ i2cTx = I2cIdle /\ i2cPc = 1 /\ i2cGot = 0 /\ i2cAck = 1
  /\ i2cShown = I2cNothing /\ i2cShadow = [a \in {14, PatBank, 142} |-> patRaw[a]]
  /\ i2cTransactions = 0 /\ i2cEvents = 0

-----------------------------------------------------------------------------
(***************************************************************************)
(* The registers of the sensor.  (A definition named Mut... is the one     *)
(* after it with a plausible mistake in it.)                               *)
(***************************************************************************)
PatBanked(regs, a) == IF regs[PatBank] > 0 THEN a + 128 ELSE a

\* SetYMotion: the counts of a movement, and the flag of MStatus.
MutPatMoved(d, state) ==
  [patRaw EXCEPT ![PatDYLow] = CASE d = 1 -> 255 [] d = -1 -> 1 [] OTHER -> 0,
                 ![PatMStatus] = IF state # "JAM" /\ d # 0 THEN 128 ELSE @]
PatMoved(d, state) ==
  [patRaw EXCEPT ![PatDYLow] = CASE d = 1 -> 255 [] d = -1 -> 1 [] OTHER -> 0,
                 ![PatMStatus] = IF state # "JAM" THEN 128 ELSE @]

\* GetRegVal: reading MStatus clears it, or while loading makes up another movement.
PatAnswer(reg) == IF PatBanked(patRaw, reg) = 255 THEN 0 ELSE patRaw[PatBanked(patRaw, reg)]
PatGetRegVal(reg) ==
  LET a == PatBanked(patRaw, reg)
      asked == i2cShown = I2cNothing /\ reg = i2cTx.reg
  IN /\ i2cShown' = IF asked THEN PatAnswer(reg) ELSE i2cShown
     /\ \/ /\ a = PatMStatus /\ ~patLoading
           /\ patRaw' = [patRaw EXCEPT ![PatMStatus] = 0]
           /\ patUntold' = (patUntold /\ ~(asked /\ patRaw[PatMStatus] = 128))
           /\ UNCHANGED <<patLoading, patNudge, patDelta, patLost>>
        \/ /\ a = PatMStatus /\ patLoading
           /\ \E d \in IF patDelta < 0 THEN -1..1 ELSE {1} :
                /\ patDelta' = d /\ patRaw' = PatMoved(d, patState)
                /\ patLoading' = (patNudge < 4)
                /\ patNudge' = IF patNudge < 4 THEN patNudge + 1 ELSE 0
                /\ patUntold' = (patUntold \/ patState # "JAM")
                /\ patLost' = (patLost /\ patState = "JAM")
        \/ /\ a = PatDYLow /\ patDelta' = 0
           /\ UNCHANGED <<patRaw, patLoading, patNudge, patUntold, patLost>>
        \/ a \notin {PatMStatus, PatDYLow} /\ UNCHANGED patMotion

PatSet(regs, reg, value) ==
  LET a == PatBanked(regs, reg) IN
  IF a \in {PatBank, 255} THEN [regs EXCEPT ![PatBank] = IF value > 0 THEN 1 ELSE 0]
                          ELSE [regs EXCEPT ![a] = value]
\* SetRegVal; false, and nothing is written, for an address that is not a writable register.
PatSetOk(reg) == reg <= PatBank /\ PatBanked(patRaw, reg) \notin PatReadOnly
PatSetRegVal(reg, value) ==
  /\ patRaw' = IF PatSetOk(reg) THEN PatSet(patRaw, reg, value) ELSE patRaw
  /\ UNCHANGED <<patLoading, patNudge, patDelta, patUntold, patLost, i2cShown>>

-----------------------------------------------------------------------------
(***************************************************************************)
(* The bit-banged bus.                                                     *)
(***************************************************************************)
I2cQuiet == UNCHANGED <<patMotion, i2cShown>>

\* The address is that of the sensor.
MutI2cAddressed(address) == address \in 0..127
I2cAddressed(address) == address = I2cAddress

\* ProcessByte, at the ninth rise; the line is pulled down to acknowledge.
I2cProcessByte(v) ==
  \/ /\ i2cState = "AddrIn" /\ ~I2cAddressed(v \div 2)
     /\ i2cLine' = "Idle" /\ i2cState' = "Idle"
     /\ UNCHANGED <<i2cReg, i2cSda>> /\ I2cQuiet
  \/ /\ i2cState = "AddrIn" /\ I2cAddressed(v \div 2) /\ i2cSda' = 0
     /\ IF v % 2 = 1 THEN i2cLine' = "WaitForWrite" /\ UNCHANGED i2cState
                     ELSE i2cState' = "RegIn" /\ UNCHANGED i2cLine
     /\ UNCHANGED i2cReg /\ I2cQuiet
  \/ /\ i2cState = "RegIn" /\ i2cSda' = 0
     /\ i2cReg' = v /\ i2cState' = "DataIn"
     /\ UNCHANGED i2cLine /\ I2cQuiet
  \/ /\ i2cState = "DataIn" /\ i2cSda' = IF PatSetOk(i2cReg) THEN 0 ELSE i2cSda
     /\ PatSetRegVal(i2cReg, v)
     /\ i2cReg' = (i2cReg + 1) % 256
     /\ UNCHANGED <<i2cLine, i2cState>>

\* _OnSCL, on a rise.  The register is read at the first of its eight bits.
I2cRise ==
  \/ /\ i2cLine = "Reading" /\ i2cCount = 8
     /\ I2cProcessByte(i2cShift)
     /\ i2cShift' = 0 /\ i2cCount' = 0
  \/ /\ i2cLine = "Reading" /\ i2cCount # 8
     /\ i2cShift' = (2 * i2cShift + i2cSda) % 256 /\ i2cCount' = i2cCount + 1
     /\ UNCHANGED <<i2cLine, i2cState, i2cReg, i2cSda>> /\ I2cQuiet
  \/ /\ i2cLine = "Writing"
     /\ LET loads == i2cCount = 0
            left == IF loads THEN 8 ELSE i2cCount
        IN /\ IF loads THEN PatGetRegVal(i2cReg) ELSE I2cQuiet
           /\ i2cShift' = IF loads THEN PatAnswer(i2cReg) ELSE i2cShift
           /\ i2cSda' = I2cBit(i2cShift', left - 1) /\ i2cCount' = left - 1
           /\ UNCHANGED <<i2cLine, i2cState, i2cReg>>
  \/ /\ i2cLine \in {"Idle", "WaitForWrite", "WaitForACK"}
     /\ UNCHANGED <<i2cLine, i2cState, i2cCount, i2cShift, i2cReg, i2cSda>> /\ I2cQuiet

\* _OnSCL, on a fall
I2cFall ==
  /\ i2cLine' = CASE i2cLine = "WaitForWrite" -> "Writing"
                  [] i2cLine = "Writing" /\ i2cCount = 0 -> "WaitForACK"
                  [] i2cLine = "WaitForACK" -> "Writing"
                  [] OTHER -> i2cLine
  /\ UNCHANGED <<i2cState, i2cCount, i2cShift, i2cReg, i2cSda>> /\ I2cQuiet

\* _OnSDA: a change while SCL is high is a stop or a start.
I2cSdaChanges(v) ==
  /\ CASE i2cScl = 1 /\ v = 1 -> i2cLine' = "Idle" /\ UNCHANGED <<i2cState, i2cCount, i2cShift>>
       [] i2cScl = 1 /\ v = 0 ->
            i2cLine' = "Reading" /\ i2cState' = "AddrIn" /\ i2cCount' = 0 /\ i2cShift' = 0
       [] OTHER -> UNCHANGED <<i2cLine, i2cState, i2cCount, i2cShift>>
  /\ UNCHANGED i2cReg /\ I2cQuiet

\* A step of the firmware on the lines; a line that keeps its value notifies nobody.
I2cLineStep(s) ==
  /\ \/ /\ s.op = "scl" /\ i2cScl' = s.v
        /\ CASE s.v = i2cScl -> UNCHANGED <<i2cDevice, i2cSda>> /\ I2cQuiet
             [] s.v = 1 /\ i2cScl = 0 -> I2cRise
             [] OTHER -> I2cFall
        /\ UNCHANGED <<i2cGot, i2cAck>>
     \/ /\ s.op = "sda" /\ i2cSda' = s.v
        /\ IF s.v = i2cSda THEN UNCHANGED i2cDevice /\ I2cQuiet ELSE I2cSdaChanges(s.v)
        /\ UNCHANGED <<i2cScl, i2cGot, i2cAck>>
     \/ /\ s.op = "ack" /\ i2cAck' = i2cSda
        /\ UNCHANGED <<i2cDevice, i2cLines, i2cGot>> /\ I2cQuiet
     \/ /\ s.op = "take" /\ i2cGot' = (2 * i2cGot + i2cSda) % 256
        /\ UNCHANGED <<i2cDevice, i2cLines, i2cAck>> /\ I2cQuiet
  /\ UNCHANGED i2cFlag

-----------------------------------------------------------------------------
(***************************************************************************)
(* The TWI hardware: _OnI2CTx.                                             *)
(***************************************************************************)
I2cMessage(s) ==
  /\ \/ /\ s.op = "STOP" /\ i2cState' = "Idle" /\ i2cFlag' = FALSE
        /\ UNCHANGED <<i2cReg, i2cAck, i2cGot>> /\ I2cQuiet
     \/ /\ s.op = "START" /\ i2cAck' = IF I2cAddressed(s.v) THEN 0 ELSE 1
        /\ i2cState' = IF I2cAddressed(s.v) THEN "AddrIn" ELSE i2cState
        /\ UNCHANGED <<i2cReg, i2cFlag, i2cGot>> /\ I2cQuiet
     \/ /\ s.op = "WRITE" /\ i2cState # "Idle" /\ i2cAck' = 0
        /\ IF ~i2cFlag THEN i2cFlag' = TRUE /\ i2cReg' = s.v /\ I2cQuiet
                       ELSE /\ PatSetRegVal(i2cReg, s.v)
                            /\ i2cReg' = (i2cReg + 1) % 256
                            /\ UNCHANGED i2cFlag
        /\ UNCHANGED <<i2cState, i2cGot>>
     \/ /\ s.op = "READ" /\ i2cState # "Idle"
        /\ PatGetRegVal(i2cReg) /\ i2cGot' = PatAnswer(i2cReg)
        /\ i2cReg' = (i2cReg + 1) % 256
        /\ UNCHANGED <<i2cState, i2cFlag, i2cAck>>
  /\ UNCHANGED <<i2cLine, i2cCount, i2cShift, i2cLines>>

-----------------------------------------------------------------------------
I2cBegin ==
  /\ i2cTx = I2cIdle /\ i2cTransactions < I2cMaxTransactions
  /\ i2cTx' \in I2cTransactions
  /\ i2cPc' = 1 /\ i2cGot' = 0 /\ i2cAck' = 0 /\ i2cShown' = I2cNothing
  /\ i2cTransactions' = i2cTransactions + 1
  /\ UNCHANGED <<patSensor, patMotion, i2cDevice, i2cLines, i2cNative, i2cShadow, i2cEvents>>

\* The next step; after an address that was not acknowledged, to the stop.
I2cGo ==
  /\ i2cTx # I2cIdle /\ i2cPc <= Len(I2cCode)
  /\ LET s == I2cCode[i2cPc] IN
     /\ IF i2cNative THEN I2cMessage(s) ELSE I2cLineStep(s)
     /\ i2cPc' = CASE s.op = "START" /\ i2cAck' = 1 -> Len(I2cCode)
                   [] s.op = "sda" /\ i2cAck = 1 /\ i2cPc < Len(I2cCode) - 1 -> Len(I2cCode) - 1
                   [] OTHER -> i2cPc + 1
  /\ UNCHANGED <<patSensor, i2cNative, i2cTx, i2cShadow, i2cTransactions, i2cEvents>>

I2cEnd ==
  /\ i2cTx # I2cIdle /\ i2cPc = Len(I2cCode) + 1
  /\ i2cTx' = I2cIdle /\ i2cPc' = 1
  /\ i2cShadow' = IF i2cTx.kind = "write" /\ i2cTx.address = I2cAddress
                  THEN PatSet(i2cShadow, i2cTx.reg, i2cTx.value) ELSE i2cShadow
  /\ UNCHANGED <<patSensor, patMotion, i2cDevice, i2cLines, i2cNative, i2cGot, i2cAck, i2cShown,
                 i2cTransactions, i2cEvents>>

-----------------------------------------------------------------------------
(***************************************************************************)
(* The filament, scripts and keys.                                         *)
(***************************************************************************)
\* UpdateSensorState
PatUpdate(state, auto) ==
  LET filament == IF state = "AUTO" THEN auto ELSE state \in {"PRESENT", "JAM"} IN
  /\ patState' = state /\ patFilament' = filament
  /\ patNudge' = IF filament THEN 0 ELSE patNudge

PatSetMotion(d, state) ==
  /\ patDelta' = d /\ patRaw' = PatMoved(d, state)
  /\ patUntold' = (patUntold \/ state # "JAM")
  /\ patLost' = (patLost /\ state = "JAM")

\* OnEMotion: without filament it clears the flag, also of a movement not yet told.
PatEMotion ==
  /\ patLoading' = FALSE
  /\ IF patFilament THEN \E d \in -1..1 : PatSetMotion(d, patState)
     ELSE /\ patRaw' = [patRaw EXCEPT ![PatMStatus] = 0, ![PatDYLow] = 0]
          /\ patLost' = patUntold
          /\ UNCHANGED <<patDelta, patUntold>>
  /\ UNCHANGED <<patSensor, patNudge>>

\* OnPMotion: the MMU feeds the filament to the sensor, or not that far.
PatPMotion ==
  \E loaded \in BOOLEAN :
    /\ patLoading' = FALSE
    /\ IF patState = "AUTO" /\ patFilament # loaded THEN PatUpdate("AUTO", loaded)
                                                    ELSE UNCHANGED <<patSensor, patNudge>>
    /\ IF loaded THEN \E d \in -1..1 : PatSetMotion(d, patState)
                 ELSE UNCHANGED <<patRaw, patDelta, patUntold, patLost>>

\* Toggle: out of AUTO it falls through to the case of no filament, and on.
PatToggle ==
  /\ CASE patState = "AUTO" -> PatUpdate("PRESENT", TRUE) /\ patLoading' = TRUE
       [] patState = "NO_FILAMENT" -> PatUpdate("PRESENT", TRUE) /\ patLoading' = TRUE
       [] patState = "JAM" -> PatUpdate("PRESENT", TRUE) /\ UNCHANGED patLoading
       [] OTHER -> PatUpdate("NO_FILAMENT", FALSE) /\ UNCHANGED patLoading
  /\ UNCHANGED <<patRaw, patDelta, patUntold, patLost>>

\* ToggleJam; m_bFilament is left alone.
PatToggleJam ==
  /\ patState' = IF patState = "JAM" THEN "PRESENT" ELSE "JAM"
  /\ UNCHANGED <<patFilament, patMotion>>

\* Set, by the actions Set and Resume Auto or the key A.
PatSetState ==
  \E state \in {"NO_FILAMENT", "PRESENT", "JAM", "AUTO"} :
    /\ PatUpdate(state, patFilament)
    /\ UNCHANGED <<patRaw, patLoading, patDelta, patUntold, patLost>>

PatEvent ==
  /\ i2cEvents < I2cMaxEvents /\ i2cEvents' = i2cEvents + 1
  /\ PatEMotion \/ PatPMotion \/ PatToggle \/ PatToggleJam \/ PatSetState
  /\ UNCHANGED <<i2cDevice, i2cLines, i2cMaster>>

I2cNext == I2cBegin \/ I2cGo \/ I2cEnd \/ PatEvent

I2cSpec == I2cInit /\ [][I2cNext]_i2cVars

-----------------------------------------------------------------------------
I2cTypeOK ==
  /\ patRaw \in [PatRegisters -> I2cByte]
  /\ patState \in {"NO_FILAMENT", "PRESENT", "JAM", "AUTO"} /\ patFilament \in BOOLEAN
  /\ patLoading \in BOOLEAN /\ patNudge \in 0..4 /\ patDelta \in -1..1
  /\ patUntold \in BOOLEAN /\ patLost \in BOOLEAN
  /\ i2cLine \in {"Idle", "Reading", "Writing", "WaitForWrite", "WaitForACK"}
  /\ i2cState \in {"Idle", "AddrIn", "RegIn", "DataIn"}
  /\ i2cCount \in 0..8 /\ i2cShift \in I2cByte /\ i2cReg \in I2cByte /\ i2cFlag \in BOOLEAN
  /\ i2cScl \in 0..1 /\ i2cSda \in 0..1 /\ i2cNative \in BOOLEAN
  /\ i2cTx \in I2cTransactions \cup {I2cIdle} /\ i2cPc \in Nat \ {0}
  /\ i2cGot \in I2cByte /\ i2cAck \in 0..1 /\ i2cShown \in 0..I2cNothing
  /\ i2cShadow \in [{14, PatBank, 142} -> I2cByte]
  /\ i2cTransactions \in Nat /\ i2cEvents \in Nat

\* The bus does what the transactions say, bit by bit or with the TWI hardware: when a read
\* is over, the sensor has answered for the register the firmware asked for, and the firmware
\* has the byte that register held at its first bit, whatever moved since; and between
\* transactions the registers that can be written are as if each write had been done at once,
\* so that a write to another device, a read or a bank that was left on changes none of them
\* (I2CPeripheral.cpp:53-250, PAT9125.cpp:242-325).
I2cHonest ==
  /\ i2cTx # I2cIdle /\ i2cPc > Len(I2cCode) /\ i2cTx.kind = "read"
       => i2cGot = i2cShown /\ i2cAck = 0
  /\ i2cTx = I2cIdle => \A a \in {14, PatBank, 142} : patRaw[a] = i2cShadow[a]

\* A movement is lost to the firmware in one case only.  While there is one that no answer for
\* MStatus reported, the flag is there to be read, though every read clears it - also when the
\* movement came in the middle of the read - unless the extruder moved with no filament in
\* the sensor, which clears the flag whether it was read or not (PAT9125.cpp:205-210); and
\* the next movement of filament makes up for that.
PatMotionTold == patUntold => patRaw[PatMStatus] = 128 \/ patLost
=============================================================================
