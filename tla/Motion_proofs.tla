--------------------------- MODULE Motion_proofs ---------------------------
(***************************************************************************)
(* Theorems about the stepper drivers, the filament sensor and its bus,    *)
(* the knob and the buttons, the multi-material unit and the probe of the  *)
(* bed: for every transaction of the firmware, every length of a rail,     *)
(* every modulus of the count of pulses, every mesh of heights.            *)
(***************************************************************************)
EXTENDS Tmc2130, A4982, I2cSensor, Inputs, Mmu2, Pinda, SequenceTheorems, TLAPS

-----------------------------------------------------------------------------
(***************************************************************************)
(* The TMC2130.  A transaction that has begun answers the last one.        *)
(***************************************************************************)
LEMMA TmcBitValue ==
  ASSUME NEW regs \in [TmcRegisters -> TmcNumber], NEW r \in TmcRegisters, NEW i \in 0..1
  PROVE  TmcBit(regs, r, i) \in 0..1
<1>1. regs[r] \in 0..3
  BY DEF TmcNumber
<1>2. /\ (regs[r] \div 1) % 2 \in 0..1
      /\ (regs[r] \div 2) % 2 \in 0..1
  BY <1>1
<1> QED BY <1>2 DEF TmcBit

\* The status register after SetDiag or ClearDiag is what they set.
LEMMA TmcSetStatusValue ==
  ASSUME NEW regs \in [TmcRegisters -> TmcNumber], NEW sg \in 0..1, NEW stst \in 0..1
  PROVE  /\ TmcSetStatus(regs, sg, stst) \in [TmcRegisters -> TmcNumber]
         /\ TmcStalled(TmcSetStatus(regs, sg, stst)) = sg
         /\ TmcStill(TmcSetStatus(regs, sg, stst)) = stst
         /\ \A i \in 0..1 : TmcBit(TmcSetStatus(regs, sg, stst), "GCONF", i) = TmcBit(regs, "GCONF", i)
<1> DEFINE R == TmcSetStatus(regs, sg, stst)
<1>1. /\ R \in [TmcRegisters -> TmcNumber] /\ R["DRV_STATUS"] = sg + 2 * stst
      /\ R["GCONF"] = regs["GCONF"]
  BY DEF TmcSetStatus, TmcRegisters, TmcNumber
<1>2. /\ ((sg + 2 * stst) \div 1) % 2 = sg
      /\ ((sg + 2 * stst) \div 2) % 2 = stst
  OBVIOUS
<1> HIDE DEF R
<1>3. TmcStalled(R) = sg /\ TmcStill(R) = stst
  BY <1>1, <1>2 DEF TmcStalled, TmcStill, TmcBit
<1>4. \A i \in 0..1 : TmcBit(R, "GCONF", i) = TmcBit(regs, "GCONF", i)
  BY <1>1 DEF TmcBit
<1> QED BY <1>1, <1>3, <1>4 DEF R

\* A command names a register there is, and writes none that is read-only on the chip.
LEMMA TmcCommandType ==
  ASSUME NEW c \in TmcCommand \cup {TmcNoCommand}
  PROVE  /\ c.reg \in TmcRegisters /\ c.data \in TmcNumber /\ c.rw \in {"write", "read"}
         /\ c.rw = "write" => c.reg \in {"GCONF", "CHOPCONF", "IHOLD_IRUN"}
<1>1. \A w \in TmcWrites : w[1] \in {"GCONF", "CHOPCONF", "IHOLD_IRUN"}
  BY Tmc2130Assumption
<1>2. TmcReads \subseteq TmcRegisters
  BY Tmc2130Assumption
<1>3. CASE c \in [rw : {"write"}, reg : {w[1] : w \in TmcWrites}, data : TmcNumber]
  BY <1>1, <1>3 DEF TmcRegisters
<1>4. CASE c \in [rw : {"read"}, reg : TmcReads, data : {0}]
  BY <1>2, <1>4 DEF TmcNumber
<1>5. CASE c = TmcNoCommand
  BY <1>5 DEF TmcNoCommand, TmcNumber, TmcRegisters
<1> QED BY <1>3, <1>4, <1>5 DEF TmcCommand

LEMMA TmcReplyType ==
  ASSUME NEW regs \in [TmcRegisters -> TmcNumber], regs["GSTAT"] \in 0..1,
         NEW c \in TmcCommand \cup {TmcNoCommand}
  PROVE  TmcReply(regs, c) \in TmcAnswer
<1>1. c.reg \in TmcRegisters /\ c.data \in TmcNumber
  BY TmcCommandType
<1>2. TmcStalled(regs) \in 0..1 /\ TmcStill(regs) \in 0..1
  BY TmcBitValue DEF TmcStalled, TmcStill, TmcRegisters
<1>3. regs[c.reg] \in TmcNumber
  BY <1>1
<1> QED BY <1>1, <1>2, <1>3 DEF TmcReply, TmcAnswer

\* Between two transactions the five bytes that will go out are the answer that is due.
\* Within one, what came in is the beginning of the command, and what came back and what is
\* still to go out are together that answer - unless a reset has cut it.
TmcShifted ==
  LET n == Len(tmcReceived) IN
  /\ ~tmcSelected => \A k \in 1..5 : tmcOut[k] = <<tmcDue, k>>
  /\ tmcSelected /\ tmcBoot => Len(tmcReceived) = 0
  /\ tmcSelected /\ ~tmcBoot =>
       /\ tmcSend \in TmcCommand /\ n \in 0..5
       /\ \A k \in 1..n : tmcIn[5 - n + k] = <<tmcSend, k>>
       /\ \A k \in 1..n : tmcReceived[k] = <<tmcDue, k>>
       /\ \A k \in 1..(5 - n) : tmcOut[k] = <<tmcDue, n + k>>

TmcInv ==
  /\ TmcTypeOK /\ tmcRegs["GSTAT"] \in 0..1
  /\ TmcShifted
  /\ TmcStandstill
  /\ TmcDiagHonest

LEMMA TmcBytesType ==
  ASSUME NEW S, NEW x \in S
  PROVE  /\ TmcBytes(x) \in Seq(S \X (1..5)) /\ Len(TmcBytes(x)) = 5
         /\ \A k \in 1..5 : TmcBytes(x)[k] = <<x, k>>
BY DEF TmcBytes

LEMMA TmcNoAnswerType == TmcNoAnswer \in TmcAnswer
BY DEF TmcNoAnswer, TmcAnswer, TmcNumber

LEMMA Appended ==
  ASSUME NEW S, NEW s \in Seq(S), NEW e \in S
  PROVE  /\ Append(s, e) \in Seq(S) /\ Len(Append(s, e)) = Len(s) + 1
         /\ \A k \in 1..Len(s) : Append(s, e)[k] = s[k]
         /\ Append(s, e)[Len(s) + 1] = e
OBVIOUS

\* A register of five bytes after one byte was shifted in.
LEMMA TmcShift ==
  ASSUME NEW S, NEW s \in Seq(S), Len(s) = 5, NEW e \in S
  PROVE  LET t == Append(Tail(s), e) IN
         /\ t \in Seq(S) /\ Len(t) = 5
         /\ \A k \in 1..4 : t[k] = s[k + 1]
         /\ t[5] = e
<1> DEFINE T == Tail(s)
<1>1. T \in Seq(S) /\ Len(T) = 4 /\ \A k \in 1..4 : T[k] = s[k + 1]
  OBVIOUS
<1> HIDE DEF T
<1>2. /\ Append(T, e) \in Seq(S) /\ Len(Append(T, e)) = Len(T) + 1
      /\ \A k \in 1..Len(T) : Append(T, e)[k] = T[k]
      /\ Append(T, e)[Len(T) + 1] = e
  <2>1. T \in Seq(S)
    BY <1>1
  <2> QED BY <2>1, Appended, Zenon
<1>3. Len(T) + 1 = 5 /\ 1..Len(T) = 1..4
  BY <1>1
<1>4. /\ Append(T, e) \in Seq(S) /\ Len(Append(T, e)) = 5
      /\ \A k \in 1..4 : Append(T, e)[k] = T[k]
      /\ Append(T, e)[5] = e
  BY <1>2, <1>3, Zenon
<1> QED BY <1>1, <1>4, Zenon DEF T

LEMMA TmcInitInv == TmcInit => TmcInv
<1> SUFFICES ASSUME TmcInit PROVE TmcInv
  OBVIOUS
<1> USE DEF TmcInit
<1>1. tmcRegs \in [TmcRegisters -> TmcNumber] /\ tmcRegs["GSTAT"] = 1 /\ tmcRegs["DRV_STATUS"] = 2
      /\ tmcRegs["GCONF"] = 0
  BY DEF TmcRegisters, TmcNumber
<1>2. tmcIn \in Seq((TmcCommand \cup {TmcNoCommand}) \X (1..5)) /\ Len(tmcIn) = 5
  <2>1. TmcNoCommand \in TmcCommand \cup {TmcNoCommand}
    OBVIOUS
  <2> QED BY <2>1, TmcBytesType
<1>3. tmcOut \in Seq(TmcAnswer \X (1..5)) /\ Len(tmcOut) = 5
  BY TmcBytesType, TmcNoAnswerType
<1>4. TmcTypeOK
  <2>1. tmcReceived \in Seq(TmcAnswer \X (1..5))
    OBVIOUS
  <2>2. tmcPos \in IF tmcFree THEN Int ELSE 0..TmcMaxPos
    BY Tmc2130Assumption
  <2>3. /\ tmcSelected \in BOOLEAN /\ tmcEnable \in BOOLEAN /\ tmcDir \in BOOLEAN
        /\ tmcStall \in BOOLEAN /\ tmcFree \in BOOLEAN /\ tmcTimer \in BOOLEAN
        /\ tmcStuck \in BOOLEAN /\ tmcBoot \in BOOLEAN /\ tmcForced \in BOOLEAN
    BY Zenon
  <2>4. /\ tmcPin \in 0..1 /\ tmcIncrement \in 1..2 /\ tmcDiag \in 0..1
        /\ tmcSend \in TmcCommand \cup {TmcNoCommand} /\ tmcDue \in TmcAnswer
        /\ tmcCommands \in Nat /\ tmcScripts \in Nat
    BY TmcNoAnswerType
  <2> QED BY <1>1, <1>2, <1>3, <2>1, <2>2, <2>3, <2>4 DEF TmcTypeOK
<1>5. TmcShifted
  BY TmcBytesType DEF TmcShifted
<1>6. TmcStill(tmcRegs) = 1 /\ TmcStalled(tmcRegs) = 0 /\ TmcBit(tmcRegs, "GCONF", 0) = 0
  BY <1>1 DEF TmcStill, TmcStalled, TmcBit
<1>7. TmcStandstill /\ TmcDiagHonest
  BY <1>6 DEF TmcStandstill, TmcDiagHonest
<1> QED BY <1>1, <1>4, <1>5, <1>7 DEF TmcInv

LEMMA TmcSelectInv == TmcInv /\ TmcSelect => TmcInv'
<1> SUFFICES ASSUME TmcInv, TmcSelect PROVE TmcInv'
  OBVIOUS
<1>1. /\ tmcSend' \in TmcCommand /\ tmcReceived' = <<>> /\ tmcCommands' = tmcCommands + 1
      /\ tmcSelected' \in BOOLEAN /\ tmcBoot' \in BOOLEAN /\ ~tmcBoot'
  <2>1. tmcSelected' = TRUE /\ tmcBoot' = FALSE
    BY DEF TmcSelect
  <2> QED BY <2>1, Zenon DEF TmcSelect
<1>2. TmcTypeOK'
  BY <1>1 DEF TmcInv, TmcTypeOK, TmcSelect, tmcChip, tmcMotor
<1>3. TmcShifted'
  BY <1>1 DEF TmcInv, TmcShifted, TmcSelect
<1> QED BY <1>2, <1>3 DEF TmcInv, TmcSelect, tmcChip, tmcMotor, TmcStandstill, TmcDiagHonest

LEMMA TmcByteInv == TmcInv /\ TmcByte => TmcInv'
<1> SUFFICES ASSUME TmcInv, TmcByte PROVE TmcInv'
  OBVIOUS
<1> DEFINE n == Len(tmcReceived)
<1>1. /\ n \in 0..4 /\ tmcSend \in TmcCommand
      /\ tmcIn \in Seq((TmcCommand \cup {TmcNoCommand}) \X (1..5)) /\ Len(tmcIn) = 5
      /\ tmcOut \in Seq(TmcAnswer \X (1..5)) /\ Len(tmcOut) = 5
      /\ tmcReceived \in Seq(TmcAnswer \X (1..5))
  BY DEF TmcInv, TmcTypeOK, TmcShifted, TmcByte
<1>2. /\ tmcIn' \in Seq((TmcCommand \cup {TmcNoCommand}) \X (1..5)) /\ Len(tmcIn') = 5
      /\ \A k \in 1..4 : tmcIn'[k] = tmcIn[k + 1]
      /\ tmcIn'[5] = <<tmcSend, n + 1>>
  <2>1. <<tmcSend, n + 1>> \in (TmcCommand \cup {TmcNoCommand}) \X (1..5)
    <3>1. n \in 0..4 /\ tmcSend \in TmcCommand
      BY <1>1
    <3> HIDE DEF n
    <3>2. n + 1 \in 1..5
      BY <3>1
    <3> QED BY <3>1, <3>2
  <2>2. tmcIn' = Append(Tail(tmcIn), <<tmcSend, n + 1>>)
    BY DEF TmcByte
  <2> DEFINE S == (TmcCommand \cup {TmcNoCommand}) \X (1..5)
             e == <<tmcSend, n + 1>>
  <2>3. tmcIn \in Seq(S) /\ Len(tmcIn) = 5 /\ e \in S
    BY <1>1, <2>1
  <2> HIDE DEF S, e
  <2>4. /\ Append(Tail(tmcIn), e) \in Seq(S) /\ Len(Append(Tail(tmcIn), e)) = 5
        /\ \A k \in 1..4 : Append(Tail(tmcIn), e)[k] = tmcIn[k + 1]
        /\ Append(Tail(tmcIn), e)[5] = e
    BY <2>3, TmcShift, Zenon
  <2> QED BY <2>2, <2>4 DEF S, e
<1>3. /\ tmcOut' \in Seq(TmcAnswer \X (1..5)) /\ Len(tmcOut') = 5
      /\ \A k \in 1..4 : tmcOut'[k] = tmcOut[k + 1]
  <2>1. <<TmcNoAnswer, 1>> \in TmcAnswer \X (1..5)
    BY TmcNoAnswerType
  <2>2. tmcOut' = Append(Tail(tmcOut), <<TmcNoAnswer, 1>>)
    BY DEF TmcByte, TmcShiftOut
  <2> QED BY <1>1, <2>1, <2>2, TmcShift
<1>4. tmcReceived' = Append(tmcReceived, tmcOut[1])
  BY DEF TmcByte, TmcShiftOut
<1>5. /\ tmcReceived' \in Seq(TmcAnswer \X (1..5)) /\ Len(tmcReceived') = n + 1
      /\ \A k \in 1..n : tmcReceived'[k] = tmcReceived[k]
      /\ tmcReceived'[n + 1] = tmcOut[1]
  BY <1>1, <1>4
<1>6. TmcTypeOK'
  BY <1>2, <1>3, <1>5 DEF TmcInv, TmcTypeOK, TmcByte, tmcChip, tmcMotor
<1>7. TmcShifted'
  <2>1. /\ tmcSelected' /\ tmcSend' = tmcSend /\ tmcDue' = tmcDue /\ tmcSelected
        /\ ~tmcBoot /\ ~tmcBoot'
    BY DEF TmcByte
  <2>2. \A k \in 1..n : tmcIn[5 - n + k] = <<tmcSend, k>> /\ tmcReceived[k] = <<tmcDue, k>>
    BY <2>1 DEF TmcInv, TmcShifted
  <2>3. \A k \in 1..(5 - n) : tmcOut[k] = <<tmcDue, n + k>>
    BY <2>1 DEF TmcInv, TmcShifted
  <2> HIDE DEF n
  <2>4. \A k \in 1..(n + 1) : tmcIn'[5 - (n + 1) + k] = <<tmcSend, k>>
    <3> SUFFICES ASSUME NEW k \in 1..(n + 1) PROVE tmcIn'[5 - (n + 1) + k] = <<tmcSend, k>>
      OBVIOUS
    <3>1. CASE k = n + 1
      BY <3>1, <1>1, <1>2
    <3>2. CASE k \in 1..n
      <4>1. 5 - (n + 1) + k \in 1..4 /\ (5 - (n + 1) + k) + 1 = 5 - n + k
        BY <3>2, <1>1
      <4> QED BY <4>1, <3>2, <1>2, <2>2
    <3> QED BY <3>1, <3>2, <1>1
  <2>5. \A k \in 1..(n + 1) : tmcReceived'[k] = <<tmcDue, k>>
    <3>1. tmcReceived'[n + 1] = <<tmcDue, n + 1>>
      BY <1>5, <2>3, <1>1
    <3>2. \A k \in 1..n : tmcReceived'[k] = <<tmcDue, k>>
      BY <1>5, <2>2
    <3> QED BY <3>1, <3>2, <1>1
  <2>6. \A k \in 1..(5 - (n + 1)) : tmcOut'[k] = <<tmcDue, (n + 1) + k>>
    BY <1>1, <1>3, <2>3
  <2>7. Len(tmcReceived') = n + 1 /\ n + 1 \in 0..5
    BY <1>1, <1>5
  <2> QED BY <2>1, <2>4, <2>5, <2>6, <2>7, <1>1 DEF TmcShifted
<1> QED BY <1>6, <1>7 DEF TmcInv, TmcByte, tmcChip, tmcMotor, TmcStandstill, TmcDiagHonest

LEMMA TmcRaiseDiagHonest ==
  ASSUME TmcInv, TmcRaiseDiag(tmcRegs', TmcStalled(tmcRegs'))
  PROVE  tmcDiag' \in 0..1 /\ tmcForced' \in BOOLEAN /\ TmcDiagHonest'
<1>1. tmcDiag \in 0..1 /\ tmcForced \in BOOLEAN
  BY DEF TmcInv, TmcTypeOK
<1>2. CASE TmcBit(tmcRegs', "GCONF", 0) = 1
  <2>1. /\ tmcDiag' = IF TmcStalled(tmcRegs') = TmcBit(tmcRegs', "GCONF", 1) THEN 1 ELSE 0
        /\ tmcForced' = FALSE
    BY <1>2 DEF TmcRaiseDiag
  <2>2. tmcDiag' = 1 <=> TmcStalled(tmcRegs') = TmcBit(tmcRegs', "GCONF", 1)
    BY <2>1
  <2>3. tmcDiag' \in 0..1
    BY <2>1
  <2>4. tmcForced' \in BOOLEAN
    BY <2>1, Zenon
  <2> QED BY <2>2, <2>3, <2>4 DEF TmcDiagHonest, TmcStalled
<1>3. CASE TmcBit(tmcRegs', "GCONF", 0) # 1
  BY <1>1, <1>3 DEF TmcRaiseDiag, TmcDiagHonest
<1> QED BY <1>2, <1>3

\* What the chip does with a command, and the answer that is then due.
LEMMA TmcProcessed ==
  ASSUME TmcInv, NEW c \in TmcCommand \cup {TmcNoCommand}, TmcProcess(c),
         tmcDue' = TmcReply(IF c.rw = "write" THEN tmcRegs' ELSE tmcRegs, c)
  PROVE  /\ tmcRegs' \in [TmcRegisters -> TmcNumber] /\ tmcRegs'["GSTAT"] \in 0..1
         /\ TmcStill(tmcRegs') = TmcStill(tmcRegs) /\ TmcStalled(tmcRegs') = TmcStalled(tmcRegs)
         /\ tmcDue' \in TmcAnswer /\ tmcOut' \in Seq(TmcAnswer \X (1..5)) /\ Len(tmcOut') = 5
         /\ \A k \in 1..5 : tmcOut'[k] = <<tmcDue', k>>
         /\ tmcIncrement' \in 1..2
         /\ tmcDiag' \in 0..1 /\ tmcForced' \in BOOLEAN /\ TmcDiagHonest'
<1> DEFINE written == [tmcRegs EXCEPT ![c.reg] = c.data]
           base == IF c.rw = "write" THEN written ELSE tmcRegs
<1>1. tmcRegs \in [TmcRegisters -> TmcNumber] /\ tmcRegs["GSTAT"] \in 0..1
  BY DEF TmcInv, TmcTypeOK
<1>2. TmcProcess(c)
  OBVIOUS
<1>3. /\ c.reg \in TmcRegisters /\ c.data \in TmcNumber /\ c.rw \in {"write", "read"}
      /\ c.rw = "write" => c.reg \in {"GCONF", "CHOPCONF", "IHOLD_IRUN"}
  BY TmcCommandType
<1>4. /\ written \in [TmcRegisters -> TmcNumber]
      /\ c.rw = "write" => written["GSTAT"] = tmcRegs["GSTAT"]
      /\ c.rw = "write" => written["DRV_STATUS"] = tmcRegs["DRV_STATUS"]
  BY <1>1, <1>3 DEF TmcRegisters
<1>5. base \in [TmcRegisters -> TmcNumber] /\ base["GSTAT"] \in 0..1
  BY <1>1, <1>4
<1> HIDE DEF written
<1>6. /\ tmcRegs' \in [TmcRegisters -> TmcNumber] /\ tmcRegs'["GSTAT"] \in 0..1
      /\ tmcRegs'["DRV_STATUS"] = tmcRegs["DRV_STATUS"]
      /\ c.rw = "write" => tmcRegs' = written
      /\ ~(c.rw = "write" /\ c.reg = "GCONF") => tmcRegs'["GCONF"] = tmcRegs["GCONF"]
  <2>1. CASE c.rw = "write"
    <3>1. tmcRegs' = written
      BY <1>2, <2>1 DEF TmcProcess, written
    <3> QED BY <3>1, <1>1, <1>3, <1>4, <2>1 DEF written, TmcRegisters
  <2>2. CASE c.rw = "read" /\ c.reg = "GSTAT"
    <3>1. tmcRegs' = [tmcRegs EXCEPT !["GSTAT"] = 0]
      BY <1>2, <2>2 DEF TmcProcess
    <3> QED BY <3>1, <1>1, <2>2 DEF TmcRegisters, TmcNumber
  <2>3. CASE c.rw = "read" /\ c.reg # "GSTAT"
    <3>1. tmcRegs' = tmcRegs
      BY <1>2, <2>3 DEF TmcProcess
    <3> QED BY <3>1, <1>1, <2>3
  <2> QED BY <2>1, <2>2, <2>3, <1>3
<1>7. tmcDue' = TmcReply(base, c) /\ tmcOut' = TmcBytes(TmcReply(base, c))
  <2>1. tmcOut' = TmcBytes(TmcReply(base, c))
    BY <1>2 DEF TmcProcess, written
  <2>2. tmcDue' = TmcReply(IF c.rw = "write" THEN tmcRegs' ELSE tmcRegs, c)
    OBVIOUS
  <2> QED BY <2>1, <2>2, <1>6
<1>8. TmcReply(base, c) \in TmcAnswer
  BY <1>1, <1>5, TmcReplyType
<1>9. tmcIncrement' \in 1..2
  <2>1. TmcBit(written, "CHOPCONF", 1) \in 0..1
    BY <1>4, TmcBitValue DEF TmcRegisters
  <2> QED BY <1>2, <2>1 DEF TmcProcess, written, TmcInv, TmcTypeOK
<1>10. TmcStill(tmcRegs') = TmcStill(tmcRegs) /\ TmcStalled(tmcRegs') = TmcStalled(tmcRegs)
  BY <1>6 DEF TmcStill, TmcStalled, TmcBit
<1>11. /\ tmcDiag' \in 0..1 /\ tmcForced' \in BOOLEAN
       /\ TmcDiagHonest'
  <2>1. CASE c.rw = "write" /\ c.reg = "GCONF"
    <3>1. tmcRegs' = written /\ TmcRaiseDiag(tmcRegs', TmcStalled(tmcRegs'))
      <4>1. tmcRegs' = written
        BY <1>6, <2>1
      <4>2. TmcRaiseDiag(written, TmcStalled(written))
        BY <1>2, <2>1 DEF TmcProcess, written
      <4> QED BY <4>1, <4>2
    <3> QED BY <3>1, TmcRaiseDiagHonest
  <2>2. CASE ~(c.rw = "write" /\ c.reg = "GCONF")
    <3>1. UNCHANGED <<tmcDiag, tmcForced>>
      BY <1>2, <2>2 DEF TmcProcess
    <3>2. \A i \in 0..1 : TmcBit(tmcRegs', "GCONF", i) = TmcBit(tmcRegs, "GCONF", i)
      BY <1>6, <2>2 DEF TmcBit
    <3> QED BY <3>1, <3>2, <1>10 DEF TmcDiagHonest, TmcInv, TmcTypeOK
  <2> QED BY <2>1, <2>2
<1>12. /\ tmcOut' \in Seq(TmcAnswer \X (1..5)) /\ Len(tmcOut') = 5
       /\ \A k \in 1..5 : tmcOut'[k] = <<tmcDue', k>>
  <2> HIDE DEF base
  <2> QED BY <1>7, <1>8, TmcBytesType, Zenon
<1> QED BY <1>6, <1>7, <1>8, <1>9, <1>10, <1>11, <1>12

\* What a transaction does: the command it ends with is the one the firmware sent.
LEMMA TmcDeselectInv == TmcInv /\ TmcDeselect => TmcInv'
<1> SUFFICES ASSUME TmcInv, TmcDeselect PROVE TmcInv'
  OBVIOUS
<1>1. tmcSend \in TmcCommand /\ TmcParse(tmcIn) = tmcSend
  <2>1. tmcIn[5 - 5 + 1] = <<tmcSend, 1>> /\ tmcSend \in TmcCommand
    BY DEF TmcInv, TmcShifted, TmcDeselect
  <2> QED BY <2>1 DEF TmcParse
<1>2. /\ TmcProcess(tmcSend)
      /\ tmcDue' = TmcReply(IF tmcSend.rw = "write" THEN tmcRegs' ELSE tmcRegs, tmcSend)
  BY <1>1 DEF TmcDeselect
<1>3. /\ tmcRegs' \in [TmcRegisters -> TmcNumber] /\ tmcRegs'["GSTAT"] \in 0..1
      /\ TmcStill(tmcRegs') = TmcStill(tmcRegs) /\ TmcStalled(tmcRegs') = TmcStalled(tmcRegs)
      /\ tmcDue' \in TmcAnswer /\ tmcOut' \in Seq(TmcAnswer \X (1..5)) /\ Len(tmcOut') = 5
      /\ \A k \in 1..5 : tmcOut'[k] = <<tmcDue', k>>
      /\ tmcIncrement' \in 1..2
      /\ tmcDiag' \in 0..1 /\ tmcForced' \in BOOLEAN /\ TmcDiagHonest'
  BY <1>1, <1>2, TmcProcessed
<1>4. tmcSelected' \in BOOLEAN /\ ~tmcSelected'
  <2>1. tmcSelected' = FALSE
    BY DEF TmcDeselect
  <2> QED BY <2>1, Zenon
<1>5. TmcTypeOK'
  BY <1>3, <1>4 DEF TmcInv, TmcTypeOK, TmcDeselect, tmcMotor
<1>6. TmcShifted'
  BY <1>3, <1>4 DEF TmcShifted
<1>7. TmcStandstill'
  BY <1>3 DEF TmcInv, TmcStandstill, TmcDeselect, tmcMotor
<1> QED BY <1>3, <1>5, <1>6, <1>7 DEF TmcInv

\* A reset cuts a transaction and drops the timer; the rise of the chip select that follows
\* makes a command of what came in.
LEMMA TmcAvrResetInv == TmcInv /\ TmcAvrReset => TmcInv'
<1> SUFFICES ASSUME TmcInv, TmcAvrReset PROVE TmcInv'
  OBVIOUS
<1>1. /\ tmcTimer' \in BOOLEAN /\ ~tmcTimer' /\ tmcBoot' \in BOOLEAN /\ tmcBoot'
      /\ tmcStuck' \in BOOLEAN /\ (tmcStuck' <=> tmcStuck \/ tmcTimer)
  BY Zenon DEF TmcAvrReset, TmcInv, TmcTypeOK
<1>2. /\ UNCHANGED <<tmcChip, tmcIncrement, tmcEnable, tmcDir, tmcPin, tmcPos, tmcStall, tmcFree,
                     tmcIn, tmcOut, tmcSelected, tmcDue, tmcCommands>>
      /\ tmcSend' = TmcNoCommand /\ tmcReceived' = <<>> /\ tmcScripts' = tmcScripts + 1
  BY DEF TmcAvrReset
<1>3. TmcTypeOK'
  BY <1>1, <1>2 DEF TmcInv, TmcTypeOK, tmcChip
<1>4. TmcShifted'
  BY <1>1, <1>2 DEF TmcInv, TmcShifted
<1>5. TmcStandstill'
  BY <1>1, <1>2 DEF TmcInv, TmcStandstill, tmcChip
<1> QED BY <1>2, <1>3, <1>4, <1>5 DEF TmcInv, TmcDiagHonest, tmcChip

LEMMA TmcRaiseCSInv == TmcInv /\ TmcRaiseCS => TmcInv'
<1> SUFFICES ASSUME TmcInv, TmcRaiseCS PROVE TmcInv'
  OBVIOUS
<1>1. PICK c \in TmcHeard(tmcIn) :
        /\ TmcProcess(c)
        /\ tmcDue' = TmcReply(IF c.rw = "write" THEN tmcRegs' ELSE tmcRegs, c)
  BY DEF TmcRaiseCS
<1>2. c \in TmcCommand \cup {TmcNoCommand}
  <2>1. tmcIn \in Seq((TmcCommand \cup {TmcNoCommand}) \X (1..5)) /\ Len(tmcIn) = 5
    BY DEF TmcInv, TmcTypeOK
  <2>2. tmcIn[1] \in (TmcCommand \cup {TmcNoCommand}) \X (1..5)
    BY <2>1
  <2>3. TmcParse(tmcIn) \in TmcCommand \cup {TmcNoCommand}
    BY <2>2 DEF TmcParse
  <2> QED BY <1>1, <2>3, Tmc2130Assumption DEF TmcHeard
<1>3. /\ tmcRegs' \in [TmcRegisters -> TmcNumber] /\ tmcRegs'["GSTAT"] \in 0..1
      /\ TmcStill(tmcRegs') = TmcStill(tmcRegs) /\ TmcStalled(tmcRegs') = TmcStalled(tmcRegs)
      /\ tmcDue' \in TmcAnswer /\ tmcOut' \in Seq(TmcAnswer \X (1..5)) /\ Len(tmcOut') = 5
      /\ \A k \in 1..5 : tmcOut'[k] = <<tmcDue', k>>
      /\ tmcIncrement' \in 1..2
      /\ tmcDiag' \in 0..1 /\ tmcForced' \in BOOLEAN /\ TmcDiagHonest'
  BY <1>1, <1>2, TmcProcessed
<1>4. tmcSelected' \in BOOLEAN /\ ~tmcSelected' /\ tmcBoot' \in BOOLEAN
  <2>1. tmcSelected' = FALSE /\ tmcBoot' = FALSE
    BY DEF TmcRaiseCS
  <2> QED BY <2>1, Zenon
<1>5. TmcTypeOK'
  BY <1>3, <1>4 DEF TmcInv, TmcTypeOK, TmcRaiseCS, tmcMotor
<1>6. TmcShifted'
  BY <1>3, <1>4 DEF TmcShifted
<1>7. TmcStandstill'
  BY <1>3 DEF TmcInv, TmcStandstill, TmcRaiseCS, tmcMotor
<1> QED BY <1>3, <1>5, <1>6, <1>7 DEF TmcInv

\* SetDiag and ClearDiag keep the pin honest.
LEMMA TmcStatusHonest ==
  ASSUME TmcInv, NEW sg \in 0..1, NEW stst \in 0..1, TmcStatus(sg, stst)
  PROVE  /\ tmcRegs' \in [TmcRegisters -> TmcNumber] /\ tmcRegs'["GSTAT"] \in 0..1
         /\ TmcStalled(tmcRegs') = sg /\ TmcStill(tmcRegs') = stst
         /\ tmcDiag' \in 0..1 /\ tmcForced' \in BOOLEAN
         /\ TmcDiagHonest'
<1>1. tmcRegs \in [TmcRegisters -> TmcNumber] /\ tmcRegs' = TmcSetStatus(tmcRegs, sg, stst)
  BY DEF TmcInv, TmcTypeOK, TmcStatus
<1>2. /\ tmcRegs' \in [TmcRegisters -> TmcNumber]
      /\ TmcStalled(tmcRegs') = sg /\ TmcStill(tmcRegs') = stst
      /\ \A i \in 0..1 : TmcBit(tmcRegs', "GCONF", i) = TmcBit(tmcRegs, "GCONF", i)
  BY <1>1, TmcSetStatusValue
<1>3. tmcRegs'["GSTAT"] \in 0..1
  BY <1>1 DEF TmcSetStatus, TmcInv, TmcRegisters
<1>4. CASE sg # TmcStalled(tmcRegs)
  <2>1. TmcRaiseDiag(tmcRegs', sg)
    BY <1>4 DEF TmcStatus
  <2> QED BY <2>1, <1>2, <1>3, TmcRaiseDiagHonest
<1>5. CASE sg = TmcStalled(tmcRegs)
  <2>1. UNCHANGED <<tmcDiag, tmcForced>>
    BY <1>5 DEF TmcStatus
  <2> QED BY <2>1, <1>2, <1>3, <1>5 DEF TmcDiagHonest, TmcInv, TmcTypeOK
<1> QED BY <1>4, <1>5

LEMMA TmcStepInInv == TmcInv /\ TmcStepIn => TmcInv'
<1> SUFFICES ASSUME TmcInv, TmcStepIn PROVE TmcInv'
  OBVIOUS
<1>1. tmcPin' \in 0..1
  BY DEF TmcStepIn, TmcInv, TmcTypeOK
<1>2. CASE TmcCounts(tmcPin')
  <2>1. /\ TmcStatus(IF TmcHits \/ tmcStall THEN 1 ELSE 0, 0)
        /\ tmcTimer' = TRUE /\ tmcStuck' = FALSE /\ tmcEnable
        /\ tmcPos' = IF TmcHits THEN IF TmcTarget < 0 THEN 0 ELSE TmcMaxPos ELSE TmcTarget
    BY <1>2 DEF TmcStepIn, TmcCounts
  <2>2. /\ tmcRegs' \in [TmcRegisters -> TmcNumber] /\ tmcRegs'["GSTAT"] \in 0..1
        /\ TmcStill(tmcRegs') = 0
        /\ tmcDiag' \in 0..1 /\ tmcForced' \in BOOLEAN
        /\ TmcDiagHonest'
    BY <2>1, TmcStatusHonest
  <2>3. tmcPos' \in IF tmcFree THEN Int ELSE 0..TmcMaxPos
    BY <2>1, Tmc2130Assumption DEF TmcHits, TmcTarget, TmcInv, TmcTypeOK
  <2>7. tmcTimer' \in BOOLEAN /\ tmcTimer' /\ tmcStuck' \in BOOLEAN /\ ~tmcStuck'
    BY <2>1, Zenon
  <2>4. TmcTypeOK'
    BY <1>1, <2>1, <2>2, <2>3, <2>7 DEF TmcInv, TmcTypeOK, TmcStepIn, tmcBus
  <2>5. TmcShifted'
    BY DEF TmcInv, TmcShifted, TmcStepIn, tmcBus
  <2>6. TmcStandstill'
    <3>1. tmcEnable' = tmcEnable
      BY DEF TmcStepIn
    <3>2. TmcStalled(tmcRegs') \in 0..1
      BY <2>2, TmcBitValue DEF TmcStalled, TmcRegisters
    <3> QED BY <2>1, <2>2, <2>7, <3>1 DEF TmcStandstill
  <2> QED BY <2>2, <2>4, <2>5, <2>6 DEF TmcInv
<1>3. CASE ~TmcCounts(tmcPin')
  <2>1. UNCHANGED <<tmcPos, tmcChip, tmcTimer, tmcStuck, tmcBus, tmcIncrement, tmcScripts, tmcEnable, tmcDir, tmcStall, tmcFree>>
    BY <1>3 DEF TmcStepIn
  <2> QED BY <1>1, <2>1
             DEF TmcInv, TmcTypeOK, TmcShifted, TmcStandstill, TmcDiagHonest, tmcChip, tmcBus
<1> QED BY <1>2, <1>3

LEMMA TmcTimeoutInv == TmcInv /\ TmcTimeout => TmcInv'
<1> SUFFICES ASSUME TmcInv, TmcTimeout PROVE TmcInv'
  OBVIOUS
<1>1. /\ tmcRegs' \in [TmcRegisters -> TmcNumber] /\ tmcRegs'["GSTAT"] \in 0..1
      /\ TmcStill(tmcRegs') = 1 /\ TmcStalled(tmcRegs') = 0
      /\ tmcDiag' \in 0..1 /\ tmcForced' \in BOOLEAN
      /\ TmcDiagHonest'
  BY TmcStatusHonest DEF TmcTimeout
<1>4. tmcTimer /\ tmcTimer' \in BOOLEAN /\ ~tmcTimer' /\ tmcStuck' = tmcStuck
  <2>1. tmcTimer' = FALSE
    BY DEF TmcTimeout
  <2> QED BY <2>1, Zenon DEF TmcTimeout
<1>2. TmcTypeOK' /\ TmcShifted'
  BY <1>1, <1>4 DEF TmcInv, TmcTypeOK, TmcShifted, TmcTimeout, tmcBus
<1>3. TmcStandstill'
  BY <1>1, <1>4 DEF TmcInv, TmcStandstill
<1> QED BY <1>1, <1>2, <1>3 DEF TmcInv

LEMMA TmcEnableInInv == TmcInv /\ TmcEnableIn => TmcInv'
<1> SUFFICES ASSUME TmcInv, TmcEnableIn PROVE TmcInv'
  OBVIOUS
<1>1. CASE tmcEnable'
  <2>1. UNCHANGED <<tmcChip, tmcTimer, tmcStuck, tmcBus, tmcIncrement, tmcScripts, tmcDir, tmcPin, tmcPos, tmcStall, tmcFree>>
        /\ tmcEnable' \in BOOLEAN
    BY <1>1 DEF TmcEnableIn
  <2> QED BY <1>1, <2>1
             DEF TmcInv, TmcTypeOK, TmcShifted, TmcStandstill, TmcDiagHonest, tmcChip, tmcBus
<1>2. CASE ~tmcEnable'
  <2>0. TmcStatus(0, 1) /\ tmcTimer' = FALSE /\ tmcStuck' = FALSE
    BY <1>2 DEF TmcEnableIn
  <2>4. tmcTimer' \in BOOLEAN /\ ~tmcTimer' /\ tmcStuck' \in BOOLEAN /\ ~tmcStuck'
    BY <2>0, Zenon
  <2>1. /\ tmcRegs' \in [TmcRegisters -> TmcNumber] /\ tmcRegs'["GSTAT"] \in 0..1
        /\ TmcStill(tmcRegs') = 1 /\ TmcStalled(tmcRegs') = 0
        /\ tmcDiag' \in 0..1 /\ tmcForced' \in BOOLEAN
        /\ TmcDiagHonest'
    BY <2>0, TmcStatusHonest
  <2>2. TmcTypeOK' /\ TmcShifted'
    BY <2>1, <2>4 DEF TmcInv, TmcTypeOK, TmcShifted, TmcEnableIn, tmcBus
  <2>3. TmcStandstill'
    BY <2>1, <2>4 DEF TmcStandstill
  <2> QED BY <2>1, <2>2, <2>3 DEF TmcInv
<1> QED BY <1>1, <1>2

LEMMA TmcStepInv == TmcInv /\ [TmcNext]_tmcVars => TmcInv'
<1>1. TmcInv /\ TmcDirIn => TmcInv'
  BY DEF TmcInv, TmcDirIn, TmcTypeOK, TmcShifted, TmcStandstill, TmcDiagHonest, tmcChip, tmcBus
<1>2. TmcInv /\ TmcScript => TmcInv'
  <2> SUFFICES ASSUME TmcInv, TmcScript PROVE TmcInv'
    OBVIOUS
  <2>1. /\ UNCHANGED <<tmcBus, tmcRegs, tmcIncrement, tmcEnable, tmcDir, tmcPin, tmcPos, tmcFree, tmcTimer,
                     tmcStuck>>
        /\ tmcScripts' \in Nat
    BY DEF TmcInv, TmcTypeOK, TmcScript
  <2>2. CASE tmcStall' = ~tmcStall /\ UNCHANGED <<tmcDiag, tmcForced>>
    BY <2>1, <2>2 DEF TmcInv, TmcTypeOK, TmcShifted, TmcStandstill, TmcDiagHonest, tmcBus
  <2>3. CASE tmcDiag' \in 0..1 /\ tmcForced' = TRUE /\ UNCHANGED tmcStall
    BY <2>1, <2>3 DEF TmcInv, TmcTypeOK, TmcShifted, TmcStandstill, TmcDiagHonest, tmcBus
  <2> QED BY <2>2, <2>3 DEF TmcScript
<1>3. TmcInv /\ UNCHANGED tmcVars => TmcInv'
  BY DEF TmcInv, tmcVars, TmcTypeOK, TmcShifted, TmcStandstill, TmcDiagHonest, tmcChip, tmcBus,
     tmcMotor
<1> QED BY <1>1, <1>2, <1>3, TmcSelectInv, TmcByteInv, TmcDeselectInv, TmcStepInInv, TmcTimeoutInv,
           TmcEnableInInv, TmcAvrResetInv, TmcRaiseCSInv DEF TmcNext

LEMMA TmcInvariant == TmcSpec => []TmcInv
BY TmcInitInv, TmcStepInv, PTL DEF TmcSpec

LEMMA TmcInvAnswered == TmcInv => TmcAnswered
BY DEF TmcInv, TmcShifted, TmcAnswered

-----------------------------------------------------------------------------
(***************************************************************************)
(* The A4982.                                                              *)
(***************************************************************************)
\* A switch that is on at the far end is on within the last full step, which a change of the
\* size, however often repeated, does not leave; and a timer that runs while SLEEP_IN is set
\* is an old one.
A4Inv ==
  /\ A4TypeOK
  /\ a4Min = 1 => a4Pos = 0 /\ a4Max = 0
  /\ a4Max = 1 => a4Pos >= (A4MaxPos \div 16) * 16
  /\ A4SleepHonest
  /\ a4SleepPin = 1 /\ a4Wakeup => a4Hasty /\ a4Sleep

LEMMA A4LastStep ==
  /\ (A4MaxPos \div 16) * 16 \in 32..A4MaxPos
  /\ (A4MaxPos \div 16) * 16 > A4MaxPos - 16
BY A4982Assumption

LEMMA A4Rounded ==
  ASSUME NEW pos \in Nat, NEW size \in {16, 8, 4, 1}
  PROVE  /\ (pos \div size) * size \in 0..pos
         /\ \A n \in Nat : pos >= n * 16 => (pos \div size) * size >= n * 16
<1>1. CASE size = 16
  BY <1>1
<1>2. CASE size = 8
  BY <1>2
<1>3. CASE size = 4
  BY <1>3
<1>4. CASE size = 1
  BY <1>4
<1> QED BY <1>1, <1>2, <1>3, <1>4

LEMMA A4InitInv == A4Init => A4Inv
<1> SUFFICES ASSUME A4Init PROVE A4Inv
  OBVIOUS
<1>1. a4Enable \in BOOLEAN /\ a4Reset \in BOOLEAN /\ a4Sleep \in BOOLEAN /\ a4Dir \in BOOLEAN
      /\ a4Wakeup \in BOOLEAN /\ a4Hasty \in BOOLEAN /\ a4Lost \in BOOLEAN
      /\ ~a4Sleep /\ ~a4Lost
  BY Zenon DEF A4Init
<1>2. /\ a4Size \in {16, 8, 4, 1} /\ a4Pos \in 0..A4MaxPos /\ a4Min = 0 /\ a4Max = 0
      /\ a4SleepPin = 0 /\ a4Ms \in (0..1) \X (0..1)
  BY A4982Assumption DEF A4Init
<1> QED BY <1>1, <1>2 DEF A4Inv, A4TypeOK, A4SleepHonest, A4Init

LEMMA A4StepInInv == A4Inv /\ A4StepIn => A4Inv'
<1> SUFFICES ASSUME A4Inv, A4StepIn PROVE A4Inv'
  OBVIOUS
<1> DEFINE pos == IF a4Dir THEN a4Pos - a4Size ELSE a4Pos + a4Size
<1>1. A4CheckEndstops(pos) /\ UNCHANGED <<a4Pins, a4Power, a4Size>>
  BY DEF A4StepIn
<1>2. /\ a4Pos \in 0..A4MaxPos /\ a4Size \in 1..16 /\ pos \in Int
      /\ pos >= a4Pos - 16 /\ pos <= a4Pos + 16 /\ a4Min \in 0..1 /\ a4Max \in 0..1
      /\ a4Min = 1 => a4Pos = 0 /\ a4Max = 0
      /\ a4Max = 1 => a4Pos >= (A4MaxPos \div 16) * 16
  BY A4982Assumption DEF A4Inv, A4TypeOK
<1> HIDE DEF pos
<1>3. CASE pos <= 0
  <2>1. a4Pos' = 0 /\ a4Min' = 1 /\ a4Max' = a4Max
    BY <1>1, <1>2, <1>3, A4982Assumption DEF A4CheckEndstops
  <2>2. a4Max = 0
    BY <1>2, <1>3, A4LastStep
  <2> QED BY <1>1, <1>2, <2>1, <2>2, A4982Assumption
          DEF A4Inv, A4TypeOK, A4SleepHonest, a4Pins, a4Power
<1>4. CASE pos > A4MaxPos
  <2>1. a4Pos' = A4MaxPos /\ a4Max' = 1 /\ a4Min' = a4Min
    BY <1>1, <1>2, <1>4, A4982Assumption DEF A4CheckEndstops
  <2>2. a4Min = 0
    BY <1>2, <1>4, A4982Assumption
  <2> QED BY <1>1, <1>2, <2>1, <2>2, A4LastStep, A4982Assumption
          DEF A4Inv, A4TypeOK, A4SleepHonest, a4Pins, a4Power
<1>5. CASE pos > 0 /\ pos <= A4MaxPos
  <2>1. a4Pos' = pos /\ a4Max' = 0 /\ a4Min' = 0
    BY <1>1, <1>2, <1>5, A4982Assumption DEF A4CheckEndstops
  <2>2. a4Pos' \in 0..A4MaxPos
    BY <1>2, <1>5, <2>1, A4982Assumption
  <2> QED BY <1>1, <1>2, <2>1, <2>2 DEF A4Inv, A4TypeOK, A4SleepHonest, a4Pins, a4Power
<1> QED BY <1>2, <1>3, <1>4, <1>5, A4982Assumption

LEMMA A4MSInInv == A4Inv /\ A4MSIn => A4Inv'
<1> SUFFICES ASSUME A4Inv, A4MSIn PROVE A4Inv'
  OBVIOUS
<1>1. a4Ms' \in (0..1) \X (0..1)
  BY DEF A4MSIn, A4Inv, A4TypeOK
<1>2. a4Size' \in {16, 8, 4, 1}
  BY <1>1 DEF A4MSIn, A4Sizes
<1>3. /\ a4Pos \in Nat /\ a4Pos \in 0..A4MaxPos /\ A4MaxPos \div 16 \in Nat
      /\ a4Pos' = (a4Pos \div a4Size') * a4Size'
  BY A4982Assumption DEF A4MSIn, A4Inv, A4TypeOK
<1>4. /\ a4Pos' \in 0..a4Pos
      /\ a4Pos >= (A4MaxPos \div 16) * 16 => a4Pos' >= (A4MaxPos \div 16) * 16
  BY <1>2, <1>3, A4Rounded
<1>5. a4Pos' \in 0..A4MaxPos /\ (a4Pos = 0 => a4Pos' = 0)
  BY <1>3, <1>4, A4982Assumption
<1> QED BY <1>1, <1>2, <1>4, <1>5 DEF A4MSIn, A4Inv, A4TypeOK, A4SleepHonest, a4Power

LEMMA A4PinInv == A4Inv /\ (A4DirIn \/ A4EnableIn \/ A4ResetIn) => A4Inv'
<1> SUFFICES ASSUME A4Inv, A4DirIn \/ A4EnableIn \/ A4ResetIn PROVE A4Inv'
  OBVIOUS
<1>1. a4Dir' \in BOOLEAN /\ a4Enable' \in BOOLEAN /\ a4Reset' \in BOOLEAN
  BY Zenon DEF A4Inv, A4TypeOK, A4DirIn, A4EnableIn, A4ResetIn
<1>2. UNCHANGED <<a4SleepPin, a4Ms, a4Motor, a4Power>>
  BY DEF A4DirIn, A4EnableIn, A4ResetIn
<1> QED BY <1>1, <1>2 DEF A4Inv, A4TypeOK, A4SleepHonest, a4Motor, a4Power

LEMMA A4SleepInv == A4Inv /\ A4SleepIn => A4Inv'
<1> SUFFICES ASSUME A4Inv, A4SleepIn PROVE A4Inv'
  OBVIOUS
<1>1. a4Lost' \in BOOLEAN /\ ~a4Lost'
  BY Zenon DEF A4SleepIn
<1>2. a4SleepPin' = 1 - a4SleepPin /\ UNCHANGED <<a4Dir, a4Enable, a4Reset, a4Ms, a4Motor>>
  BY DEF A4SleepIn
<1>3. CASE a4SleepPin = 0
  <2>1. a4SleepPin' = 1
    BY <1>2, <1>3
  <2>2. a4Sleep' = TRUE /\ a4Wakeup' = a4Wakeup
    BY <2>1 DEF A4SleepIn
  <2>3. a4Sleep' /\ a4Sleep' \in BOOLEAN
    BY <2>2, Zenon
  <2>4. a4Hasty' \in BOOLEAN /\ (a4Hasty' <=> a4Wakeup)
    BY <2>1, Zenon DEF A4SleepIn
  <2> QED BY <1>1, <1>2, <2>1, <2>2, <2>3, <2>4 DEF A4Inv, A4TypeOK, A4SleepHonest, a4Motor
<1>4. CASE a4SleepPin = 1
  <2>1. a4SleepPin' = 0
    BY <1>2, <1>4
  <2>2. a4SleepPin' # 1
    BY <2>1
  <2>3. a4Sleep' = a4Sleep /\ a4Wakeup' = TRUE
    BY <2>2 DEF A4SleepIn
  <2>4. a4Wakeup' /\ a4Wakeup' \in BOOLEAN
    BY <2>3, Zenon
  <2>5. a4Hasty' \in BOOLEAN /\ ~a4Hasty'
    BY <2>2, Zenon DEF A4SleepIn
  <2> QED BY <1>1, <1>2, <2>1, <2>3, <2>4, <2>5 DEF A4Inv, A4TypeOK, A4SleepHonest, a4Motor
<1> QED BY <1>3, <1>4 DEF A4Inv, A4TypeOK

LEMMA A4OnWakeupInv == A4Inv /\ A4OnWakeup => A4Inv'
<1> SUFFICES ASSUME A4Inv, A4OnWakeup PROVE A4Inv'
  OBVIOUS
<1>1. a4Wakeup /\ UNCHANGED <<a4Pins, a4Motor, a4Hasty, a4Lost>>
  BY DEF A4OnWakeup
<1>2. a4Wakeup' \in BOOLEAN /\ ~a4Wakeup' /\ a4Sleep' \in BOOLEAN /\ ~a4Sleep'
  BY Zenon DEF A4OnWakeup
<1> QED BY <1>1, <1>2 DEF A4Inv, A4TypeOK, A4SleepHonest, a4Pins, a4Motor

LEMMA A4AvrResetInv == A4Inv /\ A4AvrReset => A4Inv'
<1> SUFFICES ASSUME A4Inv, A4AvrReset PROVE A4Inv'
  OBVIOUS
<1>1. /\ a4Wakeup' \in BOOLEAN /\ ~a4Wakeup' /\ a4Hasty' \in BOOLEAN /\ a4Lost' \in BOOLEAN
      /\ a4Hasty' <=> a4Hasty /\ ~a4Wakeup
      /\ a4Lost' <=> a4Lost \/ (a4Wakeup /\ a4Sleep /\ a4SleepPin = 0)
  BY Zenon DEF A4AvrReset, A4Inv, A4TypeOK
<1>2. UNCHANGED <<a4Pins, a4Motor, a4Sleep>>
  BY DEF A4AvrReset
<1> QED BY <1>1, <1>2 DEF A4Inv, A4TypeOK, A4SleepHonest, a4Pins, a4Motor

LEMMA A4StepInv == A4Inv /\ [A4Next]_a4Vars => A4Inv'
<1>1. A4Inv /\ UNCHANGED a4Vars => A4Inv'
  BY DEF A4Inv, a4Vars, A4TypeOK, A4SleepHonest
<1> QED BY <1>1, A4StepInInv, A4MSInInv, A4PinInv, A4SleepInv, A4OnWakeupInv, A4AvrResetInv DEF A4Next

LEMMA A4Invariant == A4Spec => []A4Inv
BY A4InitInv, A4StepInv, PTL DEF A4Spec

LEMMA A4InvEnds == A4Inv => A4Ends
BY A4LastStep, A4982Assumption DEF A4Inv, A4TypeOK, A4Ends

-----------------------------------------------------------------------------
(***************************************************************************)
(* The knob and the buttons.                                               *)
(***************************************************************************)
LEMMA InpWrap ==
  ASSUME NEW x \in 0..(2 * InpModulus - 1)
  PROVE  /\ x % InpModulus = IF x < InpModulus THEN x ELSE x - InpModulus
         /\ x % InpModulus \in 0..(InpModulus - 1)
         /\ (x % InpModulus) % 4 = x % 4
<1>1. InpModulus \in Nat /\ InpModulus > 4 /\ InpModulus % 4 = 0
  BY InputsAssumption
<1>2. x % InpModulus = IF x < InpModulus THEN x ELSE x - InpModulus
  BY <1>1
<1> QED BY <1>1, <1>2

\* A phase depends on the count of pulses modulo 4 only.
LEMMA InpMod4 ==
  ASSUME NEW phase \in Nat, NEW p \in Nat, NEW q \in Nat, p % 4 = q % 4
  PROVE  (phase + p) % 4 = (phase + q) % 4 /\ (phase + 3 * p) % 4 = (phase + 3 * q) % 4
<1>1. p = 4 * (p \div 4) + (p % 4) /\ q = 4 * (q \div 4) + (q % 4)
      /\ p \div 4 \in Nat /\ q \div 4 \in Nat /\ p % 4 \in 0..3
  OBVIOUS
<1>2. PICK i \in Nat, j \in Nat, r \in 0..3 : p = 4 * i + r /\ q = 4 * j + r
  BY <1>1
<1> QED BY <1>2

\* The phase at which the pulses will end when one more has been taken off.
InpEndAfter ==
  (inpPhase + (IF inpDir = "CW_CLICK" THEN inpPulses + 3 ELSE 3 * (inpPulses + 3))) % 4

\* While the two threads have not used the count at once, one of them is idle, and the other
\* may be between two of its steps: the timer has moved the phase and not yet taken the pulse
\* off, or the mouse has read the count, or written it and not yet started the timer.  The
\* pulses end at the same phase all the same.
InpKnobInv ==
  /\ inpPins = InpStates[inpPhase]
  /\ inpTick => inpRunning
  /\ inpAvr = "count" => inpRunning /\ ~inpTick /\ ~inpDropped
  /\ inpAvr = "idle" => (inpRunning /\ ~inpTick <=> inpDropped)
  /\ ~inpRaced =>
       /\ inpAvr = "idle" \/ inpGl = "idle"
       /\ inpAvr = "idle" => InpEnd = inpRest
       /\ inpAvr = "idle" /\ inpGl # "timer" => (inpPulses > 0 => inpRunning)
       /\ inpGl = "count" => inpGlSeen = inpPulses
       /\ inpAvr = "count" => inpAvrSeen = inpPulses /\ InpEndAfter = inpRest

\* A release that is registered while somebody holds the button was registered before.
InpKeyInv ==
  /\ inpButton = 0 /\ ~inpRelease /\ ~inpHeld <=> inpLost
  /\ inpHeld /\ ~inpEarly => inpButton = 0
  /\ inpHeld /\ inpRelease => inpEarly /\ inpButton = 0

InpInv == InpTypeOK /\ InpKnobInv /\ InpKeyInv

LEMMA InpInitInv == InpInit => InpInv
<1> SUFFICES ASSUME InpInit PROVE InpInv
  OBVIOUS
<1> USE DEF InpInit
<1>1. inpRunning \in BOOLEAN /\ inpTick \in BOOLEAN /\ inpRaced \in BOOLEAN
      /\ inpRelease \in BOOLEAN /\ inpHeld \in BOOLEAN /\ inpEarly \in BOOLEAN
      /\ inpDropped \in BOOLEAN /\ inpLost \in BOOLEAN
  BY Zenon
<1>2. /\ inpDir \in InpDirections /\ inpPhase \in 0..3 /\ inpPins \in (0..1) \X (0..1)
      /\ inpPulses \in 0..(InpModulus - 1) /\ inpAvr \in {"idle", "count"}
      /\ inpAvrSeen \in 0..(InpModulus - 1) /\ inpGl \in {"idle", "count", "timer"}
      /\ inpGlDir \in InpDirections /\ inpGlSeen \in 0..(InpModulus - 1) /\ inpRest \in 0..3
      /\ inpButton \in 0..1
  BY InputsAssumption DEF InpDirections
<1>3. InpTypeOK
  BY <1>1, <1>2 DEF InpTypeOK
<1>4. InpKnobInv
  BY DEF InpKnobInv, InpStates, InpEnd
<1>5. InpKeyInv
  BY DEF InpKeyInv
<1> QED BY <1>3, <1>4, <1>5 DEF InpInv

\* What a step tells of a race.
LEMMA InpNoteRaceValue ==
  ASSUME InpTypeOK, NEW other, InpNoteRace(other)
  PROVE  /\ inpRaced' \in BOOLEAN
         /\ ~inpRaced' => ~inpRaced /\ other = "idle"
BY Zenon DEF InpTypeOK, InpNoteRace

LEMMA InpStartTimerValue ==
  ASSUME InpTypeOK, InpStartTimer
  PROVE  /\ inpRunning' = TRUE /\ inpTick' \in BOOLEAN
         /\ inpTick => inpTick'
         /\ ~inpRunning => inpTick'
         /\ inpRunning /\ ~inpTick => ~inpTick'
BY Zenon DEF InpTypeOK, InpStartTimer

\* A twist that counts keeps the end of the pulses and the phase at which the direction was
\* changed together.
LEMMA InpCountEnd ==
  ASSUME InpTypeOK, NEW dir \in InpDirections, NEW seen \in 0..(InpModulus - 1),
         InpCount(dir, seen), inpPhase' = inpPhase
  PROVE  /\ inpDir' \in InpDirections /\ inpPulses' \in 0..(InpModulus - 1) /\ inpRest' \in 0..3
         /\ seen = inpPulses /\ InpEnd = inpRest => InpEnd' = inpRest'
<1>1. /\ inpPhase \in 0..3 /\ inpPulses \in 0..(InpModulus - 1) /\ inpRest \in 0..3
      /\ inpDir' = dir /\ inpDir \in InpDirections
  BY DEF InpTypeOK, InpCount
<1>2. CASE inpDir = dir
  <2>1. inpPulses' = (seen + 4) % InpModulus /\ inpRest' = inpRest
    BY <1>2 DEF InpCount
  <2>2. seen + 4 \in 0..(2 * InpModulus - 1)
    BY InputsAssumption
  <2>3. inpPulses' \in 0..(InpModulus - 1) /\ inpPulses' % 4 = (seen + 4) % 4
    BY <2>1, <2>2, InpWrap
  <2>4. inpPulses' % 4 = seen % 4
    <3>1. seen \in Nat
      BY InputsAssumption
    <3>2. (seen + 4) % 4 = seen % 4
      BY <3>1
    <3> QED BY <2>3, <3>2
  <2>5. seen = inpPulses => InpEnd' = InpEnd
    <3>1. inpPulses' \in Nat /\ seen \in Nat /\ inpPhase \in Nat
      BY <1>1, <2>3, InputsAssumption
    <3>2. /\ (inpPhase + inpPulses') % 4 = (inpPhase + seen) % 4
          /\ (inpPhase + 3 * inpPulses') % 4 = (inpPhase + 3 * seen) % 4
      BY <2>4, <3>1, InpMod4
    <3> QED BY <1>1, <1>2, <3>2 DEF InpEnd
  <2> QED BY <1>1, <2>1, <2>3, <2>5
<1>3. CASE inpDir # dir
  <2>1. inpPulses' = 4 /\ inpRest' = inpPhase
    BY <1>3 DEF InpCount
  <2>2. inpPulses' \in 0..(InpModulus - 1)
    BY <2>1, InputsAssumption
  <2>3. InpEnd' = inpPhase
    BY <1>1, <2>1 DEF InpEnd
  <2> QED BY <1>1, <2>1, <2>2, <2>3
<1> QED BY <1>2, <1>3

LEMMA InpTwistInv == InpInv /\ InpTwist => InpInv'
<1> SUFFICES ASSUME InpInv, InpTwist PROVE InpInv'
  OBVIOUS
<1>1. InpTypeOK /\ InpKnobInv /\ InpKeyInv
  BY DEF InpInv
<1>2. PICK dir \in InpDirections : InpCount(dir, inpPulses)
  BY DEF InpTwist
<1>3. /\ inpDir' \in InpDirections /\ inpPulses' \in 0..(InpModulus - 1) /\ inpRest' \in 0..3
      /\ InpEnd = inpRest => InpEnd' = inpRest'
  BY <1>1, <1>2, InpCountEnd DEF InpTwist, InpTypeOK
<1>4. /\ inpRaced' \in BOOLEAN
      /\ ~inpRaced' => ~inpRaced /\ inpGl = "idle"
  BY <1>1, InpNoteRaceValue DEF InpTwist
<1>5. /\ inpRunning' = TRUE /\ inpTick' \in BOOLEAN
      /\ inpTick => inpTick'
      /\ ~inpRunning => inpTick'
      /\ inpRunning /\ ~inpTick => ~inpTick'
  BY <1>1, InpStartTimerValue DEF InpTwist
<1>6. inpAvr = "idle"
      /\ UNCHANGED <<inpPhase, inpPins, inpAvr, inpAvrSeen, inpGl, inpGlDir, inpGlSeen, inpDropped,
                    inpKey>>
  BY DEF InpTwist
<1>7. InpTypeOK'
  BY <1>1, <1>3, <1>4, <1>5, <1>6 DEF InpTypeOK, inpKey
<1>8. InpKnobInv'
  BY <1>1, <1>3, <1>4, <1>5, <1>6 DEF InpKnobInv
<1>9. InpKeyInv'
  BY <1>1, <1>6 DEF InpKeyInv, inpKey
<1> QED BY <1>7, <1>8, <1>9 DEF InpInv

LEMMA InpMouseTwistInv == InpInv /\ InpMouseTwist => InpInv'
<1> SUFFICES ASSUME InpInv, InpMouseTwist PROVE InpInv'
  OBVIOUS
<1>1. InpTypeOK /\ InpKnobInv /\ InpKeyInv
  BY DEF InpInv
<1>2. /\ inpRaced' \in BOOLEAN
      /\ ~inpRaced' => ~inpRaced /\ inpAvr = "idle"
  BY <1>1, InpNoteRaceValue DEF InpMouseTwist
<1>3. InpTypeOK'
  BY <1>1, <1>2 DEF InpTypeOK, InpMouseTwist, inpKey
<1>4. InpKnobInv'
  BY <1>1, <1>2 DEF InpKnobInv, InpEnd, InpMouseTwist
<1>5. InpKeyInv'
  BY <1>1 DEF InpKeyInv, InpMouseTwist, inpKey
<1> QED BY <1>3, <1>4, <1>5 DEF InpInv

LEMMA InpMouseCountInv == InpInv /\ InpMouseCount => InpInv'
<1> SUFFICES ASSUME InpInv, InpMouseCount PROVE InpInv'
  OBVIOUS
<1>1. InpTypeOK /\ InpKnobInv /\ InpKeyInv
  BY DEF InpInv
<1>2. /\ inpRaced' \in BOOLEAN
      /\ ~inpRaced' => ~inpRaced /\ inpAvr = "idle"
  BY <1>1, InpNoteRaceValue DEF InpMouseCount
<1>3. /\ inpDir' \in InpDirections /\ inpPulses' \in 0..(InpModulus - 1) /\ inpRest' \in 0..3
      /\ inpGlSeen = inpPulses /\ InpEnd = inpRest => InpEnd' = inpRest'
  BY <1>1, InpCountEnd DEF InpMouseCount, InpTypeOK
<1>4. inpGl = "count" /\ inpGl' = "timer" /\ inpGlSeen' = 0
      /\ UNCHANGED <<inpPhase, inpPins, inpRunning, inpTick, inpAvr, inpAvrSeen, inpGlDir,
                    inpDropped, inpKey>>
  BY DEF InpMouseCount
<1>5. 0 \in 0..(InpModulus - 1)
  BY InputsAssumption
<1>6. InpTypeOK'
  BY <1>1, <1>2, <1>3, <1>4, <1>5 DEF InpTypeOK, inpKey
<1>7. InpKnobInv'
  BY <1>1, <1>2, <1>3, <1>4 DEF InpKnobInv
<1>8. InpKeyInv'
  BY <1>1, <1>4 DEF InpKeyInv, inpKey
<1> QED BY <1>6, <1>7, <1>8 DEF InpInv

LEMMA InpMouseTimerInv == InpInv /\ InpMouseTimer => InpInv'
<1> SUFFICES ASSUME InpInv, InpMouseTimer PROVE InpInv'
  OBVIOUS
<1>1. InpTypeOK /\ InpKnobInv /\ InpKeyInv
  BY DEF InpInv
<1>2. /\ inpRaced' \in BOOLEAN
      /\ ~inpRaced' => ~inpRaced /\ inpAvr = "idle"
  BY <1>1, InpNoteRaceValue DEF InpMouseTimer
<1>3. /\ inpRunning' = TRUE /\ inpTick' \in BOOLEAN
      /\ inpTick => inpTick'
      /\ ~inpRunning => inpTick'
      /\ inpRunning /\ ~inpTick => ~inpTick'
  BY <1>1, InpStartTimerValue DEF InpMouseTimer
<1>4. InpTypeOK'
  BY <1>1, <1>2, <1>3 DEF InpTypeOK, InpMouseTimer, InpDirections, inpKey
<1>5. InpKnobInv'
  BY <1>1, <1>2, <1>3 DEF InpKnobInv, InpEnd, InpEndAfter, InpMouseTimer
<1>6. InpKeyInv'
  BY <1>1 DEF InpKeyInv, InpMouseTimer, inpKey
<1> QED BY <1>4, <1>5, <1>6 DEF InpInv

LEMMA InpTimerInv == InpInv /\ InpTimer => InpInv'
<1> SUFFICES ASSUME InpInv, InpTimer PROVE InpInv'
  OBVIOUS
<1>1. InpTypeOK /\ InpKnobInv /\ InpKeyInv
  BY DEF InpInv
<1>2. /\ inpRaced' \in BOOLEAN
      /\ ~inpRaced' => ~inpRaced /\ inpGl = "idle"
  BY <1>1, InpNoteRaceValue DEF InpTimer
<1>3. /\ inpPhase \in 0..3 /\ inpPhase' \in 0..3
      /\ inpPhase' = (inpPhase + (IF inpDir = "CW_CLICK" THEN 1 ELSE 3)) % 4
      /\ inpPulses \in 0..(InpModulus - 1) /\ inpDir' = inpDir /\ inpPulses' = inpPulses
      /\ inpDir \in InpDirections
  BY <1>1 DEF InpTypeOK, InpTimer
<1>4. inpPins' = InpStates[inpPhase'] /\ inpPins' \in (0..1) \X (0..1)
  BY <1>3 DEF InpTimer, InpStates
<1>5. InpEndAfter' = InpEnd
  BY <1>3, InputsAssumption DEF InpEnd, InpEndAfter
<1>6. InpTypeOK'
  BY <1>1, <1>2, <1>3, <1>4 DEF InpTypeOK, InpTimer, inpKey
<1>7. InpKnobInv'
  BY <1>1, <1>2, <1>4, <1>5 DEF InpKnobInv, InpTimer
<1>8. InpKeyInv'
  BY <1>1 DEF InpKeyInv, InpTimer, inpKey
<1> QED BY <1>6, <1>7, <1>8 DEF InpInv

LEMMA InpTimerEndInv == InpInv /\ InpTimerEnd => InpInv'
<1> SUFFICES ASSUME InpInv, InpTimerEnd PROVE InpInv'
  OBVIOUS
<1>1. InpTypeOK /\ InpKnobInv /\ InpKeyInv
  BY DEF InpInv
<1>2. /\ inpRaced' \in BOOLEAN
      /\ ~inpRaced' => ~inpRaced /\ inpGl = "idle"
  BY <1>1, InpNoteRaceValue DEF InpTimerEnd
<1>3. /\ inpAvr = "count" /\ inpAvr' = "idle" /\ inpAvrSeen' = 0
      /\ inpPulses' = (inpAvrSeen + InpModulus - 1) % InpModulus
      /\ UNCHANGED <<inpDir, inpPhase, inpPins, inpGl, inpGlDir, inpGlSeen, inpDropped, inpRest, inpKey>>
  BY DEF InpTimerEnd
<1>4. /\ inpPhase \in 0..3 /\ inpAvrSeen \in 0..(InpModulus - 1) /\ inpDir \in InpDirections
      /\ InpModulus \in Nat /\ InpModulus > 4 /\ InpModulus % 4 = 0
  BY <1>1, InputsAssumption DEF InpTypeOK
<1>5. inpPulses' \in 0..(InpModulus - 1) /\ inpPulses' % 4 = (inpAvrSeen + InpModulus - 1) % 4
  <2>1. inpAvrSeen + InpModulus - 1 \in 0..(2 * InpModulus - 1)
    BY <1>4
  <2> QED BY <1>3, <2>1, InpWrap
<1>6. inpPulses' % 4 = (inpAvrSeen + 3) % 4
  <2>1. InpModulus = 4 * (InpModulus \div 4) /\ InpModulus \div 4 \in Nat
    BY <1>4
  <2>2. PICK m \in Nat : InpModulus = 4 * m
    BY <2>1
  <2>3. inpAvrSeen \in Nat /\ m > 0
    BY <1>4, <2>2
  <2>4. (inpAvrSeen + 4 * m - 1) % 4 = (inpAvrSeen + 3) % 4
    BY <2>3
  <2> QED BY <1>5, <2>2, <2>4
<1>7. inpAvrSeen = inpPulses => InpEnd' = InpEndAfter
  <2>1. inpPulses' \in Nat /\ inpAvrSeen + 3 \in Nat /\ inpPhase \in Nat
    BY <1>4, <1>5
  <2>2. /\ (inpPhase + inpPulses') % 4 = (inpPhase + (inpAvrSeen + 3)) % 4
        /\ (inpPhase + 3 * inpPulses') % 4 = (inpPhase + 3 * (inpAvrSeen + 3)) % 4
    BY <1>6, <2>1, InpMod4
  <2> QED BY <1>3, <2>2 DEF InpEnd, InpEndAfter
<1>8. inpRunning /\ ~inpTick
  BY <1>1, <1>3 DEF InpKnobInv
<1>9. /\ inpRunning' \in BOOLEAN /\ inpTick' \in BOOLEAN /\ (inpRunning' <=> inpTick')
      /\ inpPulses' > 0 => inpRunning'
  <2>1. CASE inpPulses' > 0
    <3>1. inpTick' = TRUE /\ inpRunning' = inpRunning
      BY <2>1 DEF InpTimerEnd
    <3> QED BY <1>1, <1>8, <3>1 DEF InpTypeOK
  <2>2. CASE ~(inpPulses' > 0)
    <3>1. inpRunning' = FALSE /\ inpTick' = inpTick
      BY <2>2 DEF InpTimerEnd
    <3> QED BY <1>1, <1>8, <2>2, <3>1 DEF InpTypeOK
  <2> QED BY <2>1, <2>2
<1>10. 0 \in 0..(InpModulus - 1)
  BY <1>4
<1>11. InpTypeOK'
  BY <1>1, <1>2, <1>3, <1>5, <1>9, <1>10 DEF InpTypeOK, inpKey
<1>12. InpKnobInv'
  BY <1>1, <1>2, <1>3, <1>7, <1>9 DEF InpKnobInv
<1>13. InpKeyInv'
  BY <1>1, <1>3 DEF InpKeyInv, inpKey
<1> QED BY <1>11, <1>12, <1>13 DEF InpInv

LEMMA InpKeyStep ==
  InpInv /\ (InpPush \/ InpMousePush \/ InpReleaseButton \/ InpReleaseTimer) => InpInv'
<1> SUFFICES ASSUME InpInv, InpPush \/ InpMousePush \/ InpReleaseButton \/ InpReleaseTimer
             PROVE  InpInv'
  OBVIOUS
<1>1. InpTypeOK /\ InpKnobInv /\ InpKeyInv
  BY DEF InpInv
<1>2. UNCHANGED inpKnob
  BY DEF InpPush, InpMousePush, InpReleaseButton, InpReleaseTimer
<1>3. inpRelease' \in BOOLEAN /\ inpHeld' \in BOOLEAN /\ inpEarly' \in BOOLEAN /\ inpLost' \in BOOLEAN
  BY <1>1, Zenon DEF InpPush, InpMousePush, InpReleaseButton, InpReleaseTimer, InpTypeOK
<1>4. inpButton' \in 0..1 /\ InpKeyInv'
  <2>1. CASE InpPush
    BY <2>1 DEF InpPush, InpKeyInv
  <2>2. CASE InpMousePush
    BY <1>1, <1>3, <2>2 DEF InpMousePush, InpTypeOK, InpKeyInv
  <2>3. CASE InpReleaseButton
    BY <1>1, <2>3 DEF InpReleaseButton, InpTypeOK, InpKeyInv
  <2>4. CASE InpReleaseTimer
    BY <1>1, <2>4 DEF InpReleaseTimer, InpTypeOK, InpKeyInv
  <2> QED BY <2>1, <2>2, <2>3, <2>4
<1>5. InpTypeOK'
  BY <1>1, <1>2, <1>3, <1>4 DEF InpTypeOK, inpKnob
<1>6. InpKnobInv'
  BY <1>1, <1>2 DEF InpKnobInv, inpKnob, InpEnd, InpEndAfter
<1> QED BY <1>4, <1>5, <1>6 DEF InpInv

\* A reset drops what is registered: the knob is dead from then on if its tick was.
LEMMA InpAvrResetInv == InpInv /\ InpAvrReset => InpInv'
<1> SUFFICES ASSUME InpInv, InpAvrReset PROVE InpInv'
  OBVIOUS
<1>1. InpTypeOK /\ InpKnobInv /\ InpKeyInv
  BY DEF InpInv
<1>2. /\ inpTick' \in BOOLEAN /\ ~inpTick' /\ inpDropped' \in BOOLEAN
      /\ inpDropped' <=> inpDropped \/ inpTick
  BY <1>1, Zenon DEF InpAvrReset, InpTypeOK
<1>3. /\ inpRelease' \in BOOLEAN /\ ~inpRelease' /\ inpEarly' \in BOOLEAN /\ inpLost' \in BOOLEAN
      /\ inpEarly' <=> inpEarly /\ ~inpRelease
      /\ inpLost' <=> inpLost \/ (inpRelease /\ inpButton = 0 /\ ~inpHeld)
  BY <1>1, Zenon DEF InpAvrReset, InpTypeOK
<1>4. inpAvr = "idle"
      /\ UNCHANGED <<inpDir, inpPhase, inpPins, inpPulses, inpRunning, inpAvr, inpAvrSeen, inpGl,
                     inpGlDir, inpGlSeen, inpRest, inpRaced, inpButton, inpHeld>>
  BY DEF InpAvrReset
<1>5. InpTypeOK'
  BY <1>1, <1>2, <1>3, <1>4 DEF InpTypeOK
<1>6. InpKnobInv'
  BY <1>1, <1>2, <1>4 DEF InpKnobInv, InpEnd, InpEndAfter
<1>7. InpKeyInv'
  BY <1>1, <1>3, <1>4 DEF InpKeyInv
<1> QED BY <1>5, <1>6, <1>7 DEF InpInv

LEMMA InpStepInv == InpInv /\ [InpNext]_inpVars => InpInv'
<1>1. InpInv /\ UNCHANGED inpVars => InpInv'
  BY DEF InpInv, inpVars, inpKnob, inpKey, InpTypeOK, InpKnobInv, InpKeyInv, InpEnd, InpEndAfter
<1> QED BY <1>1, InpTwistInv, InpMouseTwistInv, InpMouseCountInv, InpMouseTimerInv, InpTimerInv,
           InpTimerEndInv, InpKeyStep, InpAvrResetInv DEF InpNext

LEMMA InpInvariant == InpSpec => []InpInv
BY InpInitInv, InpStepInv, PTL DEF InpSpec

LEMMA InpInvSettles == InpInv => InpSettles
BY DEF InpInv, InpKnobInv, InpKeyInv, InpSettles

\* The same of a Button, which may be a toggle.
BtnInv ==
  /\ BtnTypeOK
  /\ BtnSettles
  /\ btnHeld /\ btnRelease => btnEarly /\ btnOut = 0
  /\ adcRelease => adcButton # 0
  /\ btnToggle => ~btnRelease

LEMMA BtnInitInv == BtnInit => BtnInv
<1> SUFFICES ASSUME BtnInit PROVE BtnInv
  OBVIOUS
<1>1. btnToggle \in BOOLEAN /\ btnRelease \in BOOLEAN /\ btnHeld \in BOOLEAN /\ btnEarly \in BOOLEAN
      /\ btnLost \in BOOLEAN /\ adcRelease \in BOOLEAN /\ adcLost \in BOOLEAN
  BY Zenon DEF BtnInit
<1>2. btnOut = 0 /\ btnHeld /\ ~btnRelease /\ ~btnLost /\ adcButton = 0 /\ ~adcRelease /\ ~adcLost
  BY DEF BtnInit
<1> QED BY <1>1, <1>2 DEF BtnInv, BtnTypeOK, BtnSettles

LEMMA BtnStepInv == BtnInv /\ [BtnNext]_btnVars => BtnInv'
<1> SUFFICES ASSUME BtnInv, [BtnNext]_btnVars PROVE BtnInv'
  OBVIOUS
<1> USE DEF BtnInv, BtnTypeOK, BtnSettles, btnPin, adcPin
<1>1. CASE BtnPress
  <2>1. btnHeld' = FALSE /\ btnEarly' = FALSE /\ btnLost' = FALSE /\ UNCHANGED <<btnToggle, adcPin>>
    BY <1>1 DEF BtnPress
  <2>2. btnHeld' \in BOOLEAN /\ btnEarly' \in BOOLEAN /\ ~btnHeld' /\ btnLost' \in BOOLEAN /\ ~btnLost'
    BY <2>1, Zenon
  <2>3. CASE btnToggle
    <3>1. btnOut' = 1 - btnOut /\ btnRelease' = FALSE
      BY <1>1, <2>3 DEF BtnPress
    <3>2. btnRelease' \in BOOLEAN /\ ~btnRelease'
      BY <3>1, Zenon
    <3> QED BY <2>1, <2>2, <2>3, <3>1, <3>2
  <2>4. CASE ~btnToggle
    <3>1. btnOut' = 0 /\ btnRelease' = TRUE
      BY <1>1, <2>4 DEF BtnPress
    <3>2. btnRelease' \in BOOLEAN /\ btnRelease'
      BY <3>1, Zenon
    <3> QED BY <2>1, <2>2, <2>4, <3>1, <3>2
  <2> QED BY <2>3, <2>4
<1>2. CASE BtnHold
  <2>1. btnOut' = 0 /\ btnHeld' = TRUE /\ btnEarly' = btnRelease /\ btnLost' = FALSE
        /\ UNCHANGED <<btnToggle, btnRelease, adcPin>>
    BY <1>2 DEF BtnHold
  <2>2. btnHeld' \in BOOLEAN /\ btnHeld' /\ btnLost' \in BOOLEAN /\ ~btnLost'
    BY <2>1, Zenon
  <2> QED BY <2>1, <2>2
<1>3. CASE BtnLetGo
  <2>1. btnOut' = 1 /\ btnHeld' = FALSE /\ btnLost' = FALSE
        /\ UNCHANGED <<btnToggle, btnRelease, btnEarly, adcPin>>
    BY <1>3 DEF BtnLetGo
  <2>2. btnHeld' \in BOOLEAN /\ ~btnHeld' /\ btnLost' \in BOOLEAN /\ ~btnLost'
    BY <2>1, Zenon
  <2> QED BY <2>1, <2>2
<1>4. CASE BtnAutoRelease
  <2>1. btnOut' = 1 /\ btnRelease /\ btnRelease' = FALSE /\ UNCHANGED <<btnToggle, btnHeld, btnEarly, btnLost, adcPin>>
    BY <1>4 DEF BtnAutoRelease
  <2>2. btnRelease' \in BOOLEAN /\ ~btnRelease'
    BY <2>1, Zenon
  <2> QED BY <2>1, <2>2
<1>5. CASE AdcPush
  <2>1. adcButton' \in 1..3 /\ adcRelease' = TRUE /\ adcLost' = FALSE /\ UNCHANGED btnPin
    BY <1>5 DEF AdcPush
  <2>2. adcRelease' \in BOOLEAN /\ adcRelease' /\ adcLost' \in BOOLEAN /\ ~adcLost'
    BY <2>1, Zenon
  <2> QED BY <2>1, <2>2
<1>6. CASE AdcAutoRelease
  <2>1. adcRelease /\ adcButton' = 0 /\ adcRelease' = FALSE /\ UNCHANGED <<adcLost, btnPin>>
    BY <1>6 DEF AdcAutoRelease
  <2>2. adcRelease' \in BOOLEAN /\ ~adcRelease'
    BY <2>1, Zenon
  <2> QED BY <2>1, <2>2
<1>7. CASE BtnAvrReset
  <2>1. UNCHANGED <<btnToggle, btnOut, btnHeld, adcButton>>
    BY <1>7 DEF BtnAvrReset
  <2>2. /\ btnRelease' \in BOOLEAN /\ ~btnRelease' /\ btnEarly' \in BOOLEAN /\ btnLost' \in BOOLEAN
        /\ btnEarly' <=> btnEarly /\ ~btnRelease
        /\ btnLost' <=> btnLost \/ (btnRelease /\ btnOut = 0 /\ ~btnHeld)
    BY <1>7, Zenon DEF BtnAvrReset
  <2>3. /\ adcRelease' \in BOOLEAN /\ ~adcRelease' /\ adcLost' \in BOOLEAN
        /\ adcLost' <=> adcLost \/ adcRelease
    BY <1>7, Zenon DEF BtnAvrReset
  <2> QED BY <2>1, <2>2, <2>3
<1>8. CASE UNCHANGED btnVars
  BY <1>8 DEF btnVars
<1> QED BY <1>1, <1>2, <1>3, <1>4, <1>5, <1>6, <1>7, <1>8 DEF BtnNext

LEMMA BtnInvariant == BtnSpec => []BtnInv
BY BtnInitInv, BtnStepInv, PTL DEF BtnSpec

-----------------------------------------------------------------------------
(***************************************************************************)
(* The multi-material unit and the filament sensor.  The FINDA, the sensor *)
(* and the reset are three invariants of their own.                        *)
(***************************************************************************)
\* The level that the unit's thread is to set.
MmuOwn == IF mmuBranch THEN MmuFinda(mmuArg) ELSE MmuBit(mmuManual)
\* It has set the pin of the automatic branch, and not yet done the rest.
MmuLate == mmuBranch /\ mmuPc \in {"sensor", "store", "value", "raise", "out"}

\* The thread's place goes with the branch it took; the position that OnPulleyFeedIn remembers
\* is the one it was last fed; and while whoever sets the FINDA is alone at it, what it has read
\* is still so, and what it has set is what it read.
MmuFindaInv ==
  /\ mmuPc \in {"look", "again"} => ~mmuBranch
  /\ mmuPc \in {"sensor", "store", "value", "raise"} => mmuBranch
  /\ MmuLate => mmuFed = mmuArg
  /\ mmuSideband => (mmuTold <=> MmuAtSensor(mmuLast)) /\ (~MmuLate => mmuLast = mmuFed)
  /\ MmuPrinterSets => ~mmuAuto
  /\ ~mmuTogether =>
       /\ mmuPc = "idle" \/ ~MmuPrinterSets
       /\ mmuPc \in {"pin", "sensor", "store", "value", "raise", "out"} => mmuGot = MmuOwn
       /\ mmuPc \in {"again", "sensor", "store", "value", "raise", "out"} =>
            mmuPin = MmuOwn /\ (mmuSettled => (mmuBranch <=> mmuAuto))
       /\ irPc = "out" => mmuPin = MmuBit(mmuManual)
       /\ mmuPc = "idle" /\ ~MmuPrinterSets =>
            /\ mmuOut = mmuPin
            /\ mmuSettled => mmuPin = IF mmuAuto THEN MmuFinda(mmuFed) ELSE MmuBit(mmuManual)

\* While whoever raises the sensor is alone at it, the value it has read is still the one of the
\* sensor.
IrInv ==
  /\ ~mmuSideband /\ ~irScript /\ mmuPc \notin {"sensor", "store"} => (irExternal <=> mmuFed = 3)
  /\ ~irTogether =>
       /\ ~IrUnitSets \/ ~IrPrinterSets
       /\ irPc \in {"raise", "read"} => irArg = IrValue(irCurrent, irExternal)
       /\ mmuPc = "raise" => mmuIrArg = IrValue(irCurrent, irExternal)
       /\ ~IrUnitSets /\ ~IrPrinterSets /\ ~irStale => irPin = IrLevel(IrValue(irCurrent, irExternal))

MmuInv == MmuTypeOK /\ MmuFindaInv /\ IrInv /\ (mmuAsked => mmuReset)

LEMMA IrValueType ==
  ASSUME NEW current \in IrStates, NEW external \in BOOLEAN
  PROVE  IrValue(current, external) \in IrValues
<1>1. \A state \in IrStates \ {"AUTO"} : IrVolts[state] \in IrValues
  BY DEF IrValues
<1>2. "v4_FILAMENT" \in IrStates \ {"AUTO"} /\ "v4_NO_FILAMENT" \in IrStates \ {"AUTO"}
  BY DEF IrStates
<1> QED BY <1>1, <1>2 DEF IrValue

LEMMA MmuInitInv == MmuInit => MmuInv
<1> SUFFICES ASSUME MmuInit PROVE MmuInv
  OBVIOUS
<1> USE DEF MmuInit
<1>1. /\ mmuSideband \in BOOLEAN /\ mmuAuto \in BOOLEAN /\ mmuManual \in BOOLEAN /\ mmuTold \in BOOLEAN
      /\ mmuBranch \in BOOLEAN /\ mmuStarted \in BOOLEAN /\ mmuReset \in BOOLEAN
      /\ mmuSettled \in BOOLEAN /\ mmuTogether \in BOOLEAN /\ mmuAsked \in BOOLEAN
      /\ irExternal \in BOOLEAN /\ irRunning \in BOOLEAN
      /\ irStale \in BOOLEAN /\ irTogether \in BOOLEAN /\ irScript \in BOOLEAN
  BY Zenon
<1>2. /\ mmuLast \in MmuPositions /\ mmuPin \in 0..1 /\ mmuOut \in 0..1 /\ mmuGot \in 0..1
      /\ mmuPc = "idle" /\ mmuArg \in MmuPositions /\ mmuLine \in 0..1 /\ mmuFed \in MmuPositions
      /\ irCurrent \in IrStates /\ irPin \in 0..1 /\ irPc = "idle" /\ mmuActs \in Nat
  BY DEF MmuPositions, IrStates
<1>3. mmuIrArg \in IrValues /\ irLast \in IrValues /\ irArg \in IrValues
  BY DEF IrValues
<1>4. MmuTypeOK
  BY <1>1, <1>2, <1>3 DEF MmuTypeOK
<1>5. mmuOut = mmuPin /\ mmuPin = MmuFinda(mmuFed) /\ mmuAuto
  BY DEF MmuFinda
<1>6. ~mmuTold /\ ~MmuAtSensor(mmuLast) /\ ~irExternal /\ mmuFed # 3 /\ ~mmuAsked
      /\ mmuLast = mmuFed /\ irPc = "idle" /\ mmuPc = "idle"
  BY DEF MmuAtSensor
<1>7. irPin = IrLevel(IrValue(irCurrent, irExternal))
  BY <1>6 DEF IrLevel, IrValue, IrVolts, IrStates
<1>8. MmuFindaInv
  BY <1>5, <1>6 DEF MmuFindaInv, MmuLate, MmuPrinterSets
<1>9. IrInv
  BY <1>6, <1>7 DEF IrInv, IrUnitSets, IrPrinterSets
<1> QED BY <1>4, <1>6, <1>8, <1>9 DEF MmuInv

LEMMA MmuPlacesType == MmuPrinterSets \in BOOLEAN /\ IrPrinterSets \in BOOLEAN /\ IrUnitSets \in BOOLEAN
BY DEF MmuPrinterSets, IrPrinterSets, IrUnitSets

\* The unit's steps keep the types.
LEMMA MmuUnitType ==
  ASSUME MmuTypeOK,
         \/ MmuFeedIn \/ MmuFeedManual \/ MmuFeedPin \/ MmuFeedSensor \/ MmuFeedStore \/ MmuFeedValue
         \/ MmuFeedRaise \/ MmuFeedOut \/ MmuResetTurn
  PROVE  MmuTypeOK'
<1> USE DEF mmuReset_, mmuFinda, mmuThread, irSensor
<1>1. CASE MmuFeedIn
  <2>1. mmuBranch' \in BOOLEAN /\ mmuTogether' \in BOOLEAN
    BY <1>1, MmuPlacesType, Zenon DEF MmuFeedIn, MmuTypeOK
  <2>2. mmuPc' \in {"pin", "look"} /\ mmuArg' \in MmuPositions /\ mmuGot' \in 0..1
    BY <1>1 DEF MmuFeedIn, MmuTypeOK, MmuFinda
  <2> QED BY <1>1, <2>1, <2>2 DEF MmuFeedIn, MmuTypeOK
<1>2. CASE MmuFeedManual
  <2>1. mmuGot' \in 0..1 /\ mmuPc' \in {"pin", "out"}
    BY <1>2 DEF MmuFeedManual, MmuBit
  <2> QED BY <1>2, <2>1 DEF MmuFeedManual, MmuTypeOK
<1>3. CASE MmuFeedPin
  <2>1. mmuSettled' \in BOOLEAN
    BY <1>3, Zenon DEF MmuFeedPin
  <2> QED BY <1>3, <2>1 DEF MmuFeedPin, MmuTypeOK
<1>4. CASE MmuFeedSensor
  <2>1. irScript' \in BOOLEAN /\ irTogether' \in BOOLEAN
    BY <1>4, MmuPlacesType, Zenon DEF MmuFeedSensor, MmuTypeOK
  <2>2. mmuPc' \in {"store", "out"}
    BY <1>4 DEF MmuFeedSensor
  <2> QED BY <1>4, <2>1, <2>2 DEF MmuFeedSensor, MmuTypeOK
<1>5. CASE MmuFeedStore
  <2>1. irExternal' \in BOOLEAN /\ irScript' \in BOOLEAN
    BY <1>5, Zenon DEF MmuFeedStore
  <2> QED BY <1>5, <2>1 DEF MmuFeedStore, MmuTypeOK
<1>6. CASE MmuFeedValue
  BY <1>6, IrValueType DEF MmuFeedValue, MmuTypeOK
<1>7. CASE MmuFeedRaise
  <2>1. irStale' \in BOOLEAN
    BY <1>7, Zenon DEF MmuFeedRaise
  <2>2. irPin' \in 0..1 /\ mmuIrArg' \in IrValues
    BY <1>7 DEF MmuFeedRaise, IrLevel, IrValues
  <2> QED BY <1>7, <2>1, <2>2 DEF MmuFeedRaise, MmuTypeOK
<1>8. CASE MmuFeedOut
  <2>1. mmuBranch' \in BOOLEAN
    BY <1>8, Zenon DEF MmuFeedOut
  <2>2. mmuTold' \in BOOLEAN /\ mmuLast' \in MmuPositions
    <3>1. MmuAtSensor(mmuArg) \in BOOLEAN
      BY DEF MmuAtSensor
    <3>2. CASE mmuBranch /\ mmuSideband
      <4>1. mmuLast' = mmuArg /\ mmuTold' = (IF MmuAtSensor(mmuLast) # MmuAtSensor(mmuArg)
                                             THEN MmuAtSensor(mmuArg) ELSE mmuTold)
        BY <1>8, <3>2 DEF MmuFeedOut, MmuTell
      <4>2. mmuTold' \in BOOLEAN
        BY <3>1, <4>1, Zenon DEF MmuTypeOK
      <4> QED BY <4>1, <4>2 DEF MmuTypeOK
    <3>3. CASE ~(mmuBranch /\ mmuSideband)
      BY <1>8, <3>3 DEF MmuFeedOut, MmuTell, MmuTypeOK
    <3> QED BY <3>2, <3>3
  <2>3. mmuArg' \in MmuPositions /\ mmuGot' \in 0..1
    BY <1>8 DEF MmuFeedOut, MmuPositions
  <2> QED BY <1>8, <2>1, <2>2, <2>3 DEF MmuFeedOut, MmuTypeOK
<1>9. CASE MmuResetTurn
  <2>1. mmuReset' \in BOOLEAN /\ mmuAsked' \in BOOLEAN
    BY <1>9, Zenon DEF MmuResetTurn
  <2> QED BY <1>9, <2>1 DEF MmuResetTurn, MmuTypeOK
<1> QED BY <1>1, <1>2, <1>3, <1>4, <1>5, <1>6, <1>7, <1>8, <1>9

LEMMA IrSetType ==
  ASSUME MmuTypeOK, NEW state \in IrStates, IrSet(state)
  PROVE  MmuTypeOK'
<1>1. irStale' \in BOOLEAN /\ irTogether' \in BOOLEAN
  BY MmuPlacesType, Zenon DEF IrSet, MmuTypeOK
<1>2. irCurrent' \in IrStates /\ irPc' \in {irPc, "value"} /\ mmuActs' \in Nat
  BY DEF IrSet, MmuAct, MmuTypeOK
<1> QED BY <1>1, <1>2 DEF IrSet, MmuTypeOK, mmuReset_, mmuFinda, mmuThread, irSensor

\* The printer's steps keep the types.
LEMMA MmuPrinterType ==
  ASSUME MmuTypeOK,
         \/ MmuOnResetIn \/ MmuActToggle \/ MmuToggleFINDA \/ MmuActMode \/ IrActSet \/ IrActToggle
         \/ IrActSetExtVal \/ IrStore \/ IrCurrentValue \/ IrRaise \/ IrADCRead \/ IrADCRaise
  PROVE  MmuTypeOK'
<1> USE DEF mmuReset_, mmuFinda, mmuThread, irSensor
<1>1. CASE MmuOnResetIn
  <2>1. mmuStarted' \in BOOLEAN /\ mmuReset' \in BOOLEAN /\ mmuAsked' \in BOOLEAN
    BY <1>1, Zenon DEF MmuOnResetIn, MmuTypeOK
  <2>2. mmuLine' \in 0..1
    BY <1>1 DEF MmuOnResetIn
  <2> QED BY <1>1, <2>1, <2>2 DEF MmuOnResetIn, MmuTypeOK
<1>2. CASE MmuActToggle
  <2>1. mmuAuto' \in BOOLEAN /\ mmuSettled' \in BOOLEAN /\ mmuTogether' \in BOOLEAN
    BY <1>2, Zenon DEF MmuActToggle, MmuTypeOK
  <2> QED BY <1>2, <2>1 DEF MmuActToggle, MmuAct, MmuTypeOK
<1>3. CASE MmuToggleFINDA
  <2>1. mmuManual' \in BOOLEAN /\ mmuSettled' \in BOOLEAN
    BY <1>3, Zenon DEF MmuToggleFINDA, MmuTypeOK
  <2>2. mmuPin' \in 0..1 /\ mmuOut' \in 0..1 /\ irPc' \in {"pin", "out", "idle"}
    BY <1>3 DEF MmuToggleFINDA, MmuTypeOK, MmuBit
  <2> QED BY <1>3, <2>1, <2>2 DEF MmuToggleFINDA, MmuTypeOK
<1>4. CASE MmuActMode
  <2>1. mmuAuto' \in BOOLEAN /\ mmuSettled' \in BOOLEAN
    BY <1>4, Zenon DEF MmuActMode, MmuTypeOK
  <2> QED BY <1>4, <2>1 DEF MmuActMode, MmuAct, MmuTypeOK
<1>5. CASE IrActSet
  BY <1>5, IrSetType, Mmu2Assumption DEF IrActSet
<1>6. CASE IrActToggle
  <2>1. IrToggled(irCurrent) \in IrStates
    BY DEF IrToggled, IrStates
  <2> QED BY <1>6, <2>1, IrSetType DEF IrActToggle
<1>7. CASE IrActSetExtVal
  <2>1. irTogether' \in BOOLEAN
    BY <1>7, MmuPlacesType, Zenon DEF IrActSetExtVal
  <2>2. irArg' \in IrValues
    BY <1>7 DEF IrActSetExtVal, MmuBit, IrValues
  <2> QED BY <1>7, <2>1, <2>2 DEF IrActSetExtVal, MmuAct, MmuTypeOK
<1>8. CASE IrStore
  <2>1. irExternal' \in BOOLEAN /\ irScript' \in BOOLEAN
    BY <1>8, Zenon DEF IrStore
  <2>2. irArg' \in IrValues
    BY <1>8 DEF IrStore, IrValues
  <2> QED BY <1>8, <2>1, <2>2 DEF IrStore, MmuTypeOK
<1>9. CASE IrCurrentValue
  BY <1>9, IrValueType DEF IrCurrentValue, MmuTypeOK
<1>10. CASE IrRaise
  <2>1. irStale' \in BOOLEAN
    BY <1>10, Zenon DEF IrRaise
  <2>2. irPin' \in 0..1 /\ irArg' \in IrValues
    BY <1>10 DEF IrRaise, IrLevel, IrValues
  <2> QED BY <1>10, <2>1, <2>2 DEF IrRaise, MmuTypeOK
<1>11. CASE IrADCRead
  <2>1. irRunning' \in BOOLEAN /\ irTogether' \in BOOLEAN
    BY <1>11, MmuPlacesType, Zenon DEF IrADCRead, MmuTypeOK
  <2>2. irPc' \in {irPc, "read"} /\ irArg' \in IrValues
    BY <1>11, IrValueType DEF IrADCRead, MmuTypeOK
  <2> QED BY <1>11, <2>1, <2>2 DEF IrADCRead, MmuTypeOK
<1>12. CASE IrADCRaise
  <2>1. irStale' \in BOOLEAN
    BY <1>12, Zenon DEF IrADCRaise
  <2>2. irPin' \in 0..1 /\ irArg' \in IrValues /\ irLast' \in IrValues
    BY <1>12 DEF IrADCRaise, IrLevel, IrValues, MmuTypeOK
  <2> QED BY <1>12, <2>1, <2>2 DEF IrADCRaise, MmuTypeOK
<1> QED BY <1>1, <1>2, <1>3, <1>4, <1>5, <1>6, <1>7, <1>8, <1>9, <1>10, <1>11, <1>12

\* The steps that touch neither the FINDA nor the unit's thread leave its invariant alone, if the
\* printer's thread does not begin to set it.
LEMMA MmuFindaQuiet ==
  ASSUME MmuFindaInv, UNCHANGED <<mmuSideband, mmuFinda, mmuThread>>,
         irPc' = irPc \/ (~MmuPrinterSets /\ irPc' \in {"idle", "store", "value", "raise", "read"})
  PROVE  MmuFindaInv'
BY DEF MmuFindaInv, MmuLate, MmuOwn, MmuPrinterSets, MmuFinda, MmuBit, MmuAtSensor, mmuFinda, mmuThread

\* The steps on the sensor inside the automatic branch leave it alone too.
LEMMA MmuFindaInside ==
  ASSUME MmuFindaInv, UNCHANGED <<mmuSideband, mmuFinda, mmuArg, mmuBranch, mmuGot, irPc>>,
         mmuPc \in {"sensor", "store", "value", "raise"},
         mmuPc' \in {"store", "value", "raise", "out"}
  PROVE  MmuFindaInv'
BY DEF MmuFindaInv, MmuLate, MmuOwn, MmuPrinterSets, MmuFinda, MmuBit, MmuAtSensor, mmuFinda

LEMMA MmuFindaStep ==
  ASSUME MmuTypeOK, MmuFindaInv, MmuNext
  PROVE  MmuFindaInv'
<1> USE DEF MmuLate, MmuOwn, MmuPrinterSets
<1>0. MmuTypeOK /\ MmuFindaInv
  OBVIOUS
<1>1. CASE MmuFeedIn
  <2>1. /\ mmuPc = "idle" /\ (mmuBranch' <=> mmuAuto)
        /\ mmuTogether' <=> irPc \in {"toggle", "pin", "out"}
    BY <1>0, <1>1, Zenon DEF MmuFeedIn, MmuTypeOK
  <2>2. /\ IF mmuAuto THEN mmuPc' = "pin" /\ mmuGot' = MmuFinda(mmuArg') ELSE mmuPc' = "look"
        /\ UNCHANGED <<mmuSideband, irSensor, mmuAuto, mmuManual, mmuLast, mmuPin, mmuOut, mmuTold,
                       mmuFed, mmuSettled>>
    BY <1>1 DEF MmuFeedIn
  <2> QED BY <1>0, <2>1, <2>2 DEF MmuFindaInv, irSensor, MmuAtSensor
<1>2. CASE MmuFeedManual
  BY <1>0, <1>2 DEF MmuFeedManual, MmuFindaInv, mmuFinda, irSensor, MmuAtSensor
<1>3. CASE MmuFeedPin
  <2>1. mmuSettled' => (mmuBranch <=> mmuAuto)
    <3>1. mmuSettled' => mmuBranch = mmuAuto
      BY <1>3, Zenon DEF MmuFeedPin
    <3> QED BY <3>1
  <2>2. /\ mmuPc = "pin" /\ mmuPc' = (IF mmuBranch THEN "sensor" ELSE "again") /\ mmuPin' = mmuGot
        /\ mmuFed' = (IF mmuBranch THEN mmuArg ELSE mmuFed)
        /\ UNCHANGED <<mmuSideband, irSensor, mmuArg, mmuBranch, mmuGot, mmuAuto, mmuManual, mmuLast,
                       mmuOut, mmuTold, mmuTogether>>
    BY <1>3 DEF MmuFeedPin
  <2> QED BY <1>0, <2>1, <2>2 DEF MmuFindaInv, irSensor, MmuAtSensor
<1>4. CASE MmuFeedSensor
  BY <1>0, <1>4, MmuFindaInside DEF MmuFeedSensor
<1>5. CASE MmuFeedStore \/ MmuFeedValue \/ MmuFeedRaise
  BY <1>0, <1>5, MmuFindaInside DEF MmuFeedStore, MmuFeedValue, MmuFeedRaise, irSensor
<1>6. CASE MmuFeedOut
  <2>1. /\ mmuPc = "out" /\ mmuPc' = "idle" /\ mmuOut' = mmuGot
        /\ UNCHANGED <<mmuSideband, irSensor, mmuAuto, mmuManual, mmuPin, mmuFed, mmuSettled, mmuTogether>>
    BY <1>6 DEF MmuFeedOut
  <2>2. mmuSideband => (mmuTold' <=> MmuAtSensor(mmuLast)') /\ mmuLast' = mmuFed
    <3>1. CASE mmuBranch /\ mmuSideband
      <4>1. mmuLast' = mmuArg /\ mmuTold' = (IF MmuAtSensor(mmuLast) # MmuAtSensor(mmuArg)
                                             THEN MmuAtSensor(mmuArg) ELSE mmuTold)
        BY <1>6, <3>1 DEF MmuFeedOut, MmuTell
      <4>2. MmuAtSensor(mmuLast) \in BOOLEAN /\ MmuAtSensor(mmuArg) \in BOOLEAN /\ mmuTold \in BOOLEAN
            /\ (mmuTold <=> MmuAtSensor(mmuLast))
        BY <1>0, <3>1 DEF MmuTypeOK, MmuFindaInv, MmuAtSensor
      <4>3. mmuTold' <=> MmuAtSensor(mmuArg)
        BY <4>1, <4>2, Zenon
      <4>4. MmuAtSensor(mmuLast)' <=> MmuAtSensor(mmuArg)
        BY <4>1 DEF MmuAtSensor
      <4> QED BY <1>0, <2>1, <3>1, <4>1, <4>3, <4>4 DEF MmuFindaInv
    <3>2. CASE ~(mmuBranch /\ mmuSideband)
      BY <1>0, <1>6, <3>2 DEF MmuFeedOut, MmuTell, MmuFindaInv, MmuAtSensor
    <3> QED BY <3>1, <3>2
  <2> QED BY <1>0, <2>1, <2>2 DEF MmuFindaInv, irSensor
<1>7. CASE MmuResetTurn \/ MmuOnResetIn
  BY <1>0, <1>7, MmuFindaQuiet DEF MmuResetTurn, MmuOnResetIn, irSensor
<1>8. CASE MmuActToggle
  <2>1. /\ ~mmuAuto' /\ (mmuTogether' <=> mmuPc # "idle")
        /\ mmuSettled' => mmuSettled /\ ~mmuAuto
    BY <1>0, <1>8, Zenon DEF MmuActToggle, MmuTypeOK
  <2>2. /\ irPc = "idle" /\ irPc' = "toggle"
        /\ UNCHANGED <<mmuSideband, mmuThread, mmuManual, mmuLast, mmuPin, mmuOut, mmuTold, mmuFed>>
    BY <1>8 DEF MmuActToggle, MmuFree
  <2> QED BY <1>0, <2>1, <2>2 DEF MmuFindaInv, mmuThread, MmuAtSensor
<1>9. CASE MmuToggleFINDA
  <2>1. UNCHANGED <<mmuSideband, mmuAuto, mmuLast, mmuTold, mmuFed, mmuTogether, mmuThread>>
    BY <1>9 DEF MmuToggleFINDA
  <2>2. CASE irPc = "toggle"
    <3>1. irPc' = "pin" /\ UNCHANGED <<mmuPin, mmuOut, mmuSettled>>
      BY <1>9, <2>2 DEF MmuToggleFINDA
    <3> QED BY <1>0, <2>1, <2>2, <3>1 DEF MmuFindaInv, mmuThread, MmuAtSensor
  <2>3. CASE irPc = "pin"
    <3>1. irPc' = "out" /\ mmuPin' = MmuBit(mmuManual) /\ UNCHANGED <<mmuManual, mmuOut>>
      BY <1>9, <2>3 DEF MmuToggleFINDA
    <3> QED BY <1>0, <2>1, <2>3, <3>1 DEF MmuFindaInv, mmuThread, MmuAtSensor
  <2>4. CASE irPc = "out"
    <3>1. irPc' = "idle" /\ mmuOut' = MmuBit(mmuManual) /\ UNCHANGED <<mmuManual, mmuPin, mmuSettled>>
      BY <1>9, <2>4 DEF MmuToggleFINDA
    <3> QED BY <1>0, <2>1, <2>4, <3>1 DEF MmuFindaInv, mmuThread, MmuAtSensor
  <2> QED BY <1>9, <2>2, <2>3, <2>4 DEF MmuToggleFINDA
<1>10. CASE MmuActMode
  <2>1. mmuSettled' => mmuSettled /\ (mmuAuto' <=> mmuAuto)
    <3>1. mmuSettled' => mmuSettled /\ mmuAuto' = mmuAuto
      BY <1>10, Zenon DEF MmuActMode
    <3> QED BY <3>1
  <2>2. /\ irPc = "idle" /\ UNCHANGED irPc
        /\ UNCHANGED <<mmuSideband, mmuThread, mmuManual, mmuLast, mmuPin, mmuOut, mmuTold, mmuFed,
                       mmuTogether>>
    BY <1>10 DEF MmuActMode, MmuFree, irSensor
  <2> QED BY <1>0, <2>1, <2>2 DEF MmuFindaInv, mmuThread, MmuAtSensor
<1>11. CASE IrActSet \/ IrActToggle
  <2>1. PICK state : IrSet(state)
    BY <1>11 DEF IrActSet, IrActToggle
  <2>2. UNCHANGED <<mmuSideband, mmuFinda, mmuThread>> /\ irPc = "idle" /\ irPc' \in {"idle", "value"}
    BY <2>1 DEF IrSet, MmuFree
  <2> QED BY <1>0, <2>2, MmuFindaQuiet
<1>12. CASE IrActSetExtVal \/ IrStore \/ IrCurrentValue \/ IrRaise \/ IrADCRead \/ IrADCRaise
  <2>1. UNCHANGED <<mmuSideband, mmuFinda, mmuThread>> /\ irPc \in {"idle", "store", "value", "raise", "read"}
        /\ irPc' \in {"idle", "store", "value", "raise", "read"}
    BY <1>12 DEF IrActSetExtVal, IrStore, IrCurrentValue, IrRaise, IrADCRead, IrADCRaise, MmuFree
  <2> QED BY <1>0, <2>1, MmuFindaQuiet
<1> QED BY <1>1, <1>2, <1>3, <1>4, <1>5, <1>6, <1>7, <1>8, <1>9, <1>10, <1>11, <1>12 DEF MmuNext

\* A step that leaves the sensor, and where the threads are in raising it, leaves its invariant alone.
LEMMA IrQuiet ==
  ASSUME IrInv, UNCHANGED <<mmuSideband, mmuFed, mmuIrArg, irCurrent, irExternal, irPin, irArg, irStale,
                            irTogether, irScript>>,
         irPc' = irPc \/ (~IrPrinterSets /\ ~IrPrinterSets'),
         mmuPc' = mmuPc \/ (~IrUnitSets /\ ~IrUnitSets' /\ mmuPc # "sensor")
  PROVE  IrInv'
BY DEF IrInv, IrPrinterSets, IrUnitSets, IrValue

LEMMA IrSetInv ==
  ASSUME MmuTypeOK, IrInv, NEW state, IrSet(state)
  PROVE  IrInv'
<1> USE DEF IrUnitSets, IrPrinterSets
<1>1. /\ irPc = "idle"
      /\ UNCHANGED <<mmuSideband, mmuFed, mmuThread, irExternal, irPin, irScript>>
  BY DEF IrSet, MmuFree, mmuFinda
<1>2. CASE irRunning
  <2>1. irStale' /\ (~irTogether' => ~irTogether /\ mmuPc \notin {"store", "value", "raise"})
    BY <1>2, Zenon DEF IrSet
  <2>2. UNCHANGED irPc
    BY <1>2 DEF IrSet
  <2> QED BY <1>1, <2>1, <2>2 DEF IrInv, mmuThread
<1>3. CASE ~irRunning
  <2>1. ~irTogether' => mmuPc \notin {"store", "value", "raise"}
    BY <1>3, Zenon DEF IrSet
  <2>2. irPc' = "value"
    BY <1>3 DEF IrSet
  <2> QED BY <1>1, <2>1, <2>2 DEF IrInv, mmuThread
<1> QED BY <1>2, <1>3

LEMMA IrStep ==
  ASSUME MmuTypeOK, MmuFindaInv, IrInv, MmuNext
  PROVE  IrInv'
<1> USE DEF IrUnitSets, IrPrinterSets
<1>0. MmuTypeOK /\ MmuFindaInv /\ IrInv
  OBVIOUS
<1>1. CASE MmuFeedIn \/ MmuFeedManual
  <2>1. /\ UNCHANGED <<mmuSideband, mmuFed, mmuIrArg, irSensor>>
        /\ mmuPc \in {"idle", "look", "again"} /\ mmuPc' \in {"pin", "look", "out"}
    BY <1>1 DEF MmuFeedIn, MmuFeedManual, mmuFinda
  <2> QED BY <1>0, <2>1, IrQuiet DEF irSensor
<1>2. CASE MmuFeedPin
  <2>1. /\ UNCHANGED <<mmuSideband, mmuIrArg, irSensor>> /\ mmuPc = "pin"
        /\ IF mmuBranch THEN mmuPc' = "sensor" ELSE mmuPc' = "again" /\ mmuFed' = mmuFed
    BY <1>2 DEF MmuFeedPin
  <2> QED BY <1>0, <2>1 DEF IrInv, IrValue, irSensor
<1>3. CASE MmuFeedSensor
  <2>1. /\ mmuPc = "sensor" /\ mmuFed = mmuArg
        /\ UNCHANGED <<mmuSideband, mmuFed, mmuIrArg, irCurrent, irExternal, irPin, irPc, irArg, irStale>>
    BY <1>0, <1>3 DEF MmuFeedSensor, mmuFinda, MmuFindaInv, MmuLate
  <2>2. CASE ~mmuSideband /\ irExternal # (mmuArg = 3)
    <3>1. mmuPc' = "store" /\ UNCHANGED irScript
      BY <1>3, <2>2 DEF MmuFeedSensor
    <3>2. ~irTogether' => irPc \notin {"store", "value", "raise", "read"}
      BY <1>3, <2>2, Zenon DEF MmuFeedSensor
    <3> QED BY <1>0, <2>1, <3>1, <3>2 DEF IrInv, IrValue
  <2>3. CASE ~(~mmuSideband /\ irExternal # (mmuArg = 3))
    <3>1. mmuPc' = "out" /\ UNCHANGED irTogether
      BY <1>3, <2>3 DEF MmuFeedSensor
    <3>2. ~mmuSideband => (irExternal <=> mmuArg = 3)
      BY <1>0, <2>3, Zenon DEF MmuTypeOK
    <3> QED BY <1>0, <2>1, <3>1, <3>2 DEF IrInv, IrValue
  <2> QED BY <2>2, <2>3
<1>4. CASE MmuFeedStore
  <2>1. /\ mmuPc = "store" /\ mmuPc' = "value" /\ mmuFed = mmuArg
        /\ UNCHANGED <<mmuSideband, mmuFed, mmuIrArg, irCurrent, irPin, irPc, irArg, irStale, irTogether>>
    BY <1>0, <1>4 DEF MmuFeedStore, mmuFinda, MmuFindaInv, MmuLate
  <2>2. irExternal' <=> mmuArg = 3
    BY <1>4, Zenon DEF MmuFeedStore
  <2> QED BY <1>0, <2>1, <2>2 DEF IrInv
<1>5. CASE MmuFeedValue
  BY <1>0, <1>5 DEF MmuFeedValue, IrInv, IrValue, mmuFinda, irSensor
<1>6. CASE MmuFeedRaise
  BY <1>0, <1>6 DEF MmuFeedRaise, IrInv, IrValue, mmuFinda
<1>7. CASE MmuFeedOut
  <2>1. /\ UNCHANGED <<mmuSideband, mmuFed, mmuIrArg, irSensor>> /\ mmuPc = "out" /\ mmuPc' = "idle"
    BY <1>7 DEF MmuFeedOut
  <2> QED BY <1>0, <2>1, IrQuiet DEF irSensor
<1>8. CASE MmuResetTurn \/ MmuOnResetIn \/ MmuActMode
  <2>1. UNCHANGED <<mmuSideband, mmuFed, mmuThread, irSensor>>
    BY <1>8 DEF MmuResetTurn, MmuOnResetIn, MmuActMode, mmuFinda
  <2> QED BY <1>0, <2>1, IrQuiet DEF irSensor, mmuThread
<1>9. CASE MmuActToggle \/ MmuToggleFINDA
  <2>1. /\ UNCHANGED <<mmuSideband, mmuFed, mmuThread, irCurrent, irExternal, irPin, irArg, irStale,
                       irTogether, irScript>>
        /\ irPc \in {"idle", "toggle", "pin", "out"} /\ irPc' \in {"idle", "toggle", "pin", "out"}
    BY <1>9 DEF MmuActToggle, MmuToggleFINDA, MmuFree
  <2> QED BY <1>0, <2>1, IrQuiet DEF mmuThread
<1>10. CASE IrActSet \/ IrActToggle
  BY <1>0, <1>10, IrSetInv DEF IrActSet, IrActToggle
<1>11. CASE IrActSetExtVal
  <2>1. /\ irPc = "idle" /\ irPc' = "store"
        /\ UNCHANGED <<mmuSideband, mmuFed, mmuThread, irCurrent, irExternal, irPin, irStale, irScript>>
    BY <1>11 DEF IrActSetExtVal, MmuFree, mmuFinda
  <2>2. ~irTogether' => mmuPc \notin {"store", "value", "raise"}
    BY <1>11, Zenon DEF IrActSetExtVal
  <2> QED BY <1>0, <2>1, <2>2 DEF IrInv, mmuThread
<1>12. CASE IrStore
  <2>1. irScript'
    BY <1>12, Zenon DEF IrStore
  <2> QED BY <1>0, <1>12, <2>1 DEF IrStore, IrInv, mmuThread, mmuFinda
<1>13. CASE IrCurrentValue
  BY <1>0, <1>13 DEF IrCurrentValue, IrInv, IrValue, mmuFinda, mmuThread
<1>14. CASE IrRaise
  BY <1>0, <1>14 DEF IrRaise, IrInv, IrValue, mmuFinda, mmuThread
<1>15. CASE IrADCRead
  <2>1. /\ irPc = "idle"
        /\ UNCHANGED <<mmuSideband, mmuFed, mmuThread, irCurrent, irExternal, irPin, irStale, irScript>>
    BY <1>15 DEF IrADCRead, MmuFree, mmuFinda
  <2>2. CASE IrValue(irCurrent, irExternal) = irLast
    <3>1. UNCHANGED <<irPc, irArg, irTogether>>
      BY <1>15, <2>2 DEF IrADCRead
    <3> QED BY <1>0, <2>1, <3>1, IrQuiet DEF mmuThread
  <2>3. CASE IrValue(irCurrent, irExternal) # irLast
    <3>1. irPc' = "read" /\ irArg' = IrValue(irCurrent, irExternal)
      BY <1>15, <2>3 DEF IrADCRead
    <3>2. ~irTogether' => mmuPc \notin {"store", "value", "raise"}
      BY <1>15, <2>3, Zenon DEF IrADCRead
    <3> QED BY <1>0, <2>1, <3>1, <3>2 DEF IrInv, IrValue, mmuThread
  <2> QED BY <2>2, <2>3
<1>16. CASE IrADCRaise
  BY <1>0, <1>16 DEF IrADCRaise, IrInv, IrValue, mmuFinda, mmuThread
<1> QED BY <1>1, <1>2, <1>3, <1>4, <1>5, <1>6, <1>7, <1>8, <1>9, <1>10, <1>11, <1>12, <1>13, <1>14,
           <1>15, <1>16 DEF MmuNext

\* A reset is forgotten only by the turn that makes it.
LEMMA MmuResetStep ==
  ASSUME MmuTypeOK, mmuAsked => mmuReset, MmuNext
  PROVE  (mmuAsked => mmuReset)'
<1>1. CASE MmuOnResetIn \/ MmuResetTurn
  BY <1>1, Zenon DEF MmuOnResetIn, MmuResetTurn, MmuTypeOK
<1>2. CASE \/ MmuFeedIn \/ MmuFeedManual \/ MmuFeedPin \/ MmuFeedSensor \/ MmuFeedStore
           \/ MmuFeedValue \/ MmuFeedRaise \/ MmuFeedOut
  BY <1>2 DEF MmuFeedIn, MmuFeedManual, MmuFeedPin, MmuFeedSensor, MmuFeedStore, MmuFeedValue,
              MmuFeedRaise, MmuFeedOut, mmuReset_
<1>3. CASE \/ MmuActToggle \/ MmuToggleFINDA \/ MmuActMode \/ IrActSet \/ IrActToggle
           \/ IrActSetExtVal \/ IrStore \/ IrCurrentValue \/ IrRaise \/ IrADCRead \/ IrADCRaise
  BY <1>3 DEF MmuActToggle, MmuToggleFINDA, MmuActMode, IrActSet, IrActToggle, IrSet,
              IrActSetExtVal, IrStore, IrCurrentValue, IrRaise, IrADCRead, IrADCRaise, mmuReset_
<1> QED BY <1>1, <1>2, <1>3 DEF MmuNext

LEMMA MmuStepInv == MmuInv /\ [MmuNext]_mmuVars => MmuInv'
<1> SUFFICES ASSUME MmuInv, [MmuNext]_mmuVars PROVE MmuInv'
  OBVIOUS
<1>1. CASE UNCHANGED mmuVars
  BY <1>1 DEF MmuInv, mmuVars, MmuTypeOK, MmuFindaInv, IrInv, mmuReset_, mmuFinda, mmuThread, irSensor,
              MmuLate, MmuOwn, MmuPrinterSets, IrUnitSets, IrPrinterSets, MmuAtSensor, IrValue
<1>2. CASE MmuNext
  <2>1. MmuTypeOK'
    BY <1>2, MmuUnitType, MmuPrinterType DEF MmuInv, MmuNext
  <2> QED BY <1>2, <2>1, MmuFindaStep, IrStep, MmuResetStep DEF MmuInv
<1> QED BY <1>1, <1>2

LEMMA MmuInvariant == MmuSpec => []MmuInv
BY MmuInitInv, MmuStepInv, PTL DEF MmuSpec

LEMMA MmuInvHonest == MmuInv => MmuHonest
<1> SUFFICES ASSUME MmuInv PROVE MmuHonest
  OBVIOUS
<1>1. mmuTold \in BOOLEAN /\ irExternal \in BOOLEAN /\ MmuAtSensor(mmuFed) \in BOOLEAN
  BY DEF MmuInv, MmuTypeOK, MmuAtSensor
<1>2. (mmuTold <=> MmuAtSensor(mmuFed)) => mmuTold = MmuAtSensor(mmuFed)
  BY <1>1
<1>3. (irExternal <=> mmuFed = 3) => irExternal = (mmuFed = 3)
  BY <1>1
<1>4. mmuPc = "idle" => ~MmuLate
  BY DEF MmuLate
<1> QED BY <1>2, <1>3, <1>4 DEF MmuInv, MmuFindaInv, IrInv, MmuHonest

-----------------------------------------------------------------------------
(***************************************************************************)
(* The probe.  Its pin is believed after a move of Z, and of X or Y without a *)
(* steel sheet; the other steps mark it stale.                             *)
(***************************************************************************)
PindaInv == PindaTypeOK /\ PindaHonest

LEMMA PindaTriggersLow ==
  ASSUME NEW x, NEW y, NEW z \in Int
  PROVE  /\ pindaSheet /\ z > 5 => Pin(x, y, z) = 0
         /\ ~pindaSheet /\ z > 9 => Pin(x, y, z) = 0
         /\ Pin(x, y, z) \in 0..1
BY DEF Pin, Triggers

LEMMA PindaInitInv == PindaInit => PindaInv
<1> SUFFICES ASSUME PindaInit PROVE PindaInv
  OBVIOUS
<1>1. (~pindaMK2) \in BOOLEAN /\ pindaMK2 \in BOOLEAN /\ pindaSheet = (~pindaMK2) /\ pindaStale = FALSE
  BY Zenon DEF PindaInit
<1>2. pindaSheet \in BOOLEAN /\ pindaStale \in BOOLEAN /\ (pindaMK2 => ~pindaSheet)
  BY <1>1, Zenon
<1>3. /\ pindaX \in PindaXs /\ pindaY \in PindaYs /\ pindaZ = 10 /\ pindaPin = 0
      /\ pindaMesh \in [Places -> PindaMesh] /\ pindaZone \in [Places -> PindaZones \cup {NoZone}]
  BY DEF PindaInit
<1>4. Pin(pindaX, pindaY, pindaZ) = 0
  BY <1>2, <1>3, PindaTriggersLow
<1>5. PindaTypeOK
  BY <1>1, <1>2, <1>3 DEF PindaTypeOK
<1>6. PindaHonest
  BY <1>2, <1>3, <1>4 DEF PindaHonest
<1> QED BY <1>5, <1>6 DEF PindaInv

\* A look at the place the probe is at.
LEMMA PindaLooks ==
  ASSUME PindaInv, UNCHANGED <<pindaMK2, pindaSheet, pindaBed>>,
         pindaX' \in PindaXs, pindaY' \in PindaYs, pindaZ' \in PindaZs \cup {10},
         pindaPin' = Pin(pindaX', pindaY', pindaZ'), pindaStale' = FALSE
  PROVE  PindaInv'
<1>1. pindaStale' \in BOOLEAN
  BY Zenon
<1>2. pindaZ' \in Int
  BY PindaAssumption
<1>3. Pin(pindaX', pindaY', pindaZ') = Pin(pindaX, pindaY, pindaZ)'
  BY DEF Pin, Triggers, pindaBed
<1>4. PindaTypeOK'
  BY <1>1, <1>2, PindaTriggersLow DEF PindaInv, PindaTypeOK, pindaBed
<1>5. PindaHonest'
  BY <1>2, <1>3, PindaTriggersLow DEF PindaInv, PindaHonest, PindaTypeOK
<1> QED BY <1>4, <1>5 DEF PindaInv

\* A step after which the pin need not be believed.
LEMMA PindaStaleStep ==
  ASSUME PindaInv, PindaTypeOK', pindaStale', UNCHANGED pindaMK2, pindaMK2 => ~pindaSheet'
  PROVE  PindaInv'
BY DEF PindaInv, PindaHonest

LEMMA PindaMoveFlat ==
  ASSUME PindaInv, UNCHANGED <<pindaMK2, pindaSheet, pindaBed, pindaZ>>,
         pindaX' \in PindaXs, pindaY' \in PindaYs,
         pindaPin' = (IF pindaSheet THEN pindaPin ELSE Pin(pindaX', pindaY', pindaZ)),
         pindaStale' = pindaSheet
  PROVE  PindaInv'
<1>1. CASE pindaSheet
  <2>1. pindaStale' /\ pindaPin' = pindaPin /\ pindaStale' \in BOOLEAN /\ pindaSheet' = pindaSheet
    BY <1>1, Zenon DEF PindaInv, PindaTypeOK
  <2>2. PindaTypeOK'
    BY <2>1 DEF PindaInv, PindaTypeOK, pindaBed
  <2> QED BY <2>1, <2>2, PindaStaleStep DEF PindaInv, PindaHonest
<1>2. CASE ~pindaSheet
  <2>1. pindaStale' = FALSE
    BY <1>2, Zenon DEF PindaInv, PindaTypeOK
  <2>2. pindaZ' = pindaZ /\ pindaZ \in PindaZs \cup {10}
    BY DEF PindaInv, PindaTypeOK
  <2>3. pindaPin' = Pin(pindaX', pindaY', pindaZ')
    BY <1>2, <2>2
  <2> QED BY <2>1, <2>2, <2>3, PindaLooks
<1> QED BY <1>1, <1>2

LEMMA PindaStepInv == PindaInv /\ [PindaNext]_pindaVars => PindaInv'
<1> SUFFICES ASSUME PindaInv, [PindaNext]_pindaVars PROVE PindaInv'
  OBVIOUS
<1>0. PindaTypeOK /\ (pindaMK2 => ~pindaSheet)
  BY DEF PindaInv, PindaHonest
<1>1. ASSUME NEW x \in PindaXs, PindaMoveX(x), UNCHANGED <<pindaMK2, pindaSheet, pindaBed>>
      PROVE  PindaInv'
  BY <1>0, <1>1, PindaMoveFlat DEF PindaMoveX, PindaTypeOK
<1>2. ASSUME NEW y \in PindaYs, PindaMoveY(y), UNCHANGED <<pindaMK2, pindaSheet, pindaBed>>
      PROVE  PindaInv'
  BY <1>0, <1>2, PindaMoveFlat DEF PindaMoveY, PindaTypeOK
<1>3. ASSUME NEW z \in PindaZs, PindaMoveZ(z), UNCHANGED <<pindaMK2, pindaSheet, pindaBed>>
      PROVE  PindaInv'
  <2>1. /\ pindaZ' = z /\ pindaX' = pindaX /\ pindaY' = pindaY
        /\ pindaPin' = Pin(pindaX, pindaY, z) /\ pindaStale' = FALSE
    BY <1>3 DEF PindaMoveZ
  <2>2. pindaX \in PindaXs /\ pindaY \in PindaYs
    BY <1>0 DEF PindaTypeOK
  <2> QED BY <1>3, <2>1, <2>2, PindaLooks
<1>4. CASE PindaSetPos
  BY <1>4, PindaLooks DEF PindaSetPos
<1>5. CASE PindaToggleSheet
  <2>1. /\ ~pindaMK2 /\ pindaSheet' = ~pindaSheet /\ pindaStale' = TRUE
        /\ UNCHANGED <<pindaMK2, pindaPos, pindaBed, pindaPin>>
    BY <1>5 DEF PindaToggleSheet
  <2>2. pindaSheet' \in BOOLEAN /\ pindaStale' \in BOOLEAN /\ pindaStale'
    BY <2>1, Zenon
  <2>3. PindaTypeOK'
    BY <1>0, <2>1, <2>2 DEF PindaTypeOK, pindaPos, pindaBed
  <2> QED BY <2>1, <2>2, <2>3, PindaStaleStep
<1>6. CASE PindaSetBed
  <2>1. /\ pindaStale' = TRUE
        /\ UNCHANGED <<pindaMK2, pindaSheet, pindaPos, pindaPin>>
    BY <1>6 DEF PindaSetBed
  <2>2. pindaStale' \in BOOLEAN /\ pindaStale' /\ pindaSheet' = pindaSheet
    BY <2>1, Zenon
  <2>3. pindaMesh' \in [Places -> PindaMesh] /\ pindaZone' \in [Places -> PindaZones \cup {NoZone}]
    BY <1>0, <1>6 DEF PindaSetBed, PindaTypeOK
  <2>4. PindaTypeOK'
    BY <1>0, <2>1, <2>2, <2>3 DEF PindaTypeOK, pindaPos
  <2>5. pindaMK2 => ~pindaSheet'
    BY <1>0, <2>2, Zenon
  <2> QED BY <2>1, <2>2, <2>4, <2>5, PindaStaleStep
<1>7. CASE UNCHANGED pindaVars
  <2>1. PindaTypeOK'
    BY <1>0, <1>7 DEF PindaTypeOK, pindaVars, pindaPos, pindaBed
  <2>2. PindaHonest'
    BY <1>7 DEF PindaInv, PindaHonest, Pin, Triggers, pindaVars, pindaPos, pindaBed
  <2> QED BY <2>1, <2>2 DEF PindaInv
<1> QED BY <1>1, <1>2, <1>3, <1>4, <1>5, <1>6, <1>7 DEF PindaNext, PindaMove

LEMMA PindaInvariant == PindaSpec => []PindaInv
BY PindaInitInv, PindaStepInv, PTL DEF PindaSpec

-----------------------------------------------------------------------------
(***************************************************************************)
(* The filament sensor on its I2C bus.  Where the firmware is in its       *)
(* transaction says which levels the lines have, which bits the device has *)
(* shifted in or out, and what it will do with them.                       *)
(***************************************************************************)
\* The first c bits of a byte.
I2cTop(v, c) == IF c = 8 THEN v ELSE v \div (2 * I2cWeight[8 - c])

\* Before the two steps of a start.
I2cStarting(b) ==
  \/ i2cPc = b + 1 /\ i2cScl = 1 /\ i2cSda = 1
  \/ /\ i2cPc = b + 2 /\ i2cScl = 1 /\ i2cSda = 0
     /\ i2cLine = "Reading" /\ i2cState = "AddrIn" /\ i2cCount = 0 /\ i2cShift = 0

\* Before the first 26 steps of a byte: its bits are shifted in one by one.
I2cSending(b, v, state) ==
  \E k \in 1..26 :
    /\ i2cPc = b + k
    /\ i2cLine = "Reading" /\ i2cState = state
    /\ i2cCount = k \div 3 /\ i2cShift = I2cTop(v, k \div 3)
    /\ i2cScl = (IF k % 3 = 0 THEN 1 ELSE 0)
    /\ k < 25 /\ k % 3 # 1 => i2cSda = I2cBit(v, 7 - (k - 1) \div 3)
    /\ k = 26 => i2cSda = 1

\* Before its last three, the acknowledge: the device has processed it.
I2cAcked(b, state, line) ==
  \E k \in 27..29 :
    /\ i2cPc = b + k
    /\ i2cLine = (IF line = "Writing" /\ k < 29 THEN "WaitForWrite" ELSE line)
    /\ i2cState = state
    /\ i2cCount = 0 /\ i2cShift = 0 /\ i2cSda = 0
    /\ i2cScl = (IF k = 29 THEN 0 ELSE 1)

I2cRefused(b) ==
  \E k \in 27..29 :
    /\ i2cPc = b + k
    /\ i2cLine = "Idle" /\ i2cSda = 1
    /\ i2cScl = (IF k = 29 THEN 0 ELSE 1)
    /\ i2cAck = (IF k = 27 THEN 0 ELSE 1)

\* Before the steps of a read: the byte is shifted out, and taken.
I2cReading(b) ==
  \/ /\ i2cPc = b + 1 /\ i2cScl = 0 /\ i2cLine = "Writing" /\ i2cCount = 0
     /\ i2cGot = 0 /\ i2cShown = I2cNothing
  \/ /\ i2cPc = b + 2 /\ i2cScl = 0 /\ i2cLine = "Writing" /\ i2cCount = 0
     /\ i2cGot = 0 /\ i2cShown = I2cNothing
  \/ \E k \in 2..24 :
       /\ i2cPc = b + 1 + k
       /\ i2cScl = (IF k % 3 = 1 THEN 0 ELSE 1)
       /\ i2cLine = "Writing" /\ i2cCount = 8 - (k + 1) \div 3
       /\ i2cShown \in I2cByte /\ i2cShift = i2cShown
       /\ i2cGot = I2cTop(i2cShown, k \div 3)
       /\ k % 3 = 2 => i2cSda = I2cBit(i2cShown, 8 - (k + 1) \div 3)

\* Before the two steps of a stop.
I2cStopping(b) ==
  \/ /\ i2cPc = b + 1 /\ i2cScl = 0
     /\ i2cLine # "Writing" /\ (i2cLine = "Reading" => i2cCount = 0)
  \/ i2cPc = b + 2 /\ i2cScl = 1

I2cStopped(b) == i2cPc = b + 1 /\ i2cScl = 1 /\ i2cSda = 1

\* Where the firmware is in its transaction on the two lines, and the device with it.
I2cWriteAt ==
  \/ I2cStarting(0)
  \/ I2cSending(2, 2 * I2cAddress, "AddrIn") \/ I2cAcked(2, "RegIn", "Reading")
  \/ I2cSending(31, i2cTx.reg, "RegIn") \/ I2cAcked(31, "DataIn", "Reading")
  \/ I2cSending(60, i2cTx.value, "DataIn") \/ I2cAcked(60, "DataIn", "Reading")
  \/ I2cStopping(89) \/ I2cStopped(91)
I2cReadAt ==
  \/ I2cStarting(0)
  \/ I2cSending(2, 2 * I2cAddress, "AddrIn") \/ I2cAcked(2, "RegIn", "Reading")
  \/ I2cSending(31, i2cTx.reg, "RegIn") \/ I2cAcked(31, "DataIn", "Reading")
  \/ I2cStopping(60) \/ I2cStarting(62)
  \/ I2cSending(64, 2 * I2cAddress + 1, "AddrIn") \/ I2cAcked(64, "AddrIn", "Writing")
  \/ I2cReading(93)
  \/ I2cStopping(118) \/ I2cStopped(120)
I2cOtherAt ==
  \/ I2cStarting(0)
  \/ I2cSending(2, 2 * I2cOther, "AddrIn") \/ I2cRefused(2)
  \/ I2cStopping(89) \/ I2cStopped(91)

\* The same with the TWI hardware.
I2cMessageAt ==
  /\ i2cFlag <=> (i2cTx.address = I2cAddress /\ i2cPc \in 3..(IF i2cTx.kind = "read" THEN 5 ELSE 4))
  /\ i2cTx.address = I2cAddress /\ i2cPc \in (IF i2cTx.kind = "read" THEN 2..5 ELSE 2..4)
       => i2cState = "AddrIn"
  /\ i2cTx.address # I2cAddress => i2cPc \in {1, 4, 5}
  /\ i2cPc \in 1..(IF i2cTx.kind = "read" THEN 6 ELSE 5)

\* The register of the transaction, once it was sent.
I2cSent == IF i2cNative THEN 3 ELSE 58     \* the step before which it was
I2cDone == IF i2cTx.kind = "read" THEN IF i2cNative THEN 5 ELSE 96
                                  ELSE IF i2cNative THEN 4 ELSE 87
I2cTxOK ==
  /\ i2cTx.address = I2cAddress /\ i2cPc \in I2cSent..(I2cDone - 1) => i2cReg = i2cTx.reg
  /\ i2cTx.kind = "read" /\ i2cPc < I2cDone => i2cShown = I2cNothing /\ i2cGot = 0
  /\ i2cTx.kind = "read" /\ i2cPc >= I2cDone => i2cShown \in I2cByte
  /\ i2cTx.kind = "read" /\ i2cPc > Len(I2cCode) - 2 /\ ~i2cNative => i2cGot = i2cShown
  /\ i2cTx.kind = "read" /\ i2cPc >= 5 /\ i2cNative => i2cGot = i2cShown
  /\ i2cTx.address = I2cAddress => i2cAck = 0
  /\ i2cPc <= 28 /\ ~i2cNative => i2cAck = 0

I2cRegs ==
  IF i2cTx # I2cIdle /\ i2cTx.kind = "write" /\ i2cTx.address = I2cAddress /\ i2cPc >= I2cDone
  THEN \A a \in {14, PatBank, 142} : patRaw[a] = PatSet(i2cShadow, i2cTx.reg, i2cTx.value)[a]
  ELSE \A a \in {14, PatBank, 142} : patRaw[a] = i2cShadow[a]

I2cInv ==
  /\ I2cTypeOK /\ patRaw[PatBank] \in 0..1
  /\ PatMotionTold
  /\ I2cRegs
  /\ ~i2cNative => ~i2cFlag
  /\ i2cTx = I2cIdle => i2cPc = 1 /\ ~i2cFlag /\ (~i2cNative => i2cScl = 1 /\ i2cSda = 1)
  /\ i2cTx # I2cIdle =>
       /\ I2cTxOK
       /\ i2cNative => I2cMessageAt
       /\ ~i2cNative => CASE i2cTx.address # I2cAddress -> I2cOtherAt
                          [] i2cTx.kind = "read" -> I2cReadAt
                          [] OTHER -> I2cWriteAt

-----------------------------------------------------------------------------
\* The bits of a byte, the highest first, make the byte.
LEMMA I2cBitsOf ==
  ASSUME NEW v \in I2cByte, NEW c \in 0..7
  PROVE  /\ I2cBit(v, 7 - c) \in 0..1
         /\ I2cTop(v, c) \in I2cByte /\ I2cTop(v, c + 1) \in I2cByte
         /\ (2 * I2cTop(v, c) + I2cBit(v, 7 - c)) % 256 = I2cTop(v, c + 1)
<1>1. /\ I2cWeight[1] = 1 /\ I2cWeight[2] = 2 /\ I2cWeight[3] = 4 /\ I2cWeight[4] = 8
      /\ I2cWeight[5] = 16 /\ I2cWeight[6] = 32 /\ I2cWeight[7] = 64 /\ I2cWeight[8] = 128
  BY DEF I2cWeight
<1>2. CASE c = 0
  <2>1. I2cBit(v, 7 - c) = (v \div 128) % 2
    BY <1>1, <1>2 DEF I2cBit
  <2>2. I2cTop(v, c) = v \div 256 /\ I2cTop(v, c + 1) = v \div 128
    BY <1>1, <1>2 DEF I2cTop
  <2> QED BY <1>2, <2>1, <2>2 DEF I2cByte
<1>3. CASE c = 1
  <2>1. I2cBit(v, 7 - c) = (v \div 64) % 2
    BY <1>1, <1>3 DEF I2cBit
  <2>2. I2cTop(v, c) = v \div 128 /\ I2cTop(v, c + 1) = v \div 64
    BY <1>1, <1>3 DEF I2cTop
  <2> QED BY <1>3, <2>1, <2>2 DEF I2cByte
<1>4. CASE c = 2
  <2>1. I2cBit(v, 7 - c) = (v \div 32) % 2
    BY <1>1, <1>4 DEF I2cBit
  <2>2. I2cTop(v, c) = v \div 64 /\ I2cTop(v, c + 1) = v \div 32
    BY <1>1, <1>4 DEF I2cTop
  <2> QED BY <1>4, <2>1, <2>2 DEF I2cByte
<1>5. CASE c = 3
  <2>1. I2cBit(v, 7 - c) = (v \div 16) % 2
    BY <1>1, <1>5 DEF I2cBit
  <2>2. I2cTop(v, c) = v \div 32 /\ I2cTop(v, c + 1) = v \div 16
    BY <1>1, <1>5 DEF I2cTop
  <2> QED BY <1>5, <2>1, <2>2 DEF I2cByte
<1>6. CASE c = 4
  <2>1. I2cBit(v, 7 - c) = (v \div 8) % 2
    BY <1>1, <1>6 DEF I2cBit
  <2>2. I2cTop(v, c) = v \div 16 /\ I2cTop(v, c + 1) = v \div 8
    BY <1>1, <1>6 DEF I2cTop
  <2> QED BY <1>6, <2>1, <2>2 DEF I2cByte
<1>7. CASE c = 5
  <2>1. I2cBit(v, 7 - c) = (v \div 4) % 2
    BY <1>1, <1>7 DEF I2cBit
  <2>2. I2cTop(v, c) = v \div 8 /\ I2cTop(v, c + 1) = v \div 4
    BY <1>1, <1>7 DEF I2cTop
  <2> QED BY <1>7, <2>1, <2>2 DEF I2cByte
<1>8. CASE c = 6
  <2>1. I2cBit(v, 7 - c) = (v \div 2) % 2
    BY <1>1, <1>8 DEF I2cBit
  <2>2. I2cTop(v, c) = v \div 4 /\ I2cTop(v, c + 1) = v \div 2
    BY <1>1, <1>8 DEF I2cTop
  <2> QED BY <1>8, <2>1, <2>2 DEF I2cByte
<1>9. CASE c = 7
  <2>1. I2cBit(v, 7 - c) = (v \div 1) % 2
    BY <1>1, <1>9 DEF I2cBit
  <2>2. I2cTop(v, c) = v \div 2 /\ I2cTop(v, c + 1) = v
    BY <1>1, <1>9 DEF I2cTop
  <2> QED BY <1>9, <2>1, <2>2 DEF I2cByte
<1> QED BY <1>2, <1>3, <1>4, <1>5, <1>6, <1>7, <1>8, <1>9

LEMMA I2cNoBits ==
  ASSUME NEW v \in I2cByte
  PROVE  I2cTop(v, 0) = 0 /\ I2cTop(v, 8) = v
<1>1. I2cWeight[8] = 128
  BY DEF I2cWeight
<1> QED BY <1>1 DEF I2cTop, I2cByte

\* The transactions there are.
LEMMA I2cTxType ==
  ASSUME NEW tx \in I2cTransactions
  PROVE  /\ tx.kind \in {"read", "write"} /\ tx.reg \in {PatMStatus, PatDYLow, 14, PatBank}
         /\ tx.value \in I2cByte /\ tx.address \in {I2cAddress, I2cOther}
         /\ tx.kind = "read" => tx.address = I2cAddress
         /\ tx.kind = "write" => tx.reg \in {14, PatBank}
         /\ tx # I2cIdle
<1>1. /\ I2cReads \subseteq {PatMStatus, PatDYLow, 14, PatBank}
      /\ \A w \in I2cWrites : w[1] \in {14, PatBank} /\ w[2] \in I2cByte
  BY I2cSensorAssumption
<1>2. CASE tx \in [kind : {"read"}, address : {I2cAddress}, reg : I2cReads, value : {0}]
  BY <1>1, <1>2 DEF I2cByte, I2cIdle
<1>3. CASE tx \in {[kind |-> "write", address |-> I2cAddress, reg |-> w[1], value |-> w[2]] : w \in I2cWrites}
  BY <1>1, <1>3 DEF I2cByte, I2cIdle
<1>4. CASE tx = [kind |-> "write", address |-> I2cOther, reg |-> 14, value |-> 1]
  BY <1>4 DEF I2cByte, I2cIdle
<1> QED BY <1>2, <1>3, <1>4 DEF I2cTransactions

-----------------------------------------------------------------------------
\* The steps of the firmware, one by one.
I2cSteps == [op : {"sda", "scl", "ack", "take", "START", "WRITE", "READ", "STOP"}, v : Int]

LEMMA I2cStepIs ==
  ASSUME NEW op, NEW v
  PROVE  I2cStep(op, v).op = op /\ I2cStep(op, v).v = v
BY DEF I2cStep

\* A sequence after another one.
LEMMA I2cThen ==
  ASSUME NEW p \in Seq(I2cSteps), NEW s \in Seq(I2cSteps)
  PROVE  /\ p \o s \in Seq(I2cSteps) /\ Len(p \o s) = Len(p) + Len(s)
         /\ \A k \in 1..Len(p) : (p \o s)[k] = p[k]
         /\ \A k \in 1..Len(s) : (p \o s)[Len(p) + k] = s[k]
<1>1. \A k \in 1..Len(s) : (p \o s)[Len(p) + k] = s[k]
  OBVIOUS
<1> QED BY <1>1

LEMMA I2cWriteIs ==
  ASSUME NEW v \in I2cByte
  PROVE  /\ I2cWrite(v) \in Seq(I2cSteps) /\ Len(I2cWrite(v)) = 29
         /\ \A k \in 1..24 :
              /\ k % 3 = 1 => I2cWrite(v)[k] = I2cStep("sda", I2cBit(v, 7 - k \div 3))
              /\ k % 3 = 2 => I2cWrite(v)[k] = I2cStep("scl", 1)
              /\ k % 3 = 0 => I2cWrite(v)[k] = I2cStep("scl", 0)
         /\ I2cWrite(v)[25] = I2cStep("sda", 1) /\ I2cWrite(v)[26] = I2cStep("scl", 1)
         /\ I2cWrite(v)[27] = I2cStep("ack", 0) /\ I2cWrite(v)[28] = I2cStep("scl", 0)
         /\ I2cWrite(v)[29] = I2cStep("sda", 0)
<1> DEFINE e(k) == CASE k % 3 = 1 -> I2cStep("sda", I2cBit(v, 7 - k \div 3))
                     [] k % 3 = 2 -> I2cStep("scl", 1) [] OTHER -> I2cStep("scl", 0)
           s == [k \in 1..24 |-> e(k)]
           t == <<I2cStep("sda", 1), I2cStep("scl", 1), I2cStep("ack", 0), I2cStep("scl", 0),
                  I2cStep("sda", 0)>>
<1>1. \A k \in 1..24 : e(k) \in I2cSteps
  <2> SUFFICES ASSUME NEW k \in 1..24 PROVE e(k) \in I2cSteps
    OBVIOUS
  <2>1. CASE k % 3 = 1
    <3>1. k \div 3 \in 0..7
      BY <2>1
    <3>2. I2cBit(v, 7 - k \div 3) \in Int
      BY <3>1, I2cBitsOf
    <3> QED BY <2>1, <3>2 DEF I2cStep, I2cSteps
  <2>2. CASE k % 3 # 1
    BY <2>2 DEF I2cStep, I2cSteps
  <2> QED BY <2>1, <2>2
<1>2. t \in Seq(I2cSteps)
  BY DEF I2cStep, I2cSteps
<1> HIDE DEF e
<1>3. s \in Seq(I2cSteps)
  BY <1>1, IsASeq
<1>4. \A k \in 1..24 : s[k] = e(k)
  OBVIOUS
<1>5. /\ t[1] = I2cStep("sda", 1) /\ t[2] = I2cStep("scl", 1) /\ t[3] = I2cStep("ack", 0)
      /\ t[4] = I2cStep("scl", 0) /\ t[5] = I2cStep("sda", 0)
  OBVIOUS
<1>6. I2cWrite(v) = s \o t
  BY DEF I2cWrite, e
<1> HIDE DEF s, t
<1> DEFINE q == s \o t
<1>7. /\ q \in Seq(I2cSteps) /\ Len(q) = Len(s) + Len(t)
      /\ \A k \in 1..Len(s) : q[k] = s[k]
      /\ \A k \in 1..Len(t) : q[Len(s) + k] = t[k]
  BY <1>2, <1>3, I2cThen
<1>8. Len(s) = 24 /\ Len(t) = 5
  BY DEF s, t
<1> HIDE DEF q
<1>9. \A k \in 1..24 : q[k] = e(k)
  BY <1>4, <1>7, <1>8
<1>10. /\ q[25] = t[1] /\ q[26] = t[2] /\ q[27] = t[3] /\ q[28] = t[4] /\ q[29] = t[5]
  <2>1. \A k \in 1..5 : q[24 + k] = t[k]
    BY <1>7, <1>8
  <2> QED BY <2>1
<1>11. Len(q) = 29
  BY <1>7, <1>8
<1>12. ASSUME NEW k \in 1..24
       PROVE  /\ k % 3 = 1 => e(k) = I2cStep("sda", I2cBit(v, 7 - k \div 3))
              /\ k % 3 = 2 => e(k) = I2cStep("scl", 1)
              /\ k % 3 = 0 => e(k) = I2cStep("scl", 0)
  BY DEF e
<1> QED BY <1>5, <1>6, <1>7, <1>9, <1>10, <1>11, <1>12 DEF q

LEMMA I2cReadIs ==
  /\ I2cRead \in Seq(I2cSteps) /\ Len(I2cRead) = 25
  /\ I2cRead[1] = I2cStep("sda", 1)
  /\ \A k \in 1..24 :
       /\ k % 3 = 1 => I2cRead[k + 1] = I2cStep("scl", 1)
       /\ k % 3 = 2 => I2cRead[k + 1] = I2cStep("take", 0)
       /\ k % 3 = 0 => I2cRead[k + 1] = I2cStep("scl", 0)
<1> DEFINE e(k) == CASE k % 3 = 1 -> I2cStep("scl", 1)
                     [] k % 3 = 2 -> I2cStep("take", 0) [] OTHER -> I2cStep("scl", 0)
           s == [k \in 1..24 |-> e(k)]
           t == <<I2cStep("sda", 1)>>
<1>1. \A k \in 1..24 : e(k) \in I2cSteps
  BY DEF I2cStep, I2cSteps
<1>2. t \in Seq(I2cSteps)
  BY DEF I2cStep, I2cSteps
<1> HIDE DEF e
<1>3. s \in Seq(I2cSteps)
  BY <1>1, IsASeq
<1>4. \A k \in 1..24 : s[k] = e(k)
  OBVIOUS
<1>5. I2cRead = t \o s
  BY DEF I2cRead, e
<1> HIDE DEF s, t
<1> DEFINE q == t \o s
<1>6. /\ q \in Seq(I2cSteps) /\ Len(q) = Len(t) + Len(s)
      /\ \A k \in 1..Len(t) : q[k] = t[k]
      /\ \A k \in 1..Len(s) : q[Len(t) + k] = s[k]
  BY <1>2, <1>3, I2cThen
<1>7. Len(s) = 24 /\ Len(t) = 1 /\ t[1] = I2cStep("sda", 1)
  BY DEF s, t
<1> HIDE DEF q
<1>8. ASSUME NEW k \in 1..24 PROVE q[k + 1] = e(k)
  <2>1. q[1 + k] = s[k]
    BY <1>6, <1>7
  <2> QED BY <1>4, <2>1
<1>9. q[1] = I2cStep("sda", 1) /\ Len(q) = 25
  BY <1>6, <1>7
<1>10. ASSUME NEW k \in 1..24
       PROVE  /\ k % 3 = 1 => e(k) = I2cStep("scl", 1)
              /\ k % 3 = 2 => e(k) = I2cStep("take", 0)
              /\ k % 3 = 0 => e(k) = I2cStep("scl", 0)
  BY DEF e
<1> QED BY <1>5, <1>6, <1>8, <1>9, <1>10 DEF q

LEMMA I2cShortIs ==
  /\ I2cStart \in Seq(I2cSteps) /\ Len(I2cStart) = 2
  /\ I2cStart[1] = I2cStep("sda", 0) /\ I2cStart[2] = I2cStep("scl", 0)
  /\ I2cStop \in Seq(I2cSteps) /\ Len(I2cStop) = 2
  /\ I2cStop[1] = I2cStep("scl", 1) /\ I2cStop[2] = I2cStep("sda", 1)
BY DEF I2cStart, I2cStop, I2cStep, I2cSteps

LEMMA I2cWriteCode ==
  ASSUME NEW tx \in I2cTransactions, tx.kind = "write"
  PROVE  LET p == I2cProgram(FALSE, tx) IN
         /\ Len(p) = 91
         /\ \A k \in 1..2 : p[k] = I2cStart[k] /\ p[89 + k] = I2cStop[k]
         /\ \A k \in 1..29 : /\ p[2 + k] = I2cWrite(2 * tx.address)[k]
                             /\ p[31 + k] = I2cWrite(tx.reg)[k]
                             /\ p[60 + k] = I2cWrite(tx.value)[k]
<1>1. tx.reg \in I2cByte /\ tx.value \in I2cByte /\ 2 * tx.address \in I2cByte
  BY I2cTxType, I2cSensorAssumption DEF I2cByte, PatMStatus, PatDYLow, PatBank, I2cAddress
<1> DEFINE A == I2cWrite(2 * tx.address)
           R == I2cWrite(tx.reg)
           V == I2cWrite(tx.value)
           p1 == I2cStart \o A
           p2 == p1 \o R
           p3 == p2 \o V
           p4 == p3 \o I2cStop
<1>2. /\ I2cStart \in Seq(I2cSteps)
      /\ A \in Seq(I2cSteps)
      /\ R \in Seq(I2cSteps)
      /\ V \in Seq(I2cSteps)
      /\ I2cStop \in Seq(I2cSteps)
  BY <1>1, I2cWriteIs, I2cShortIs
<1>3. /\ Len(I2cStart) = 2
      /\ Len(A) = 29
      /\ Len(R) = 29
      /\ Len(V) = 29
      /\ Len(I2cStop) = 2
  BY <1>1, I2cWriteIs, I2cShortIs
<1>4. I2cProgram(FALSE, tx) = p4
  BY DEF I2cProgram
<1> HIDE DEF A, R, V
<1>5. /\ p1 \in Seq(I2cSteps) /\ Len(p1) = Len(I2cStart) + Len(A)
      /\ \A k \in 1..Len(I2cStart) : p1[k] = I2cStart[k]
      /\ \A k \in 1..Len(A) : p1[Len(I2cStart) + k] = A[k]
  BY <1>2, I2cThen
<1> HIDE DEF p1
<1>6. Len(p1) = 31
  BY <1>3, <1>5
<1>7. /\ \A k \in 1..2 : p1[k] = I2cStart[k]
      /\ \A k \in 1..29 : p1[2 + k] = A[k]
  BY <1>3, <1>5
<1>8. /\ p2 \in Seq(I2cSteps) /\ Len(p2) = Len(p1) + Len(R)
      /\ \A k \in 1..Len(p1) : p2[k] = p1[k]
      /\ \A k \in 1..Len(R) : p2[Len(p1) + k] = R[k]
  BY <1>2, <1>5, I2cThen
<1> HIDE DEF p2
<1>9. Len(p2) = 60
  BY <1>3, <1>8, <1>6
<1>10. /\ \A k \in 1..31 : p2[k] = p1[k]
       /\ \A k \in 1..29 : p2[31 + k] = R[k]
  BY <1>3, <1>8, <1>6
<1>11. /\ p3 \in Seq(I2cSteps) /\ Len(p3) = Len(p2) + Len(V)
       /\ \A k \in 1..Len(p2) : p3[k] = p2[k]
       /\ \A k \in 1..Len(V) : p3[Len(p2) + k] = V[k]
  BY <1>2, <1>8, I2cThen
<1> HIDE DEF p3
<1>12. Len(p3) = 89
  BY <1>3, <1>11, <1>9
<1>13. /\ \A k \in 1..60 : p3[k] = p2[k]
       /\ \A k \in 1..29 : p3[60 + k] = V[k]
  BY <1>3, <1>11, <1>9
<1>14. /\ p4 \in Seq(I2cSteps) /\ Len(p4) = Len(p3) + Len(I2cStop)
       /\ \A k \in 1..Len(p3) : p4[k] = p3[k]
       /\ \A k \in 1..Len(I2cStop) : p4[Len(p3) + k] = I2cStop[k]
  BY <1>2, <1>11, I2cThen
<1> HIDE DEF p4
<1>15. Len(p4) = 91
  BY <1>3, <1>14, <1>12
<1>16. /\ \A k \in 1..89 : p4[k] = p3[k]
       /\ \A k \in 1..2 : p4[89 + k] = I2cStop[k]
  BY <1>3, <1>14, <1>12
<1>17. \A k \in 1..2 : p4[k] = I2cStart[k] /\ p4[89 + k] = I2cStop[k]
  BY <1>7, <1>10, <1>13, <1>16
<1>18. ASSUME NEW k \in 1..29
       PROVE  p4[2 + k] = A[k] /\ p4[31 + k] = R[k] /\ p4[60 + k] = V[k]
  <2>1. 2 + k \in 1..31 /\ 2 + k \in 1..60 /\ 2 + k \in 1..89
    OBVIOUS
  <2>2. 31 + k \in 1..60 /\ 31 + k \in 1..89 /\ 60 + k \in 1..89
    OBVIOUS
  <2> QED BY <1>7, <1>10, <1>13, <1>16, <2>1, <2>2
<1> QED BY <1>4, <1>15, <1>17, <1>18 DEF A, R, V

LEMMA I2cReadCode ==
  ASSUME NEW tx \in I2cTransactions, tx.kind = "read"
  PROVE  LET p == I2cProgram(FALSE, tx) IN
         /\ Len(p) = 120
         /\ \A k \in 1..2 : /\ p[k] = I2cStart[k] /\ p[60 + k] = I2cStop[k]
                            /\ p[62 + k] = I2cStart[k] /\ p[118 + k] = I2cStop[k]
         /\ \A k \in 1..29 : /\ p[2 + k] = I2cWrite(2 * tx.address)[k]
                             /\ p[31 + k] = I2cWrite(tx.reg)[k]
                             /\ p[64 + k] = I2cWrite(2 * tx.address + 1)[k]
         /\ \A k \in 1..25 : p[93 + k] = I2cRead[k]
<1>1. tx.reg \in I2cByte /\ 2 * tx.address \in I2cByte /\ 2 * tx.address + 1 \in I2cByte
  BY I2cTxType, I2cSensorAssumption DEF I2cByte, PatMStatus, PatDYLow, PatBank, I2cAddress
<1> DEFINE A == I2cWrite(2 * tx.address)
           R == I2cWrite(tx.reg)
           B == I2cWrite(2 * tx.address + 1)
           p1 == I2cStart \o A
           p2 == p1 \o R
           p3 == p2 \o I2cStop
           p4 == p3 \o I2cStart
           p5 == p4 \o B
           p6 == p5 \o I2cRead
           p7 == p6 \o I2cStop
<1>2. /\ I2cStart \in Seq(I2cSteps)
      /\ A \in Seq(I2cSteps)
      /\ R \in Seq(I2cSteps)
      /\ I2cStop \in Seq(I2cSteps)
      /\ B \in Seq(I2cSteps)
      /\ I2cRead \in Seq(I2cSteps)
  BY <1>1, I2cWriteIs, I2cShortIs, I2cReadIs
<1>3. /\ Len(I2cStart) = 2
      /\ Len(A) = 29
      /\ Len(R) = 29
      /\ Len(I2cStop) = 2
      /\ Len(B) = 29
      /\ Len(I2cRead) = 25
  BY <1>1, I2cWriteIs, I2cShortIs, I2cReadIs
<1>4. I2cProgram(FALSE, tx) = p7
  BY DEF I2cProgram
<1> HIDE DEF A, R, B
<1>5. /\ p1 \in Seq(I2cSteps) /\ Len(p1) = Len(I2cStart) + Len(A)
      /\ \A k \in 1..Len(I2cStart) : p1[k] = I2cStart[k]
      /\ \A k \in 1..Len(A) : p1[Len(I2cStart) + k] = A[k]
  BY <1>2, I2cThen
<1> HIDE DEF p1
<1>6. Len(p1) = 31
  BY <1>3, <1>5
<1>7. /\ \A k \in 1..2 : p1[k] = I2cStart[k]
      /\ \A k \in 1..29 : p1[2 + k] = A[k]
  BY <1>3, <1>5
<1>8. /\ p2 \in Seq(I2cSteps) /\ Len(p2) = Len(p1) + Len(R)
      /\ \A k \in 1..Len(p1) : p2[k] = p1[k]
      /\ \A k \in 1..Len(R) : p2[Len(p1) + k] = R[k]
  BY <1>2, <1>5, I2cThen
<1> HIDE DEF p2
<1>9. Len(p2) = 60
  BY <1>3, <1>8, <1>6
<1>10. /\ \A k \in 1..31 : p2[k] = p1[k]
       /\ \A k \in 1..29 : p2[31 + k] = R[k]
  BY <1>3, <1>8, <1>6
<1>11. /\ p3 \in Seq(I2cSteps) /\ Len(p3) = Len(p2) + Len(I2cStop)
       /\ \A k \in 1..Len(p2) : p3[k] = p2[k]
       /\ \A k \in 1..Len(I2cStop) : p3[Len(p2) + k] = I2cStop[k]
  BY <1>2, <1>8, I2cThen
<1> HIDE DEF p3
<1>12. Len(p3) = 62
  BY <1>3, <1>11, <1>9
<1>13. /\ \A k \in 1..60 : p3[k] = p2[k]
       /\ \A k \in 1..2 : p3[60 + k] = I2cStop[k]
  BY <1>3, <1>11, <1>9
<1>14. /\ p4 \in Seq(I2cSteps) /\ Len(p4) = Len(p3) + Len(I2cStart)
       /\ \A k \in 1..Len(p3) : p4[k] = p3[k]
       /\ \A k \in 1..Len(I2cStart) : p4[Len(p3) + k] = I2cStart[k]
  BY <1>2, <1>11, I2cThen
<1> HIDE DEF p4
<1>15. Len(p4) = 64
  BY <1>3, <1>14, <1>12
<1>16. /\ \A k \in 1..62 : p4[k] = p3[k]
       /\ \A k \in 1..2 : p4[62 + k] = I2cStart[k]
  BY <1>3, <1>14, <1>12
<1>17. /\ p5 \in Seq(I2cSteps) /\ Len(p5) = Len(p4) + Len(B)
       /\ \A k \in 1..Len(p4) : p5[k] = p4[k]
       /\ \A k \in 1..Len(B) : p5[Len(p4) + k] = B[k]
  BY <1>2, <1>14, I2cThen
<1> HIDE DEF p5
<1>18. Len(p5) = 93
  BY <1>3, <1>17, <1>15
<1>19. /\ \A k \in 1..64 : p5[k] = p4[k]
       /\ \A k \in 1..29 : p5[64 + k] = B[k]
  BY <1>3, <1>17, <1>15
<1>20. /\ p6 \in Seq(I2cSteps) /\ Len(p6) = Len(p5) + Len(I2cRead)
       /\ \A k \in 1..Len(p5) : p6[k] = p5[k]
       /\ \A k \in 1..Len(I2cRead) : p6[Len(p5) + k] = I2cRead[k]
  BY <1>2, <1>17, I2cThen
<1> HIDE DEF p6
<1>21. Len(p6) = 118
  BY <1>3, <1>20, <1>18
<1>22. /\ \A k \in 1..93 : p6[k] = p5[k]
       /\ \A k \in 1..25 : p6[93 + k] = I2cRead[k]
  BY <1>3, <1>20, <1>18
<1>23. /\ p7 \in Seq(I2cSteps) /\ Len(p7) = Len(p6) + Len(I2cStop)
       /\ \A k \in 1..Len(p6) : p7[k] = p6[k]
       /\ \A k \in 1..Len(I2cStop) : p7[Len(p6) + k] = I2cStop[k]
  BY <1>2, <1>20, I2cThen
<1> HIDE DEF p7
<1>24. Len(p7) = 120
  BY <1>3, <1>23, <1>21
<1>25. /\ \A k \in 1..118 : p7[k] = p6[k]
       /\ \A k \in 1..2 : p7[118 + k] = I2cStop[k]
  BY <1>3, <1>23, <1>21
<1>26. /\ \A k \in 1..60 : p7[k] = p2[k]
       /\ \A k \in 1..62 : p7[k] = p3[k]
       /\ \A k \in 1..64 : p7[k] = p4[k]
       /\ \A k \in 1..93 : p7[k] = p5[k]
  BY <1>13, <1>16, <1>19, <1>22, <1>25
<1>27. \A k \in 1..2 : /\ p7[k] = I2cStart[k] /\ p7[60 + k] = I2cStop[k]
                       /\ p7[62 + k] = I2cStart[k] /\ p7[118 + k] = I2cStop[k]
  BY <1>7, <1>10, <1>13, <1>16, <1>25, <1>26
<1>28. ASSUME NEW k \in 1..29
       PROVE  p7[2 + k] = A[k] /\ p7[31 + k] = R[k] /\ p7[64 + k] = B[k]
  <2>1. 2 + k \in 1..31 /\ 2 + k \in 1..60 /\ 31 + k \in 1..60 /\ 64 + k \in 1..93
    OBVIOUS
  <2> QED BY <1>7, <1>10, <1>19, <1>26, <2>1
<1>29. ASSUME NEW k \in 1..25 PROVE p7[93 + k] = I2cRead[k]
  <2>1. 93 + k \in 1..118
    OBVIOUS
  <2> QED BY <1>22, <1>25, <2>1
<1> QED BY <1>4, <1>24, <1>27, <1>28, <1>29 DEF A, R, B

LEMMA I2cNativeCode ==
  ASSUME NEW tx \in I2cTransactions
  PROVE  LET p == I2cProgram(TRUE, tx) IN
         /\ p[1] = I2cStep("START", tx.address) /\ p[2] = I2cStep("WRITE", tx.reg)
         /\ tx.kind = "read" => /\ Len(p) = 5 /\ p[3] = I2cStep("START", tx.address)
                                /\ p[4] = I2cStep("READ", 0) /\ p[5] = I2cStep("STOP", 0)
         /\ tx.kind = "write" => /\ Len(p) = 4 /\ p[3] = I2cStep("WRITE", tx.value)
                                 /\ p[4] = I2cStep("STOP", 0)
<1>1. CASE tx.kind = "read"
  BY <1>1 DEF I2cProgram
<1>2. CASE tx.kind = "write"
  BY <1>2 DEF I2cProgram
<1> QED BY <1>1, <1>2, I2cTxType

LEMMA I2cCodeIs ==
  ASSUME i2cTx \in I2cTransactions, i2cNative \in BOOLEAN
  PROVE  I2cCode = IF i2cNative THEN I2cProgram(TRUE, i2cTx) ELSE I2cProgram(FALSE, i2cTx)
<1>1. I2cCode = I2cProgram(i2cNative, i2cTx)
  BY DEF I2cCode, I2cPrograms
<1>2. CASE i2cNative = TRUE
  BY <1>1, <1>2
<1>3. CASE i2cNative = FALSE
  BY <1>1, <1>3
<1> QED BY <1>2, <1>3

-----------------------------------------------------------------------------
\* One step of the firmware on a line.
I2cCalm == UNCHANGED <<patMotion, i2cShown, i2cReg, i2cFlag, i2cGot, i2cAck>>

LEMMA I2cSdaStep ==
  ASSUME I2cTypeOK, NEW v \in 0..1, I2cLineStep(I2cStep("sda", v))
  PROVE  /\ i2cSda' = v /\ i2cScl' = i2cScl /\ I2cCalm
         /\ i2cScl = 0 => UNCHANGED <<i2cLine, i2cState, i2cCount, i2cShift>>
         /\ i2cScl = 1 /\ i2cSda = 1 /\ v = 0 =>
              i2cLine' = "Reading" /\ i2cState' = "AddrIn" /\ i2cCount' = 0 /\ i2cShift' = 0
         /\ i2cScl = 1 /\ v = 1 =>
              /\ i2cLine' \in {"Idle", i2cLine}
              /\ UNCHANGED <<i2cState, i2cCount, i2cShift>>
<1> DEFINE s == I2cStep("sda", v)
<1>1. s.op = "sda" /\ s.v = v
  BY I2cStepIs
<1> HIDE DEF s
<1>2. i2cScl \in 0..1 /\ i2cSda \in 0..1
  BY DEF I2cTypeOK
<1>3. /\ i2cSda' = v /\ i2cScl' = i2cScl /\ i2cGot' = i2cGot /\ i2cAck' = i2cAck /\ i2cFlag' = i2cFlag
      /\ IF v = i2cSda THEN UNCHANGED i2cDevice /\ I2cQuiet ELSE I2cSdaChanges(v)
  <2>1. I2cLineStep(s)
    BY DEF s
  <2> QED BY <1>1, <2>1 DEF I2cLineStep
<1>4. CASE v = i2cSda
  BY <1>2, <1>3, <1>4 DEF i2cDevice, I2cQuiet, I2cCalm
<1>5. CASE v # i2cSda
  <2>1. I2cSdaChanges(v)
    BY <1>3, <1>5
  <2>2. i2cReg' = i2cReg /\ I2cQuiet
    BY <2>1 DEF I2cSdaChanges
  <2>3. I2cCalm
    BY <1>3, <2>2 DEF I2cQuiet, I2cCalm
  <2>4. CASE i2cScl = 0
    BY <1>3, <2>1, <2>3, <2>4 DEF I2cSdaChanges
  <2>5. CASE i2cScl = 1 /\ v = 1
    BY <1>3, <2>1, <2>3, <2>5 DEF I2cSdaChanges
  <2>6. CASE i2cScl = 1 /\ v = 0
    BY <1>3, <2>1, <2>3, <2>6 DEF I2cSdaChanges
  <2> QED BY <1>2, <2>4, <2>5, <2>6
<1> QED BY <1>4, <1>5

LEMMA I2cSclStep ==
  ASSUME I2cTypeOK, NEW v \in 0..1, I2cLineStep(I2cStep("scl", v)), i2cScl = 1 - v
  PROVE  /\ i2cScl' = v /\ UNCHANGED <<i2cFlag, i2cGot, i2cAck>>
         /\ IF v = 1 THEN I2cRise ELSE I2cFall
<1> DEFINE s == I2cStep("scl", v)
<1>1. s.op = "scl" /\ s.v = v
  BY I2cStepIs
<1> HIDE DEF s
<1>2. I2cLineStep(s)
  BY DEF s
<1>3. /\ i2cScl' = v /\ UNCHANGED <<i2cFlag, i2cGot, i2cAck>>
      /\ CASE v = i2cScl -> UNCHANGED <<i2cDevice, i2cSda>> /\ I2cQuiet
           [] v = 1 /\ i2cScl = 0 -> I2cRise
           [] OTHER -> I2cFall
  BY <1>1, <1>2 DEF I2cLineStep
<1>4. CASE v = 1
  BY <1>3, <1>4
<1>5. CASE v = 0
  BY <1>3, <1>5
<1> QED BY <1>4, <1>5

LEMMA I2cLookStep ==
  ASSUME NEW op \in {"ack", "take"}, I2cLineStep(I2cStep(op, 0))
  PROVE  /\ UNCHANGED <<i2cDevice, i2cLines, patMotion, i2cShown>>
         /\ op = "ack" => i2cAck' = i2cSda /\ i2cGot' = i2cGot
         /\ op = "take" => i2cGot' = (2 * i2cGot + i2cSda) % 256 /\ i2cAck' = i2cAck
<1> DEFINE s == I2cStep(op, 0)
<1>1. s.op = op
  BY I2cStepIs
<1> HIDE DEF s
<1>2. I2cLineStep(s)
  BY DEF s
<1>3. UNCHANGED i2cFlag
  BY <1>2 DEF I2cLineStep
<1>4. CASE op = "ack"
  BY <1>1, <1>2, <1>3, <1>4 DEF I2cLineStep, I2cQuiet, i2cDevice
<1>5. CASE op = "take"
  BY <1>1, <1>2, <1>3, <1>5 DEF I2cLineStep, I2cQuiet, i2cDevice
<1> QED BY <1>4, <1>5

\* A fall.
LEMMA I2cFallStep ==
  ASSUME I2cTypeOK, I2cLineStep(I2cStep("scl", 0)), i2cScl = 1
  PROVE  /\ i2cScl' = 0 /\ I2cCalm
         /\ UNCHANGED <<i2cState, i2cCount, i2cShift, i2cSda>>
         /\ i2cLine' = CASE i2cLine = "WaitForWrite" -> "Writing"
                         [] i2cLine = "Writing" /\ i2cCount = 0 -> "WaitForACK"
                         [] i2cLine = "WaitForACK" -> "Writing"
                         [] OTHER -> i2cLine
<1>1. i2cScl' = 0 /\ UNCHANGED <<i2cFlag, i2cGot, i2cAck>> /\ I2cFall
  BY I2cSclStep
<1> QED BY <1>1 DEF I2cFall, I2cQuiet, I2cCalm

\* A rise while the device reads and its byte is not full.
LEMMA I2cShiftStep ==
  ASSUME I2cTypeOK, I2cLineStep(I2cStep("scl", 1)), i2cScl = 0,
         i2cLine = "Reading", i2cCount # 8
  PROVE  /\ i2cScl' = 1 /\ I2cCalm
         /\ i2cShift' = (2 * i2cShift + i2cSda) % 256 /\ i2cCount' = i2cCount + 1
         /\ UNCHANGED <<i2cLine, i2cState, i2cSda>>
<1>1. i2cScl' = 1 /\ UNCHANGED <<i2cFlag, i2cGot, i2cAck>> /\ I2cRise
  BY I2cSclStep
<1>2. /\ i2cShift' = (2 * i2cShift + i2cSda) % 256 /\ i2cCount' = i2cCount + 1
      /\ UNCHANGED <<i2cLine, i2cState, i2cReg, i2cSda>> /\ I2cQuiet
  BY <1>1 DEF I2cRise
<1> QED BY <1>1, <1>2 DEF I2cQuiet, I2cCalm

\* A rise while the device has nothing to do with it.
LEMMA I2cIdleRise ==
  ASSUME I2cTypeOK, I2cLineStep(I2cStep("scl", 1)), i2cScl = 0,
         i2cLine \in {"Idle", "WaitForWrite", "WaitForACK"}
  PROVE  /\ i2cScl' = 1 /\ I2cCalm
         /\ UNCHANGED <<i2cLine, i2cState, i2cCount, i2cShift, i2cSda>>
<1>1. i2cScl' = 1 /\ UNCHANGED <<i2cFlag, i2cGot, i2cAck>> /\ I2cRise
  BY I2cSclStep
<1>2. UNCHANGED <<i2cLine, i2cState, i2cCount, i2cShift, i2cReg, i2cSda>> /\ I2cQuiet
  BY <1>1 DEF I2cRise
<1> QED BY <1>1, <1>2 DEF I2cQuiet, I2cCalm

-----------------------------------------------------------------------------
\* The parts of a transaction.
LEMMA I2cStartsA ==
  ASSUME I2cTypeOK, NEW b \in Nat, i2cPc = b + 1, I2cStarting(b),
         I2cLineStep(I2cStart[1]), i2cPc' = i2cPc + 1
  PROVE  I2cStarting(b)' /\ I2cCalm
<1>1. I2cLineStep(I2cStep("sda", 0))
  BY I2cShortIs
<1>2. i2cScl = 1 /\ i2cSda = 1
  BY DEF I2cStarting
<1>3. /\ i2cSda' = 0 /\ i2cScl' = 1 /\ I2cCalm
      /\ i2cLine' = "Reading" /\ i2cState' = "AddrIn" /\ i2cCount' = 0 /\ i2cShift' = 0
  BY <1>1, <1>2, I2cSdaStep
<1>4. i2cPc' = b + 2
  OBVIOUS
<1> QED BY <1>3, <1>4 DEF I2cStarting

LEMMA I2cStartsB ==
  ASSUME I2cTypeOK, NEW b \in Nat, NEW d \in Nat, d = b + 2, NEW v \in I2cByte,
         i2cPc = b + 2, I2cStarting(b), I2cLineStep(I2cStart[2]), i2cPc' = i2cPc + 1
  PROVE  I2cSending(d, v, "AddrIn")' /\ I2cCalm
<1>1. I2cLineStep(I2cStep("scl", 0))
  BY I2cShortIs
<1>2. /\ i2cScl = 1 /\ i2cLine = "Reading" /\ i2cState = "AddrIn"
      /\ i2cCount = 0 /\ i2cShift = 0
  BY DEF I2cStarting
<1>3. /\ i2cScl' = 0 /\ I2cCalm /\ i2cLine' = "Reading" /\ i2cState' = "AddrIn"
      /\ i2cCount' = 0 /\ i2cShift' = 0
  BY <1>1, <1>2, I2cFallStep
<1>4. I2cTop(v, 0) = 0
  BY I2cNoBits
<1>5. i2cPc' = d + 1 /\ 1 \div 3 = 0 /\ 1 % 3 = 1
  OBVIOUS
<1> QED BY <1>3, <1>4, <1>5 DEF I2cSending

LEMMA I2cSends ==
  ASSUME I2cTypeOK, NEW b \in Nat, NEW v \in I2cByte, NEW state,
         I2cSending(b, v, state), i2cPc <= b + 25,
         I2cLineStep(I2cWrite(v)[i2cPc - b]), i2cPc' = i2cPc + 1
  PROVE  I2cSending(b, v, state)' /\ I2cCalm
<1>1. PICK k \in 1..26 :
        /\ i2cPc = b + k
        /\ i2cLine = "Reading" /\ i2cState = state
        /\ i2cCount = k \div 3 /\ i2cShift = I2cTop(v, k \div 3)
        /\ i2cScl = (IF k % 3 = 0 THEN 1 ELSE 0)
        /\ k < 25 /\ k % 3 # 1 => i2cSda = I2cBit(v, 7 - (k - 1) \div 3)
  BY DEF I2cSending
<1>2. k \in 1..25 /\ i2cPc - b = k /\ i2cPc' = b + (k + 1) /\ k + 1 \in 1..26
  BY <1>1
<1>3. I2cLineStep(I2cWrite(v)[k])
  BY <1>2
<1> DEFINE Goal ==
    /\ i2cLine' = "Reading" /\ i2cState' = state
    /\ i2cCount' = (k + 1) \div 3 /\ i2cShift' = I2cTop(v, (k + 1) \div 3)
    /\ i2cScl' = (IF (k + 1) % 3 = 0 THEN 1 ELSE 0)
    /\ k + 1 < 25 /\ (k + 1) % 3 # 1 => i2cSda' = I2cBit(v, 7 - ((k + 1) - 1) \div 3)
    /\ k + 1 = 26 => i2cSda' = 1
    /\ I2cCalm
<1>4. /\ k < 25 /\ k % 3 = 1 => I2cWrite(v)[k] = I2cStep("sda", I2cBit(v, 7 - k \div 3))
      /\ k % 3 = 2 => I2cWrite(v)[k] = I2cStep("scl", 1)
      /\ k % 3 = 0 => I2cWrite(v)[k] = I2cStep("scl", 0)
  <2>1. CASE k \in 1..24
    BY <2>1, I2cWriteIs
  <2>2. CASE k = 25
    <3>1. k % 3 = 1 /\ ~(k < 25)
      BY <2>2
    <3> QED BY <3>1
  <2> QED BY <1>2, <2>1, <2>2
<1>5. ASSUME k % 3 = 1 /\ k < 25 PROVE Goal
  <2>1. I2cWrite(v)[k] = I2cStep("sda", I2cBit(v, 7 - k \div 3))
    BY <1>5, <1>4
  <2>2. k \div 3 \in 0..7
    BY <1>2, <1>5
  <2>3. I2cBit(v, 7 - k \div 3) \in 0..1
    BY <2>2, I2cBitsOf
  <2>4. i2cScl = 0
    BY <1>1, <1>5
  <2>5. /\ i2cSda' = I2cBit(v, 7 - k \div 3) /\ i2cScl' = 0 /\ I2cCalm
        /\ i2cLine' = i2cLine /\ i2cState' = i2cState /\ i2cCount' = i2cCount /\ i2cShift' = i2cShift
    BY <1>3, <2>1, <2>3, <2>4, I2cSdaStep
  <2>6. (k + 1) % 3 = 2 /\ (k + 1) \div 3 = k \div 3 /\ (k + 1) - 1 = k /\ k + 1 # 26
    BY <1>2, <1>5
  <2> QED BY <1>1, <2>5, <2>6
<1>6. ASSUME k % 3 = 2 PROVE Goal
  <2>1. I2cWrite(v)[k] = I2cStep("scl", 1)
    BY <1>6, <1>4
  <2>2. k \div 3 \in 0..7 /\ (k - 1) \div 3 = k \div 3 /\ k < 25
    BY <1>2, <1>6
  <2>3. i2cScl = 0 /\ i2cSda = I2cBit(v, 7 - k \div 3) /\ i2cCount # 8
    BY <1>1, <1>6, <2>2
  <2>4. /\ i2cScl' = 1 /\ I2cCalm
        /\ i2cShift' = (2 * i2cShift + i2cSda) % 256 /\ i2cCount' = i2cCount + 1
        /\ i2cLine' = i2cLine /\ i2cState' = i2cState /\ i2cSda' = i2cSda
    BY <1>1, <1>3, <2>1, <2>3, I2cShiftStep
  <2>5. (2 * I2cTop(v, k \div 3) + I2cBit(v, 7 - k \div 3)) % 256 = I2cTop(v, k \div 3 + 1)
    BY <2>2, I2cBitsOf
  <2>6. /\ (k + 1) % 3 = 0 /\ (k + 1) \div 3 = k \div 3 + 1 /\ ((k + 1) - 1) \div 3 = k \div 3
        /\ k + 1 # 26
    BY <1>2, <1>6
  <2>7. i2cShift' = I2cTop(v, (k + 1) \div 3)
    BY <1>1, <2>3, <2>4, <2>5, <2>6
  <2> QED BY <1>1, <2>3, <2>4, <2>6, <2>7
<1>7. ASSUME k % 3 = 0 PROVE Goal
  <2>1. I2cWrite(v)[k] = I2cStep("scl", 0)
    BY <1>7, <1>4
  <2>2. i2cScl = 1
    BY <1>1, <1>7
  <2>3. /\ i2cScl' = 0 /\ I2cCalm
        /\ i2cState' = i2cState /\ i2cCount' = i2cCount /\ i2cShift' = i2cShift
        /\ i2cLine' = "Reading"
    BY <1>1, <1>3, <2>1, <2>2, I2cFallStep
  <2>4. (k + 1) % 3 = 1 /\ (k + 1) \div 3 = k \div 3 /\ k + 1 # 26
    BY <1>2, <1>7
  <2> QED BY <1>1, <2>3, <2>4
<1>8. ASSUME k = 25 PROVE Goal
  <2>1. I2cWrite(v)[k] = I2cStep("sda", 1)
    BY <1>8, I2cWriteIs
  <2>2. i2cScl = 0
    BY <1>1, <1>8
  <2>3. /\ i2cSda' = 1 /\ i2cScl' = 0 /\ I2cCalm
        /\ i2cLine' = i2cLine /\ i2cState' = i2cState /\ i2cCount' = i2cCount /\ i2cShift' = i2cShift
    BY <1>3, <2>1, <2>2, I2cSdaStep
  <2>4. (k + 1) % 3 = 2 /\ (k + 1) \div 3 = k \div 3 /\ ~(k + 1 < 25)
    BY <1>8
  <2> QED BY <1>1, <2>2, <2>3, <2>4
<1>9. Goal
  <2>1. k % 3 = 0 \/ (k % 3 = 1 /\ k < 25) \/ k % 3 = 2 \/ k = 25
    BY <1>2
  <2> HIDE DEF Goal
  <2> QED BY <1>5, <1>6, <1>7, <1>8, <2>1
<1> QED BY <1>2, <1>9 DEF I2cSending

LEMMA I2cNinthRise ==
  ASSUME I2cTypeOK, NEW b \in Nat, NEW v \in I2cByte, NEW state,
         I2cSending(b, v, state), i2cPc = b + 26, I2cLineStep(I2cWrite(v)[26])
  PROVE  /\ i2cState = state /\ i2cLine = "Reading" /\ i2cSda = 1
         /\ i2cScl' = 1 /\ i2cShift' = 0 /\ i2cCount' = 0
         /\ UNCHANGED <<i2cFlag, i2cGot, i2cAck>>
         /\ I2cProcessByte(v)
<1>1. PICK k \in 1..26 :
        /\ i2cPc = b + k
        /\ i2cLine = "Reading" /\ i2cState = state
        /\ i2cCount = k \div 3 /\ i2cShift = I2cTop(v, k \div 3)
        /\ i2cScl = (IF k % 3 = 0 THEN 1 ELSE 0)
        /\ k = 26 => i2cSda = 1
  BY DEF I2cSending
<1>2. k = 26 /\ k \div 3 = 8 /\ k % 3 = 2
  BY <1>1
<1>3. /\ i2cLine = "Reading" /\ i2cState = state /\ i2cCount = 8 /\ i2cShift = v
      /\ i2cScl = 0 /\ i2cSda = 1
  BY <1>1, <1>2, I2cNoBits
<1>4. i2cScl' = 1 /\ UNCHANGED <<i2cFlag, i2cGot, i2cAck>> /\ I2cRise
  BY <1>3, I2cWriteIs, I2cSclStep
<1>5. I2cProcessByte(i2cShift) /\ i2cShift' = 0 /\ i2cCount' = 0
  BY <1>3, <1>4 DEF I2cRise
<1> QED BY <1>3, <1>4, <1>5

-----------------------------------------------------------------------------
\* The ninth rise: what the device makes of the byte.
I2cKeepAll == UNCHANGED <<patMotion, i2cShown, i2cFlag, i2cGot, i2cAck>>

LEMMA I2cNinthWrites ==
  ASSUME I2cTypeOK, NEW b \in Nat, NEW v \in I2cByte, v = 2 * I2cAddress,
         I2cSending(b, v, "AddrIn"), i2cPc = b + 26, I2cLineStep(I2cWrite(v)[26]),
         i2cPc' = i2cPc + 1
  PROVE  I2cAcked(b, "RegIn", "Reading")' /\ I2cCalm
<1>1. /\ i2cState = "AddrIn" /\ i2cLine = "Reading"
      /\ i2cScl' = 1 /\ i2cShift' = 0 /\ i2cCount' = 0
      /\ UNCHANGED <<i2cFlag, i2cGot, i2cAck>> /\ I2cProcessByte(v)
  BY I2cNinthRise
<1>2. v \div 2 = I2cAddress /\ v % 2 = 0
  BY DEF I2cAddress
<1>3. /\ i2cSda' = 0 /\ i2cState' = "RegIn" /\ i2cLine' = i2cLine /\ i2cReg' = i2cReg /\ I2cQuiet
  BY <1>1, <1>2 DEF I2cProcessByte, I2cAddressed
<1>4. i2cPc' = b + 27
  OBVIOUS
<1> QED BY <1>1, <1>3, <1>4 DEF I2cAcked, I2cCalm, I2cQuiet

LEMMA I2cNinthReads ==
  ASSUME I2cTypeOK, NEW b \in Nat, NEW v \in I2cByte, v = 2 * I2cAddress + 1,
         I2cSending(b, v, "AddrIn"), i2cPc = b + 26, I2cLineStep(I2cWrite(v)[26]),
         i2cPc' = i2cPc + 1
  PROVE  I2cAcked(b, "AddrIn", "Writing")' /\ I2cCalm
<1>1. /\ i2cState = "AddrIn" /\ i2cLine = "Reading"
      /\ i2cScl' = 1 /\ i2cShift' = 0 /\ i2cCount' = 0
      /\ UNCHANGED <<i2cFlag, i2cGot, i2cAck>> /\ I2cProcessByte(v)
  BY I2cNinthRise
<1>2. v \div 2 = I2cAddress /\ v % 2 = 1
  BY DEF I2cAddress
<1>3. /\ i2cSda' = 0 /\ i2cState' = i2cState /\ i2cLine' = "WaitForWrite" /\ i2cReg' = i2cReg
      /\ I2cQuiet
  BY <1>1, <1>2 DEF I2cProcessByte, I2cAddressed
<1>4. i2cPc' = b + 27
  OBVIOUS
<1> QED BY <1>1, <1>3, <1>4 DEF I2cAcked, I2cCalm, I2cQuiet

LEMMA I2cNinthRefused ==
  ASSUME I2cTypeOK, NEW b \in Nat, NEW v \in I2cByte, v = 2 * I2cOther,
         I2cSending(b, v, "AddrIn"), i2cPc = b + 26, I2cLineStep(I2cWrite(v)[26]),
         i2cPc' = i2cPc + 1, i2cAck = 0
  PROVE  I2cRefused(b)' /\ I2cCalm
<1>1. /\ i2cState = "AddrIn" /\ i2cLine = "Reading" /\ i2cSda = 1
      /\ i2cScl' = 1 /\ i2cShift' = 0 /\ i2cCount' = 0
      /\ UNCHANGED <<i2cFlag, i2cGot, i2cAck>> /\ I2cProcessByte(v)
  BY I2cNinthRise
<1>2. v \div 2 = I2cOther /\ I2cOther # I2cAddress
  BY I2cSensorAssumption DEF I2cAddress
<1>3. i2cSda' = 1 /\ i2cLine' = "Idle" /\ i2cReg' = i2cReg /\ I2cQuiet
  BY <1>1, <1>2 DEF I2cProcessByte, I2cAddressed
<1>4. i2cPc' = b + 27
  OBVIOUS
<1> QED BY <1>1, <1>3, <1>4 DEF I2cRefused, I2cCalm, I2cQuiet

LEMMA I2cNinthRegister ==
  ASSUME I2cTypeOK, NEW b \in Nat, NEW v \in I2cByte,
         I2cSending(b, v, "RegIn"), i2cPc = b + 26, I2cLineStep(I2cWrite(v)[26]),
         i2cPc' = i2cPc + 1
  PROVE  I2cAcked(b, "DataIn", "Reading")' /\ I2cKeepAll /\ i2cReg' = v
<1>1. /\ i2cState = "RegIn" /\ i2cLine = "Reading"
      /\ i2cScl' = 1 /\ i2cShift' = 0 /\ i2cCount' = 0
      /\ UNCHANGED <<i2cFlag, i2cGot, i2cAck>> /\ I2cProcessByte(v)
  BY I2cNinthRise
<1>2. /\ i2cSda' = 0 /\ i2cState' = "DataIn" /\ i2cLine' = i2cLine /\ i2cReg' = v /\ I2cQuiet
  BY <1>1 DEF I2cProcessByte
<1>3. i2cPc' = b + 27
  OBVIOUS
<1> QED BY <1>1, <1>2, <1>3 DEF I2cAcked, I2cKeepAll, I2cQuiet

LEMMA I2cNinthData ==
  ASSUME I2cTypeOK, NEW b \in Nat, NEW v \in I2cByte, PatSetOk(i2cReg),
         I2cSending(b, v, "DataIn"), i2cPc = b + 26, I2cLineStep(I2cWrite(v)[26]),
         i2cPc' = i2cPc + 1
  PROVE  /\ I2cAcked(b, "DataIn", "Reading")' /\ patRaw' = PatSet(patRaw, i2cReg, v)
         /\ i2cReg' = (i2cReg + 1) % 256
         /\ UNCHANGED <<patLoading, patNudge, patDelta, patUntold, patLost, i2cShown>>
         /\ UNCHANGED <<i2cFlag, i2cGot, i2cAck>>
<1>1. /\ i2cState = "DataIn" /\ i2cLine = "Reading"
      /\ i2cScl' = 1 /\ i2cShift' = 0 /\ i2cCount' = 0
      /\ UNCHANGED <<i2cFlag, i2cGot, i2cAck>> /\ I2cProcessByte(v)
  BY I2cNinthRise
<1>2. /\ i2cSda' = 0 /\ i2cState' = i2cState /\ i2cLine' = i2cLine
      /\ PatSetRegVal(i2cReg, v) /\ i2cReg' = (i2cReg + 1) % 256
  BY <1>1 DEF I2cProcessByte
<1>3. i2cPc' = b + 27
  OBVIOUS
<1> QED BY <1>1, <1>2, <1>3 DEF I2cAcked, PatSetRegVal

-----------------------------------------------------------------------------
\* The acknowledge, and what follows it.
LEMMA I2cAcks ==
  ASSUME I2cTypeOK, NEW b \in Nat, NEW v \in I2cByte, NEW state, NEW line \in {"Reading", "Writing"},
         I2cAcked(b, state, line), i2cAck = 0, i2cPc <= b + 28,
         I2cLineStep(I2cWrite(v)[i2cPc - b]), i2cPc' = i2cPc + 1
  PROVE  I2cAcked(b, state, line)' /\ I2cCalm
<1>1. PICK k \in 27..29 :
        /\ i2cPc = b + k
        /\ i2cLine = (IF line = "Writing" /\ k < 29 THEN "WaitForWrite" ELSE line)
        /\ i2cState = state
        /\ i2cCount = 0 /\ i2cShift = 0 /\ i2cSda = 0
        /\ i2cScl = (IF k = 29 THEN 0 ELSE 1)
  BY DEF I2cAcked
<1>2. k \in 27..28 /\ i2cPc - b = k /\ i2cPc' = b + (k + 1) /\ k + 1 \in 27..29
  BY <1>1
<1>3. CASE k = 27
  <2>1. I2cLineStep(I2cStep("ack", 0))
    BY <1>2, <1>3, I2cWriteIs
  <2>2. /\ UNCHANGED <<i2cDevice, i2cLines, patMotion, i2cShown>>
        /\ i2cAck' = i2cSda /\ i2cGot' = i2cGot
    BY <2>1, I2cLookStep
  <2>3. I2cCalm
    BY <1>1, <2>2 DEF I2cCalm, i2cDevice
  <2> QED BY <1>1, <1>2, <1>3, <2>2, <2>3 DEF I2cAcked, i2cDevice, i2cLines
<1>4. CASE k = 28
  <2>1. I2cLineStep(I2cStep("scl", 0))
    BY <1>2, <1>4, I2cWriteIs
  <2>2. i2cScl = 1 /\ i2cLine = (IF line = "Writing" THEN "WaitForWrite" ELSE line)
    BY <1>1, <1>4
  <2>3. /\ i2cScl' = 0 /\ I2cCalm
        /\ UNCHANGED <<i2cState, i2cCount, i2cShift, i2cSda>>
        /\ i2cLine' = line
    BY <2>1, <2>2, I2cFallStep
  <2> QED BY <1>1, <1>2, <1>4, <2>3 DEF I2cAcked
<1> QED BY <1>2, <1>3, <1>4

\* After the last step of a byte, with the line of the clock low.
LEMMA I2cAcksLast ==
  ASSUME I2cTypeOK, NEW b \in Nat, NEW v \in I2cByte, NEW state, NEW line \in {"Reading", "Writing"},
         I2cAcked(b, state, line), i2cPc = b + 29, I2cLineStep(I2cWrite(v)[29]),
         i2cPc' = i2cPc + 1
  PROVE  /\ i2cPc' = b + 30 /\ i2cScl' = 0 /\ i2cLine' = line /\ i2cState' = state
         /\ i2cCount' = 0 /\ i2cShift' = 0 /\ I2cCalm
<1>1. /\ i2cLine = line /\ i2cState = state
      /\ i2cCount = 0 /\ i2cShift = 0 /\ i2cSda = 0 /\ i2cScl = 0
  BY DEF I2cAcked
<1>2. I2cLineStep(I2cStep("sda", 0))
  BY I2cWriteIs
<1>3. /\ i2cScl' = 0 /\ I2cCalm
      /\ UNCHANGED <<i2cLine, i2cState, i2cCount, i2cShift>>
  <2>1. 0 \in 0..1
    OBVIOUS
  <2> QED BY <1>1, <1>2, <2>1, I2cSdaStep
<1>4. i2cPc' = b + 30
  OBVIOUS
<1> QED BY <1>1, <1>3, <1>4

\* The next byte.
LEMMA I2cNextByte ==
  ASSUME NEW b \in Nat, NEW d \in Nat, d = b + 29, NEW v \in I2cByte, NEW state,
         i2cPc' = b + 30, i2cScl' = 0, i2cLine' = "Reading", i2cState' = state,
         i2cCount' = 0, i2cShift' = 0
  PROVE  I2cSending(d, v, state)'
<1>1. I2cTop(v, 0) = 0
  BY I2cNoBits
<1>2. i2cPc' = d + 1 /\ 1 \div 3 = 0 /\ 1 % 3 = 1
  OBVIOUS
<1> QED BY <1>1, <1>2 DEF I2cSending

\* Nobody acknowledges.
LEMMA I2cRefuses ==
  ASSUME I2cTypeOK, NEW b \in Nat, NEW v \in I2cByte,
         I2cRefused(b), i2cPc <= b + 28,
         I2cLineStep(I2cWrite(v)[i2cPc - b]), i2cPc' = i2cPc + 1
  PROVE  /\ I2cRefused(b)'
         /\ UNCHANGED <<patMotion, i2cShown, i2cReg, i2cFlag, i2cGot>>
<1>1. PICK k \in 27..29 :
        /\ i2cPc = b + k
        /\ i2cLine = "Idle" /\ i2cSda = 1
        /\ i2cScl = (IF k = 29 THEN 0 ELSE 1)
        /\ i2cAck = (IF k = 27 THEN 0 ELSE 1)
  BY DEF I2cRefused
<1>2. k \in 27..28 /\ i2cPc - b = k /\ i2cPc' = b + (k + 1) /\ k + 1 \in 27..29
  BY <1>1
<1>3. CASE k = 27
  <2>1. I2cLineStep(I2cStep("ack", 0))
    BY <1>2, <1>3, I2cWriteIs
  <2>2. /\ UNCHANGED <<i2cDevice, i2cLines, patMotion, i2cShown>>
        /\ i2cAck' = i2cSda /\ i2cGot' = i2cGot
    BY <2>1, I2cLookStep
  <2> QED BY <1>1, <1>2, <1>3, <2>2 DEF I2cRefused, i2cDevice, i2cLines
<1>4. CASE k = 28
  <2>1. I2cLineStep(I2cStep("scl", 0))
    BY <1>2, <1>4, I2cWriteIs
  <2>2. i2cScl = 1 /\ i2cLine = "Idle"
    BY <1>1, <1>4
  <2>3. /\ i2cScl' = 0 /\ I2cCalm
        /\ UNCHANGED <<i2cState, i2cCount, i2cShift, i2cSda>>
        /\ i2cLine' = "Idle"
    BY <2>1, <2>2, I2cFallStep
  <2> QED BY <1>1, <1>2, <1>4, <2>3 DEF I2cRefused, I2cCalm
<1> QED BY <1>2, <1>3, <1>4

LEMMA I2cRefusedLast ==
  ASSUME I2cTypeOK, NEW b \in Nat, NEW d \in Nat, NEW v \in I2cByte,
         I2cRefused(b), i2cPc = b + 29, I2cLineStep(I2cWrite(v)[29]), i2cPc' = d + 1
  PROVE  I2cStopping(d)' /\ I2cCalm
<1>1. i2cLine = "Idle" /\ i2cSda = 1 /\ i2cScl = 0
  BY DEF I2cRefused
<1>2. I2cLineStep(I2cStep("sda", 0))
  BY I2cWriteIs
<1>3. i2cScl' = 0 /\ I2cCalm /\ i2cLine' = "Idle"
  <2>1. 0 \in 0..1
    OBVIOUS
  <2> QED BY <1>1, <1>2, <2>1, I2cSdaStep
<1> QED BY <1>3 DEF I2cStopping

-----------------------------------------------------------------------------
\* The stop.
LEMMA I2cStopsA ==
  ASSUME I2cTypeOK, NEW b \in Nat, i2cPc = b + 1, I2cStopping(b), I2cLineStep(I2cStop[1]),
         i2cPc' = i2cPc + 1
  PROVE  I2cStopping(b)' /\ I2cCalm
<1>1. I2cLineStep(I2cStep("scl", 1))
  BY I2cShortIs
<1>2. i2cScl = 0 /\ i2cLine # "Writing" /\ (i2cLine = "Reading" => i2cCount = 0)
  BY DEF I2cStopping
<1>3. i2cLine \in {"Idle", "Reading", "WaitForWrite", "WaitForACK"}
  BY <1>2 DEF I2cTypeOK
<1>4. i2cScl' = 1 /\ I2cCalm
  <2>1. CASE i2cLine = "Reading"
    BY <1>1, <1>2, <2>1, I2cShiftStep
  <2>2. CASE i2cLine # "Reading"
    BY <1>1, <1>2, <1>3, <2>2, I2cIdleRise
  <2> QED BY <2>1, <2>2
<1>5. i2cPc' = b + 2
  OBVIOUS
<1> QED BY <1>4, <1>5 DEF I2cStopping

LEMMA I2cStopsB ==
  ASSUME I2cTypeOK, NEW b \in Nat, NEW d \in Nat, d = b + 2, i2cPc = b + 2, I2cStopping(b),
         I2cLineStep(I2cStop[2]), i2cPc' = i2cPc + 1
  PROVE  i2cPc' = d + 1 /\ i2cScl' = 1 /\ i2cSda' = 1 /\ I2cCalm
<1>1. I2cLineStep(I2cStep("sda", 1))
  BY I2cShortIs
<1>2. i2cScl = 1
  BY DEF I2cStopping
<1>3. i2cSda' = 1 /\ i2cScl' = 1 /\ I2cCalm
  BY <1>1, <1>2, I2cSdaStep
<1>4. i2cPc' = d + 1
  OBVIOUS
<1> QED BY <1>3, <1>4

-----------------------------------------------------------------------------
\* The read: the answer is taken at the first rise, and shifted out.
LEMMA I2cReadsA ==
  ASSUME I2cTypeOK, NEW b \in Nat, i2cPc = b + 1, I2cReading(b), I2cLineStep(I2cRead[1]),
         i2cPc' = i2cPc + 1
  PROVE  I2cReading(b)' /\ I2cCalm
<1>1. I2cLineStep(I2cStep("sda", 1))
  BY I2cReadIs
<1>2. /\ i2cScl = 0 /\ i2cLine = "Writing" /\ i2cCount = 0
      /\ i2cGot = 0 /\ i2cShown = I2cNothing
  BY DEF I2cReading
<1>3. i2cScl' = 0 /\ I2cCalm /\ i2cLine' = "Writing" /\ i2cCount' = 0
  BY <1>1, <1>2, I2cSdaStep
<1>4. i2cPc' = b + 2
  OBVIOUS
<1> QED BY <1>2, <1>3, <1>4 DEF I2cReading, I2cCalm

LEMMA I2cLoads ==
  ASSUME I2cTypeOK, NEW b \in Nat, i2cPc = b + 2, I2cReading(b), I2cLineStep(I2cRead[2]),
         PatAnswer(i2cReg) \in I2cByte, i2cReg = i2cTx.reg, i2cPc' = i2cPc + 1
  PROVE  /\ I2cReading(b)' /\ PatGetRegVal(i2cReg)
         /\ UNCHANGED <<i2cReg, i2cFlag, i2cGot, i2cAck>>
<1>1. I2cLineStep(I2cStep("scl", 1))
  <2>1. 1 \in 1..24 /\ 1 + 1 = 2 /\ 1 % 3 = 1
    OBVIOUS
  <2> QED BY <2>1, I2cReadIs
<1>2. /\ i2cScl = 0 /\ i2cLine = "Writing" /\ i2cCount = 0
      /\ i2cGot = 0 /\ i2cShown = I2cNothing
  BY DEF I2cReading
<1>3. i2cScl' = 1 /\ UNCHANGED <<i2cFlag, i2cGot, i2cAck>> /\ I2cRise
  BY <1>1, <1>2, I2cSclStep
<1>4. /\ PatGetRegVal(i2cReg) /\ i2cShift' = PatAnswer(i2cReg)
      /\ i2cSda' = I2cBit(i2cShift', 7) /\ i2cCount' = 7
      /\ UNCHANGED <<i2cLine, i2cState, i2cReg>>
  BY <1>2, <1>3 DEF I2cRise
<1>5. i2cShown' = PatAnswer(i2cReg)
  BY <1>2, <1>4 DEF PatGetRegVal
<1>6. I2cTop(i2cShown', 0) = 0
  BY <1>5, I2cNoBits
<1>7. i2cPc' = b + 1 + 2 /\ 2 \in 2..24
  OBVIOUS
<1>8. 2 % 3 = 2 /\ (2 + 1) \div 3 = 1 /\ 2 \div 3 = 0
  OBVIOUS
<1>9. I2cReading(b)'
  BY <1>2, <1>3, <1>4, <1>5, <1>6, <1>7, <1>8 DEF I2cReading
<1> QED BY <1>3, <1>4, <1>9

LEMMA I2cReads24 ==
  ASSUME I2cTypeOK, NEW b \in Nat, i2cPc \in (b + 3)..(b + 25), I2cReading(b),
         I2cLineStep(I2cRead[i2cPc - b]), i2cPc' = i2cPc + 1
  PROVE  /\ I2cCalm \/ UNCHANGED <<patMotion, i2cShown, i2cReg, i2cFlag, i2cAck>>
         /\ i2cPc < b + 25 => I2cReading(b)'
         /\ i2cPc = b + 25 => i2cScl' = 0 /\ i2cLine' = "WaitForACK" /\ i2cGot' = i2cShown
<1>1. PICK k \in 2..24 :
       /\ i2cPc = b + 1 + k
       /\ i2cScl = (IF k % 3 = 1 THEN 0 ELSE 1)
       /\ i2cLine = "Writing" /\ i2cCount = 8 - (k + 1) \div 3
       /\ i2cShown \in I2cByte /\ i2cShift = i2cShown
       /\ i2cGot = I2cTop(i2cShown, k \div 3)
       /\ k % 3 = 2 => i2cSda = I2cBit(i2cShown, 8 - (k + 1) \div 3)
  BY DEF I2cReading
<1>2. i2cPc - b = k + 1 /\ i2cPc' = b + 1 + (k + 1)
  BY <1>1
<1>3. I2cLineStep(I2cRead[k + 1])
  BY <1>2
<1> DEFINE Shown(j) ==
   /\ i2cScl' = (IF j % 3 = 1 THEN 0 ELSE 1)
   /\ i2cLine' = "Writing" /\ i2cCount' = 8 - (j + 1) \div 3
   /\ i2cShift' = i2cShown
   /\ i2cGot' = I2cTop(i2cShown, j \div 3)
   /\ j % 3 = 2 => i2cSda' = I2cBit(i2cShown, 8 - (j + 1) \div 3)
<1> DEFINE Same == UNCHANGED <<patMotion, i2cShown, i2cReg, i2cFlag, i2cAck>>
<1>4. ASSUME k % 3 = 1 PROVE Same /\ Shown(k + 1) /\ k < 24
  <2>0. k \in 1..24
    OBVIOUS
  <2>1. I2cRead[k + 1] = I2cStep("scl", 1)
    BY <1>4, <2>0, I2cReadIs
  <2>2. i2cScl = 0 /\ k \in 4..22
    BY <1>1, <1>4
  <2>3. i2cScl' = 1 /\ UNCHANGED <<i2cFlag, i2cGot, i2cAck>> /\ I2cRise
    BY <1>3, <2>1, <2>2, I2cSclStep
  <2>4. i2cCount # 0
    BY <1>1, <1>4, <2>2
  <2>5. /\ I2cQuiet /\ i2cShift' = i2cShift
        /\ i2cSda' = I2cBit(i2cShift', i2cCount - 1) /\ i2cCount' = i2cCount - 1
        /\ UNCHANGED <<i2cLine, i2cState, i2cReg>>
    BY <1>1, <2>3, <2>4 DEF I2cRise
  <2>6. /\ (k + 1) % 3 = 2 /\ ((k + 1) + 1) \div 3 = (k + 1) \div 3 + 1
        /\ (k + 1) \div 3 = k \div 3
    BY <1>4, <2>2
  <2>7. 8 - ((k + 1) + 1) \div 3 = i2cCount - 1
    BY <1>1, <2>2, <2>6
  <2>8. Same
    BY <2>3, <2>5 DEF I2cQuiet
  <2>9. Shown(k + 1)
    BY <1>1, <2>3, <2>5, <2>6, <2>7
  <2> QED BY <2>2, <2>8, <2>9
<1>5. ASSUME k % 3 = 2 PROVE Same /\ Shown(k + 1) /\ k < 24
  <2>0. k \in 1..24
    OBVIOUS
  <2>1. I2cRead[k + 1] = I2cStep("take", 0)
    BY <1>5, <2>0, I2cReadIs
  <2>2. /\ UNCHANGED <<i2cDevice, i2cLines, patMotion, i2cShown>>
        /\ i2cGot' = (2 * i2cGot + i2cSda) % 256 /\ i2cAck' = i2cAck
    BY <1>3, <2>1, I2cLookStep
  <2>3. /\ (k + 1) % 3 = 0 /\ ((k + 1) + 1) \div 3 = (k + 1) \div 3
        /\ (k + 1) \div 3 = k \div 3 + 1 /\ k \div 3 \in 0..7 /\ k < 24
    BY <1>5
  <2>4. i2cSda = I2cBit(i2cShown, 7 - k \div 3)
    <3>1. 8 - (k + 1) \div 3 = 7 - k \div 3
      BY <2>3
    <3> QED BY <1>1, <1>5, <3>1
  <2>5. (2 * I2cTop(i2cShown, k \div 3) + I2cBit(i2cShown, 7 - k \div 3)) % 256
          = I2cTop(i2cShown, k \div 3 + 1)
    BY <1>1, <2>3, I2cBitsOf
  <2>6. i2cGot' = I2cTop(i2cShown, (k + 1) \div 3)
    BY <1>1, <2>2, <2>3, <2>4, <2>5
  <2>7. Same
    BY <2>2 DEF i2cDevice
  <2>8. /\ i2cScl' = i2cScl /\ i2cLine' = i2cLine /\ i2cCount' = i2cCount /\ i2cShift' = i2cShift
    BY <2>2 DEF i2cDevice, i2cLines
  <2>9. Shown(k + 1)
    BY <1>1, <1>5, <2>3, <2>6, <2>8
  <2> QED BY <2>3, <2>7, <2>9
<1>6. ASSUME k % 3 = 0
      PROVE  /\ Same
             /\ k < 24 => Shown(k + 1)
             /\ k = 24 => i2cScl' = 0 /\ i2cLine' = "WaitForACK" /\ i2cGot' = i2cShown
  <2>0. k \in 1..24
    OBVIOUS
  <2>1. I2cRead[k + 1] = I2cStep("scl", 0)
    BY <1>6, <2>0, I2cReadIs
  <2>2. i2cScl = 1
    BY <1>1, <1>6
  <2>3. /\ i2cScl' = 0 /\ I2cCalm
        /\ UNCHANGED <<i2cState, i2cCount, i2cShift, i2cSda>>
        /\ i2cLine' = IF i2cCount = 0 THEN "WaitForACK" ELSE "Writing"
    BY <1>1, <1>3, <2>1, <2>2, I2cFallStep
  <2>4. Same /\ i2cGot' = i2cGot
    BY <2>3 DEF I2cCalm
  <2>5. CASE k < 24
    <3>1. /\ (k + 1) % 3 = 1 /\ ((k + 1) + 1) \div 3 = (k + 1) \div 3
          /\ (k + 1) \div 3 = k \div 3
      BY <1>6
    <3>2. i2cCount # 0
      BY <1>1, <1>6, <2>5
    <3>3. Shown(k + 1)
      BY <1>1, <2>3, <2>4, <3>1, <3>2
    <3> QED BY <2>4, <2>5, <3>3
  <2>6. CASE k = 24
    <3>1. (k + 1) \div 3 = 8 /\ k \div 3 = 8
      BY <2>6
    <3>2. i2cCount = 0
      BY <1>1, <3>1
    <3>3. i2cGot = i2cShown
      BY <1>1, <3>1, I2cNoBits
    <3> QED BY <2>3, <2>4, <2>6, <3>2, <3>3
  <2> QED BY <2>5, <2>6
<1> HIDE DEF Shown
<1>7. /\ Same
      /\ k < 24 => Shown(k + 1)
      /\ k = 24 => i2cScl' = 0 /\ i2cLine' = "WaitForACK" /\ i2cGot' = i2cShown
  <2>1. k % 3 = 0 \/ k % 3 = 1 \/ k % 3 = 2
    OBVIOUS
  <2> QED BY <1>4, <1>5, <1>6, <2>1
<1>8. CASE k < 24
  <2>1. k + 1 \in 2..24 /\ i2cShown' = i2cShown
    BY <1>7, <1>8
  <2>2. Shown(k + 1)
    BY <1>7, <1>8
  <2>3. I2cReading(b)'
    BY <1>1, <1>2, <2>1, <2>2 DEF I2cReading, Shown
  <2> QED BY <1>1, <1>7, <1>8, <2>3
<1>9. CASE k = 24
  BY <1>1, <1>7, <1>9
<1> QED BY <1>8, <1>9

-----------------------------------------------------------------------------
\* The registers.
PatKept == \A a \in {14, PatBank, 142} : patRaw'[a] = patRaw[a]
PatTyped ==
  /\ patRaw \in [PatRegisters -> I2cByte] /\ patRaw[PatBank] \in 0..1
  /\ patLoading \in BOOLEAN /\ patNudge \in 0..4 /\ patDelta \in -1..1 /\ patUntold \in BOOLEAN
  /\ patLost \in BOOLEAN /\ PatMotionTold

LEMMA PatMovesRegs ==
  ASSUME I2cTypeOK, NEW d \in -1..1, NEW state
  PROVE  /\ PatMoved(d, state) \in [PatRegisters -> I2cByte]
         /\ \A a \in {14, PatBank, 142} : PatMoved(d, state)[a] = patRaw[a]
         /\ state # "JAM" => PatMoved(d, state)[PatMStatus] = 128
         /\ state = "JAM" => PatMoved(d, state)[PatMStatus] = patRaw[PatMStatus]
<1>1. patRaw \in [PatRegisters -> I2cByte]
  BY DEF I2cTypeOK
<1> DEFINE c == CASE d = 1 -> 255 [] d = -1 -> 1 [] OTHER -> 0
           m == IF state # "JAM" THEN 128 ELSE patRaw[PatMStatus]
<1>2. c \in I2cByte /\ m \in I2cByte
  BY <1>1 DEF I2cByte, PatRegisters, PatMStatus
<1>3. /\ state # "JAM" => m = 128
      /\ state = "JAM" => m = patRaw[PatMStatus]
  OBVIOUS
<1>4. PatMoved(d, state) = [patRaw EXCEPT ![PatDYLow] = c, ![PatMStatus] = m]
  BY <1>1 DEF PatMoved, PatMStatus, PatDYLow
<1> HIDE DEF c, m
<1> QED BY <1>1, <1>2, <1>3, <1>4 DEF PatRegisters, PatDYLow, PatMStatus, PatBank

LEMMA PatReads ==
  ASSUME I2cTypeOK, PatTyped, NEW reg \in {PatMStatus, PatDYLow, 14, PatBank},
         PatGetRegVal(reg), i2cShown = I2cNothing, reg = i2cTx.reg
  PROVE  PatAnswer(reg) \in I2cByte /\ i2cShown' = PatAnswer(reg) /\ PatTyped' /\ PatKept
<1>1. /\ patRaw \in [PatRegisters -> I2cByte] /\ patRaw[PatBank] \in 0..1
      /\ patLoading \in BOOLEAN /\ patNudge \in 0..4 /\ patDelta \in -1..1 /\ patUntold \in BOOLEAN
      /\ patLost \in BOOLEAN /\ (patUntold => patRaw[PatMStatus] = 128 \/ patLost)
  BY DEF PatTyped, PatMotionTold
<1> DEFINE a == PatBanked(patRaw, reg)
<1>2. a \in PatRegisters \cup {255}
  BY <1>1 DEF PatBanked, PatRegisters, PatMStatus, PatDYLow, PatBank
<1>3. PatAnswer(reg) \in I2cByte
  BY <1>1, <1>2 DEF PatAnswer, I2cByte
<1> HIDE DEF a
<1>4. i2cShown' = PatAnswer(reg)
  BY DEF PatGetRegVal
<1>5. CASE a = PatMStatus /\ ~patLoading
  <2>1. /\ patRaw' = [patRaw EXCEPT ![PatMStatus] = 0]
        /\ UNCHANGED <<patLoading, patNudge, patDelta, patLost>>
    BY <1>5 DEF PatGetRegVal, a, PatMStatus, PatDYLow
  <2>2. (patUntold' => patLost') /\ patUntold' \in BOOLEAN
    <3>1. patUntold' = (patUntold /\ ~((i2cShown = I2cNothing /\ reg = i2cTx.reg)
                                         /\ patRaw[PatMStatus] = 128))
      BY <1>5 DEF PatGetRegVal, a, PatMStatus, PatDYLow
    <3>2. patUntold' => patUntold /\ patRaw[PatMStatus] # 128
      BY <3>1, Zenon
    <3>3. patUntold' \in BOOLEAN
      BY <3>1, Zenon
    <3> QED BY <1>1, <2>1, <3>2, <3>3
  <2> QED BY <1>1, <1>3, <1>4, <2>1, <2>2
          DEF PatTyped, PatMotionTold, PatKept, PatRegisters, PatMStatus, PatDYLow, PatBank, I2cByte
<1>6. CASE a = PatMStatus /\ patLoading
  <2>1. PICK d \in -1..1 :
          /\ patDelta' = d /\ patRaw' = PatMoved(d, patState)
          /\ patLoading' = (patNudge < 4)
          /\ patNudge' = IF patNudge < 4 THEN patNudge + 1 ELSE 0
          /\ patUntold' = (patUntold \/ patState # "JAM")
          /\ patLost' = (patLost /\ patState = "JAM")
    <3>1. (IF patDelta < 0 THEN -1..1 ELSE {1}) \subseteq -1..1
      OBVIOUS
    <3>2. \E d \in IF patDelta < 0 THEN -1..1 ELSE {1} :
            /\ patDelta' = d /\ patRaw' = PatMoved(d, patState)
            /\ patLoading' = (patNudge < 4)
            /\ patNudge' = IF patNudge < 4 THEN patNudge + 1 ELSE 0
            /\ patUntold' = (patUntold \/ patState # "JAM")
            /\ patLost' = (patLost /\ patState = "JAM")
      BY <1>6 DEF PatGetRegVal, a, PatMStatus, PatDYLow
    <3> QED BY <3>1, <3>2
  <2>2. patUntold' \in BOOLEAN /\ patLoading' \in BOOLEAN /\ patLost' \in BOOLEAN
    <3>1. patUntold' \in BOOLEAN /\ patLost' \in BOOLEAN
      BY <2>1, Zenon
    <3>2. patLoading' \in BOOLEAN
      BY <2>1
    <3> QED BY <3>1, <3>2
  <2>3. patUntold' => patRaw'[PatMStatus] = 128 \/ patLost'
    <3>1. CASE patState = "JAM"
      <4>1. patRaw'[PatMStatus] = patRaw[PatMStatus]
        BY <2>1, <3>1, PatMovesRegs
      <4>2. (patUntold' => patUntold) /\ (patLost => patLost')
        BY <2>1, <3>1, Zenon
      <4> QED BY <1>1, <4>1, <4>2
    <3>2. CASE patState # "JAM"
      BY <2>1, <3>2, PatMovesRegs
    <3> QED BY <3>1, <3>2
  <2>4. patRaw' \in [PatRegisters -> I2cByte] /\ PatKept
    BY <2>1, PatMovesRegs DEF PatKept
  <2>5. patNudge' \in 0..4 /\ patDelta' \in -1..1
    BY <1>1, <2>1
  <2>6. patRaw'[PatBank] \in 0..1
    BY <1>1, <2>4 DEF PatKept
  <2> QED BY <1>3, <1>4, <2>2, <2>3, <2>4, <2>5, <2>6 DEF PatTyped, PatMotionTold
<1>7. CASE a = PatDYLow
  <2>1. patDelta' = 0 /\ UNCHANGED <<patRaw, patLoading, patNudge, patUntold, patLost>>
    BY <1>7 DEF PatGetRegVal, a, PatDYLow, PatMStatus
  <2> QED BY <1>1, <1>3, <1>4, <2>1 DEF PatTyped, PatMotionTold, PatKept
<1>8. CASE a # PatMStatus /\ a # PatDYLow
  <2>1. UNCHANGED patMotion
    BY <1>8 DEF PatGetRegVal, a, PatMStatus, PatDYLow
  <2> QED BY <1>1, <1>3, <1>4, <2>1 DEF PatTyped, PatMotionTold, PatKept, patMotion
<1> QED BY <1>1, <1>5, <1>6, <1>7, <1>8

LEMMA PatWrites ==
  ASSUME PatTyped, NEW reg \in I2cByte, NEW v \in I2cByte, PatSetRegVal(reg, v)
  PROVE  PatTyped' /\ i2cShown' = i2cShown
<1>1. /\ patRaw \in [PatRegisters -> I2cByte] /\ patRaw[PatBank] \in 0..1
      /\ patLoading \in BOOLEAN /\ patNudge \in 0..4 /\ patDelta \in -1..1 /\ patUntold \in BOOLEAN
      /\ patLost \in BOOLEAN /\ (patUntold => patRaw[PatMStatus] = 128 \/ patLost)
  BY DEF PatTyped, PatMotionTold
<1>2. /\ patRaw' = IF PatSetOk(reg) THEN PatSet(patRaw, reg, v) ELSE patRaw
      /\ UNCHANGED <<patLoading, patNudge, patDelta, patUntold, patLost, i2cShown>>
  BY DEF PatSetRegVal
<1>3. CASE ~PatSetOk(reg)
  BY <1>1, <1>2, <1>3 DEF PatTyped, PatMotionTold
<1>4. CASE PatSetOk(reg)
  <2>1. PatBanked(patRaw, reg) # PatMStatus
    BY <1>4 DEF PatSetOk, PatReadOnly
  <2> DEFINE a == PatBanked(patRaw, reg)
  <2>3. patRaw' = IF a \in {PatBank, 255} THEN [patRaw EXCEPT ![PatBank] = IF v > 0 THEN 1 ELSE 0]
                                          ELSE [patRaw EXCEPT ![a] = v]
    BY <1>2, <1>4 DEF PatSet
  <2>4. a # PatMStatus
    BY <2>1
  <2> HIDE DEF a
  <2>2. /\ patRaw' \in [PatRegisters -> I2cByte] /\ patRaw'[PatBank] \in 0..1
        /\ patRaw'[PatMStatus] = patRaw[PatMStatus]
    <3>1. CASE a \in {PatBank, 255}
      BY <1>1, <2>3, <3>1 DEF PatRegisters, PatBank, PatMStatus, I2cByte
    <3>2. CASE a \notin {PatBank, 255}
      <4>1. patRaw' = [patRaw EXCEPT ![a] = v]
        BY <2>3, <3>2
      <4> QED BY <1>1, <2>4, <3>2, <4>1 DEF PatRegisters, PatBank, PatMStatus
    <3> QED BY <3>1, <3>2
  <2> QED BY <1>1, <1>2, <2>2 DEF PatTyped, PatMotionTold
<1> QED BY <1>3, <1>4

\* A register that may be written is written, and the others of them as in any copy of them.
LEMMA PatWritesRegs ==
  ASSUME PatTyped, i2cShadow \in [{14, PatBank, 142} -> I2cByte],
         \A a \in {14, PatBank, 142} : patRaw[a] = i2cShadow[a],
         NEW reg \in {14, PatBank}, NEW v \in I2cByte
  PROVE  /\ PatSetOk(reg)
         /\ \A a \in {14, PatBank, 142} : PatSet(patRaw, reg, v)[a] = PatSet(i2cShadow, reg, v)[a]
         /\ PatSet(i2cShadow, reg, v) \in [{14, PatBank, 142} -> I2cByte]
<1>1. /\ patRaw \in [PatRegisters -> I2cByte] /\ patRaw[PatBank] \in 0..1
  BY DEF PatTyped
<1>2. PatBanked(patRaw, reg) = PatBanked(i2cShadow, reg)
  BY DEF PatBanked, PatBank
<1>3. PatBanked(patRaw, reg) \in {14, PatBank, 142, 255}
  BY <1>1 DEF PatBanked, PatBank
<1>4. PatSetOk(reg)
  BY <1>3 DEF PatSetOk, PatReadOnly, PatBank, PatMStatus, PatDYLow
<1> QED BY <1>1, <1>2, <1>3, <1>4 DEF PatSet, PatRegisters, PatBank, I2cByte

\* What a step on the lines may leave behind.
I2cBusTyped ==
  /\ i2cLine \in {"Idle", "Reading", "Writing", "WaitForWrite", "WaitForACK"}
  /\ i2cState \in {"Idle", "AddrIn", "RegIn", "DataIn"}
  /\ i2cCount \in 0..8 /\ i2cShift \in I2cByte /\ i2cReg \in I2cByte /\ i2cFlag \in BOOLEAN
  /\ i2cScl \in 0..1 /\ i2cSda \in 0..1
  /\ i2cGot \in I2cByte /\ i2cAck \in 0..1 /\ i2cShown \in 0..I2cNothing

LEMMA PatStays ==
  ASSUME PatTyped, UNCHANGED patMotion
  PROVE  PatTyped'
BY DEF PatTyped, PatMotionTold, patMotion

LEMMA I2cBitType ==
  ASSUME NEW v \in I2cByte, NEW i \in 0..7
  PROVE  I2cBit(v, i) \in 0..1
<1>1. 7 - i \in 0..7 /\ 7 - (7 - i) = i
  OBVIOUS
<1> QED BY <1>1, I2cBitsOf

LEMMA I2cProcessTypes ==
  ASSUME I2cTypeOK, PatTyped, NEW v \in I2cByte, I2cProcessByte(v)
  PROVE  /\ i2cLine' \in {i2cLine, "Idle", "WaitForWrite"}
         /\ i2cState' \in {"Idle", "AddrIn", "RegIn", "DataIn"}
         /\ i2cReg' \in I2cByte /\ i2cSda' \in 0..1 /\ i2cShown' = i2cShown
         /\ PatTyped'
<1>1. i2cReg \in I2cByte /\ i2cSda \in 0..1
      /\ i2cState \in {"Idle", "AddrIn", "RegIn", "DataIn"}
  BY DEF I2cTypeOK
<1>2. CASE I2cQuiet
  <2>1. PatTyped' /\ i2cShown' = i2cShown
    BY <1>2, PatStays DEF I2cQuiet
  <2>2. /\ i2cLine' \in {i2cLine, "Idle", "WaitForWrite"}
        /\ i2cState' \in {"Idle", "AddrIn", "RegIn", "DataIn"}
        /\ i2cReg' \in {v, i2cReg, (i2cReg + 1) % 256} /\ i2cSda' \in 0..1
    BY <1>1 DEF I2cProcessByte
  <2> QED BY <1>1, <2>1, <2>2 DEF I2cByte
<1>3. CASE /\ i2cSda' = IF PatSetOk(i2cReg) THEN 0 ELSE i2cSda
           /\ PatSetRegVal(i2cReg, v)
           /\ i2cReg' = (i2cReg + 1) % 256
           /\ UNCHANGED <<i2cLine, i2cState>>
  <2>1. PatTyped' /\ i2cShown' = i2cShown
    BY <1>1, <1>3, PatWrites
  <2> QED BY <1>1, <1>3, <2>1 DEF I2cByte
<1> QED BY <1>2, <1>3 DEF I2cProcessByte

LEMMA I2cRiseTypes ==
  ASSUME I2cTypeOK, PatTyped, I2cRise,
         i2cLine = "Writing" /\ i2cCount = 0
           => /\ i2cReg \in {PatMStatus, PatDYLow, 14, PatBank} /\ i2cReg = i2cTx.reg
              /\ i2cShown = I2cNothing
  PROVE  /\ i2cLine' \in {"Idle", "Reading", "Writing", "WaitForWrite", "WaitForACK"}
         /\ i2cState' \in {"Idle", "AddrIn", "RegIn", "DataIn"}
         /\ i2cCount' \in 0..8 /\ i2cShift' \in I2cByte /\ i2cReg' \in I2cByte
         /\ i2cSda' \in 0..1 /\ i2cShown' \in 0..I2cNothing
         /\ PatTyped'
<1>1. /\ i2cReg \in I2cByte /\ i2cSda \in 0..1 /\ i2cCount \in 0..8 /\ i2cShift \in I2cByte
      /\ i2cShown \in 0..I2cNothing /\ i2cState \in {"Idle", "AddrIn", "RegIn", "DataIn"}
      /\ i2cLine \in {"Idle", "Reading", "Writing", "WaitForWrite", "WaitForACK"}
  BY DEF I2cTypeOK
<1>2. CASE i2cLine = "Reading" /\ i2cCount = 8
  <2>1. I2cProcessByte(i2cShift) /\ i2cShift' = 0 /\ i2cCount' = 0
    BY <1>2 DEF I2cRise
  <2> QED BY <1>1, <2>1, I2cProcessTypes DEF I2cByte
<1>3. CASE i2cLine = "Reading" /\ i2cCount # 8
  <2>1. /\ i2cShift' = (2 * i2cShift + i2cSda) % 256 /\ i2cCount' = i2cCount + 1
        /\ UNCHANGED <<i2cLine, i2cState, i2cReg, i2cSda>> /\ I2cQuiet
    BY <1>3 DEF I2cRise
  <2>2. PatTyped' /\ i2cShown' = i2cShown
    BY <2>1, PatStays DEF I2cQuiet
  <2> QED BY <1>1, <1>3, <2>1, <2>2 DEF I2cByte
<1>4. CASE i2cLine = "Writing" /\ i2cCount = 0
  <2>1. /\ PatGetRegVal(i2cReg) /\ i2cShift' = PatAnswer(i2cReg)
        /\ i2cSda' = I2cBit(i2cShift', 7) /\ i2cCount' = 7
        /\ UNCHANGED <<i2cLine, i2cState, i2cReg>>
    BY <1>4 DEF I2cRise
  <2>2. PatAnswer(i2cReg) \in I2cByte /\ i2cShown' = PatAnswer(i2cReg) /\ PatTyped'
    BY <1>4, <2>1, PatReads
  <2>3. i2cShift' \in I2cByte
    BY <2>1, <2>2
  <2>4. i2cSda' \in 0..1
    BY <2>1, <2>3, I2cBitType
  <2>5. i2cShown' \in 0..I2cNothing
    BY <2>2 DEF I2cByte, I2cNothing
  <2> QED BY <1>1, <2>1, <2>2, <2>3, <2>4, <2>5
<1>5. CASE i2cLine = "Writing" /\ i2cCount # 0
  <2>1. /\ I2cQuiet /\ i2cShift' = i2cShift
        /\ i2cSda' = I2cBit(i2cShift', i2cCount - 1) /\ i2cCount' = i2cCount - 1
        /\ UNCHANGED <<i2cLine, i2cState, i2cReg>>
    BY <1>5 DEF I2cRise
  <2>2. PatTyped' /\ i2cShown' = i2cShown
    BY <2>1, PatStays DEF I2cQuiet
  <2>3. i2cCount - 1 \in 0..7
    BY <1>1, <1>5
  <2>4. i2cSda' \in 0..1
    BY <1>1, <2>1, <2>3, I2cBitType
  <2> QED BY <1>1, <2>1, <2>2, <2>3, <2>4
<1>6. CASE i2cLine \in {"Idle", "WaitForWrite", "WaitForACK"}
  <2>1. UNCHANGED <<i2cLine, i2cState, i2cCount, i2cShift, i2cReg, i2cSda>> /\ I2cQuiet
    BY <1>6 DEF I2cRise
  <2>2. PatTyped' /\ i2cShown' = i2cShown
    BY <2>1, PatStays DEF I2cQuiet
  <2> QED BY <1>1, <2>1, <2>2
<1> QED BY <1>1, <1>2, <1>3, <1>4, <1>5, <1>6

LEMMA I2cLineTypes ==
  ASSUME I2cTypeOK, PatTyped, NEW s, s.op \in {"scl", "sda"} => s.v \in 0..1, I2cLineStep(s),
         s.op = "scl" /\ s.v = 1 /\ i2cScl = 0 /\ i2cLine = "Writing" /\ i2cCount = 0
           => /\ i2cReg \in {PatMStatus, PatDYLow, 14, PatBank} /\ i2cReg = i2cTx.reg
              /\ i2cShown = I2cNothing
  PROVE  I2cBusTyped' /\ PatTyped'
<1>1. I2cBusTyped
  BY DEF I2cTypeOK, I2cBusTyped
<1>2. i2cFlag' = i2cFlag
  BY DEF I2cLineStep
<1>3. CASE /\ s.op = "scl" /\ i2cScl' = s.v
           /\ CASE s.v = i2cScl -> UNCHANGED <<i2cDevice, i2cSda>> /\ I2cQuiet
                [] s.v = 1 /\ i2cScl = 0 -> I2cRise
                [] OTHER -> I2cFall
           /\ UNCHANGED <<i2cGot, i2cAck>>
  <2>1. i2cScl' \in 0..1
    BY <1>3
  <2>2. CASE s.v = i2cScl
    <3>1. UNCHANGED <<i2cDevice, i2cSda>> /\ I2cQuiet
      BY <1>1, <1>3, <2>2 DEF I2cBusTyped
    <3>2. PatTyped' /\ i2cShown' = i2cShown
      BY <3>1, PatStays DEF I2cQuiet
    <3> QED BY <1>1, <1>2, <1>3, <2>1, <3>1, <3>2 DEF I2cBusTyped, i2cDevice
  <2>3. CASE s.v = 1 /\ i2cScl = 0
    <3>1. I2cRise
      BY <1>3, <2>3
    <3> QED BY <1>1, <1>2, <1>3, <2>1, <2>3, <3>1, I2cRiseTypes DEF I2cBusTyped
  <2>4. CASE s.v = 0 /\ i2cScl = 1
    <3>1. I2cFall
      BY <1>3, <2>4
    <3>2. /\ UNCHANGED <<i2cState, i2cCount, i2cShift, i2cReg, i2cSda>> /\ I2cQuiet
          /\ i2cLine' \in {"Writing", "WaitForACK", i2cLine}
      BY <3>1 DEF I2cFall
    <3>3. PatTyped' /\ i2cShown' = i2cShown
      BY <3>2, PatStays DEF I2cQuiet
    <3> QED BY <1>1, <1>2, <1>3, <2>1, <3>2, <3>3 DEF I2cBusTyped
  <2> QED BY <1>1, <1>3, <2>2, <2>3, <2>4 DEF I2cBusTyped
<1>4. CASE /\ s.op = "sda" /\ i2cSda' = s.v
           /\ IF s.v = i2cSda THEN UNCHANGED i2cDevice /\ I2cQuiet ELSE I2cSdaChanges(s.v)
           /\ UNCHANGED <<i2cScl, i2cGot, i2cAck>>
  <2>1. i2cSda' \in 0..1
    BY <1>4
  <2>2. CASE s.v = i2cSda
    <3>1. PatTyped' /\ i2cShown' = i2cShown
      BY <1>4, <2>2, PatStays DEF I2cQuiet
    <3> QED BY <1>1, <1>2, <1>4, <2>1, <2>2, <3>1 DEF I2cBusTyped, i2cDevice
  <2>3. CASE s.v # i2cSda
    <3>1. I2cSdaChanges(s.v)
      BY <1>4, <2>3
    <3>2. i2cReg' = i2cReg /\ I2cQuiet
      BY <3>1 DEF I2cSdaChanges
    <3>3. PatTyped' /\ i2cShown' = i2cShown
      BY <3>2, PatStays DEF I2cQuiet
    <3>4. /\ i2cLine' \in {i2cLine, "Idle", "Reading"} /\ i2cState' \in {i2cState, "AddrIn"}
          /\ i2cCount' \in {i2cCount, 0} /\ i2cShift' \in {i2cShift, 0}
      <4>1. CASE i2cScl = 1 /\ s.v = 1
        BY <3>1, <4>1 DEF I2cSdaChanges
      <4>2. CASE i2cScl = 1 /\ s.v = 0
        BY <3>1, <4>2 DEF I2cSdaChanges
      <4>3. CASE i2cScl = 0
        BY <3>1, <4>3 DEF I2cSdaChanges
      <4> QED BY <1>1, <1>4, <4>1, <4>2, <4>3 DEF I2cBusTyped
    <3> QED BY <1>1, <1>2, <1>4, <2>1, <3>2, <3>3, <3>4 DEF I2cBusTyped, I2cByte
  <2> QED BY <2>2, <2>3
<1>5. CASE /\ s.op \in {"ack", "take"} /\ UNCHANGED <<i2cDevice, i2cLines>> /\ I2cQuiet
           /\ i2cAck' \in {i2cAck, i2cSda} /\ i2cGot' \in {i2cGot, (2 * i2cGot + i2cSda) % 256}
  <2>1. PatTyped' /\ i2cShown' = i2cShown
    BY <1>5, PatStays DEF I2cQuiet
  <2>2. i2cGot' \in I2cByte /\ i2cAck' \in 0..1
    BY <1>1, <1>5 DEF I2cBusTyped, I2cByte
  <2> QED BY <1>1, <1>5, <2>1, <2>2 DEF I2cBusTyped, i2cDevice, i2cLines
<1>6. I2cLineStep(s)
  OBVIOUS
<1> QED BY <1>3, <1>4, <1>5, <1>6 DEF I2cLineStep

-----------------------------------------------------------------------------
\* The steps of the two programs on the lines, by their number.
LEMMA I2cWriteValid ==
  ASSUME NEW v \in I2cByte, NEW k \in 1..29
  PROVE  I2cWrite(v)[k].v \in 0..1
<1>1. CASE k \in 1..24 /\ k % 3 = 1
  <2>1. k \div 3 \in 0..7
    BY <1>1
  <2>2. I2cBit(v, 7 - k \div 3) \in 0..1
    BY <2>1, I2cBitsOf
  <2>3. I2cWrite(v)[k] = I2cStep("sda", I2cBit(v, 7 - k \div 3))
    BY <1>1, I2cWriteIs
  <2> QED BY <2>2, <2>3, I2cStepIs
<1>2. CASE k \in 1..24 /\ k % 3 = 2
  <2>1. I2cWrite(v)[k] = I2cStep("scl", 1)
    BY <1>2, I2cWriteIs
  <2> QED BY <2>1, I2cStepIs
<1>3. CASE k \in 1..24 /\ k % 3 = 0
  <2>1. I2cWrite(v)[k] = I2cStep("scl", 0)
    BY <1>3, I2cWriteIs
  <2> QED BY <2>1, I2cStepIs
<1>4. CASE k \in 25..29
  <2>1. k = 25 \/ k = 26 \/ k = 27 \/ k = 28 \/ k = 29
    BY <1>4
  <2>2. I2cWrite(v)[k] \in {I2cStep("sda", 1), I2cStep("scl", 1), I2cStep("ack", 0),
                           I2cStep("scl", 0), I2cStep("sda", 0)}
    BY <2>1, I2cWriteIs
  <2>3. \A s \in {I2cStep("sda", 1), I2cStep("scl", 1), I2cStep("ack", 0),
                  I2cStep("scl", 0), I2cStep("sda", 0)} : s.v \in 0..1
    BY I2cStepIs
  <2> QED BY <2>2, <2>3
<1>5. k \in 1..24 \/ k \in 25..29
  OBVIOUS
<1>6. k % 3 = 0 \/ k % 3 = 1 \/ k % 3 = 2
  OBVIOUS
<1> QED BY <1>1, <1>2, <1>3, <1>4, <1>5, <1>6

LEMMA I2cShortValid ==
  /\ I2cStart[1].v \in 0..1 /\ I2cStart[2].v \in 0..1
  /\ I2cStop[1].v \in 0..1 /\ I2cStop[2].v \in 0..1
BY DEF I2cStart, I2cStop, I2cStep

LEMMA I2cReadValid ==
  ASSUME NEW k \in 1..25
  PROVE  I2cRead[k].v \in 0..1
<1>1. CASE k = 1
  BY <1>1, I2cReadIs, I2cStepIs
<1>2. ASSUME NEW j \in 1..24, k = j + 1 PROVE I2cRead[k].v \in 0..1
  <2>1. CASE j % 3 = 1
    BY <1>2, <2>1, I2cReadIs, I2cStepIs
  <2>2. CASE j % 3 = 2
    BY <1>2, <2>2, I2cReadIs, I2cStepIs
  <2>3. CASE j % 3 = 0
    BY <1>2, <2>3, I2cReadIs, I2cStepIs
  <2>4. j % 3 = 0 \/ j % 3 = 1 \/ j % 3 = 2
    OBVIOUS
  <2> QED BY <2>1, <2>2, <2>3, <2>4
<1>3. k = 1 \/ (k - 1 \in 1..24 /\ k = (k - 1) + 1)
  OBVIOUS
<1> QED BY <1>1, <1>2, <1>3

LEMMA I2cWriteSteps ==
  ASSUME NEW tx \in I2cTransactions, tx.kind = "write", NEW p, p = I2cProgram(FALSE, tx)
  PROVE  /\ Len(p) = 91
         /\ p[1] = I2cStart[1] /\ p[2] = I2cStart[2] /\ p[90] = I2cStop[1] /\ p[91] = I2cStop[2]
         /\ \A n \in 3..31 : p[n] = I2cWrite(2 * tx.address)[n - 2]
         /\ \A n \in 32..60 : p[n] = I2cWrite(tx.reg)[n - 31]
         /\ \A n \in 61..89 : p[n] = I2cWrite(tx.value)[n - 60]
         /\ \A n \in 1..91 : p[n].v \in 0..1
         /\ p[2 + 29] = I2cStep("sda", 0) /\ p[2 + 28] = I2cStep("scl", 0)
         /\ p[2 + 27] = I2cStep("ack", 0)
<1>1. tx.reg \in I2cByte /\ tx.value \in I2cByte /\ 2 * tx.address \in I2cByte
  BY I2cTxType, I2cSensorAssumption DEF I2cByte, PatMStatus, PatDYLow, PatBank, I2cAddress
<1>2. Len(p) = 91
  BY I2cWriteCode
<1>11. \A k \in 1..2 : p[k] = I2cStart[k] /\ p[89 + k] = I2cStop[k]
  BY I2cWriteCode
<1>12. \A k \in 1..29 : /\ p[2 + k] = I2cWrite(2 * tx.address)[k]
                        /\ p[31 + k] = I2cWrite(tx.reg)[k]
                        /\ p[60 + k] = I2cWrite(tx.value)[k]
  BY I2cWriteCode
<1>3. p[1] = I2cStart[1] /\ p[2] = I2cStart[2] /\ p[90] = I2cStop[1] /\ p[91] = I2cStop[2]
  <2>1. 1 \in 1..2 /\ 2 \in 1..2 /\ 89 + 1 = 90 /\ 89 + 2 = 91
    OBVIOUS
  <2>2. p[1] = I2cStart[1] /\ p[2] = I2cStart[2]
    BY <1>11, <2>1
  <2>3. p[89 + 1] = I2cStop[1] /\ p[89 + 2] = I2cStop[2]
    BY <1>11, <2>1
  <2> QED BY <2>1, <2>2, <2>3
<1>4. ASSUME NEW n \in 3..31
      PROVE  p[n] = I2cWrite(2 * tx.address)[n - 2] /\ p[n].v \in 0..1
  <2>1. n - 2 \in 1..29 /\ 2 + (n - 2) = n
    OBVIOUS
  <2> QED BY <1>1, <1>12, <2>1, I2cWriteValid
<1>5. ASSUME NEW n \in 32..60
      PROVE  p[n] = I2cWrite(tx.reg)[n - 31] /\ p[n].v \in 0..1
  <2>1. n - 31 \in 1..29 /\ 31 + (n - 31) = n
    OBVIOUS
  <2> QED BY <1>1, <1>12, <2>1, I2cWriteValid
<1>6. ASSUME NEW n \in 61..89
      PROVE  p[n] = I2cWrite(tx.value)[n - 60] /\ p[n].v \in 0..1
  <2>1. n - 60 \in 1..29 /\ 60 + (n - 60) = n
    OBVIOUS
  <2> QED BY <1>1, <1>12, <2>1, I2cWriteValid
<1>7. \A n \in {1, 2, 90, 91} : p[n].v \in 0..1
  BY <1>3, I2cShortValid
<1>8. \A n \in 1..91 : n \in {1, 2, 90, 91} \/ n \in 3..31 \/ n \in 32..60 \/ n \in 61..89
  OBVIOUS
<1>9. \A n \in 1..91 : p[n].v \in 0..1
  BY <1>4, <1>5, <1>6, <1>7, <1>8
<1>10. /\ p[2 + 29] = I2cStep("sda", 0) /\ p[2 + 28] = I2cStep("scl", 0)
       /\ p[2 + 27] = I2cStep("ack", 0)
  <2>1. 29 \in 1..29 /\ 28 \in 1..29 /\ 27 \in 1..29
    OBVIOUS
  <2>2. p[2 + 29] = I2cWrite(2 * tx.address)[29]
    BY <1>12, <2>1
  <2>3. p[2 + 28] = I2cWrite(2 * tx.address)[28]
    BY <1>12, <2>1
  <2>4. p[2 + 27] = I2cWrite(2 * tx.address)[27]
    BY <1>12, <2>1
  <2> QED BY <1>1, <2>2, <2>3, <2>4, I2cWriteIs
<1> QED BY <1>2, <1>3, <1>4, <1>5, <1>6, <1>9, <1>10

LEMMA I2cReadEnds ==
  ASSUME NEW tx \in I2cTransactions, tx.kind = "read", NEW p, p = I2cProgram(FALSE, tx)
  PROVE  /\ p[1] = I2cStart[1] /\ p[2] = I2cStart[2] /\ p[61] = I2cStop[1] /\ p[62] = I2cStop[2]
         /\ p[63] = I2cStart[1] /\ p[64] = I2cStart[2] /\ p[119] = I2cStop[1] /\ p[120] = I2cStop[2]
<1>1. \A k \in 1..2 : /\ p[k] = I2cStart[k] /\ p[60 + k] = I2cStop[k]
                       /\ p[62 + k] = I2cStart[k] /\ p[118 + k] = I2cStop[k]
  BY I2cReadCode
<1>2. /\ p[1] = I2cStart[1] /\ p[2] = I2cStart[2] /\ p[61] = I2cStop[1] /\ p[62] = I2cStop[2]
      /\ p[63] = I2cStart[1] /\ p[64] = I2cStart[2] /\ p[119] = I2cStop[1] /\ p[120] = I2cStop[2]
  <2>1. /\ 1 \in 1..2 /\ 2 \in 1..2 /\ 60 + 1 = 61 /\ 60 + 2 = 62 /\ 62 + 1 = 63 /\ 62 + 2 = 64
        /\ 118 + 1 = 119 /\ 118 + 2 = 120
    OBVIOUS
  <2>2. p[1] = I2cStart[1] /\ p[2] = I2cStart[2]
    BY <1>1, <2>1
  <2>3. p[60 + 1] = I2cStop[1] /\ p[60 + 2] = I2cStop[2]
    BY <1>1, <2>1
  <2>4. p[62 + 1] = I2cStart[1] /\ p[62 + 2] = I2cStart[2]
    BY <1>1, <2>1
  <2>5. p[118 + 1] = I2cStop[1] /\ p[118 + 2] = I2cStop[2]
    BY <1>1, <2>1
  <2> QED BY <2>1, <2>2, <2>3, <2>4, <2>5
<1> QED BY <1>2

LEMMA I2cReadSteps ==
  ASSUME NEW tx \in I2cTransactions, tx.kind = "read"
  PROVE  /\ \A n \in 3..31 : I2cProgram(FALSE, tx)[n] = I2cWrite(2 * tx.address)[n - 2]
         /\ \A n \in 32..60 : I2cProgram(FALSE, tx)[n] = I2cWrite(tx.reg)[n - 31]
         /\ \A n \in 65..93 : I2cProgram(FALSE, tx)[n] = I2cWrite(2 * tx.address + 1)[n - 64]
         /\ \A n \in 94..118 : I2cProgram(FALSE, tx)[n] = I2cRead[n - 93]
         /\ \A n \in 1..120 : I2cProgram(FALSE, tx)[n].v \in 0..1
<1>p. PICK p : p = I2cProgram(FALSE, tx)
  OBVIOUS
<1>1. tx.reg \in I2cByte /\ 2 * tx.address \in I2cByte /\ 2 * tx.address + 1 \in I2cByte
  BY I2cTxType, I2cSensorAssumption DEF I2cByte, PatMStatus, PatDYLow, PatBank, I2cAddress
<1>12. \A k \in 1..29 : /\ p[2 + k] = I2cWrite(2 * tx.address)[k]
                        /\ p[31 + k] = I2cWrite(tx.reg)[k]
                        /\ p[64 + k] = I2cWrite(2 * tx.address + 1)[k]
  BY <1>p, I2cReadCode
<1>13. \A k \in 1..25 : p[93 + k] = I2cRead[k]
  BY <1>p, I2cReadCode
<1>4. ASSUME NEW n \in 3..31
      PROVE  p[n] = I2cWrite(2 * tx.address)[n - 2] /\ p[n].v \in 0..1
  <2>1. n - 2 \in 1..29 /\ 2 + (n - 2) = n
    OBVIOUS
  <2> QED BY <1>1, <1>12, <2>1, I2cWriteValid
<1>5. ASSUME NEW n \in 32..60
      PROVE  p[n] = I2cWrite(tx.reg)[n - 31] /\ p[n].v \in 0..1
  <2>1. n - 31 \in 1..29 /\ 31 + (n - 31) = n
    OBVIOUS
  <2> QED BY <1>1, <1>12, <2>1, I2cWriteValid
<1>6. ASSUME NEW n \in 65..93
      PROVE  p[n] = I2cWrite(2 * tx.address + 1)[n - 64] /\ p[n].v \in 0..1
  <2>1. n - 64 \in 1..29 /\ 64 + (n - 64) = n
    OBVIOUS
  <2> QED BY <1>1, <1>12, <2>1, I2cWriteValid
<1>7. ASSUME NEW n \in 94..118
      PROVE  p[n] = I2cRead[n - 93] /\ p[n].v \in 0..1
  <2>1. n - 93 \in 1..25 /\ 93 + (n - 93) = n
    OBVIOUS
  <2> QED BY <1>13, <2>1, I2cReadValid
<1>8. \A n \in {1, 2, 61, 62, 63, 64, 119, 120} : p[n].v \in 0..1
  <2>1. p[1] = I2cStart[1] /\ p[2] = I2cStart[2] /\ p[61] = I2cStop[1] /\ p[62] = I2cStop[2]
    BY <1>p, I2cReadEnds, Zenon
  <2>2. p[63] = I2cStart[1] /\ p[64] = I2cStart[2] /\ p[119] = I2cStop[1] /\ p[120] = I2cStop[2]
    BY <1>p, I2cReadEnds, Zenon
  <2> QED BY <2>1, <2>2, I2cShortValid
<1>9. \A n \in 1..120 : \/ n \in {1, 2, 61, 62, 63, 64, 119, 120} \/ n \in 3..31 \/ n \in 32..60
                        \/ n \in 65..93 \/ n \in 94..118
  OBVIOUS
<1>10. \A n \in 1..120 : p[n].v \in 0..1
  BY <1>4, <1>5, <1>6, <1>7, <1>8, <1>9
<1> QED BY <1>p, <1>4, <1>5, <1>6, <1>7, <1>10

LEMMA I2cCodeLen ==
  ASSUME NEW tx \in I2cTransactions
  PROVE  Len(I2cProgram(FALSE, tx)) = IF tx.kind = "read" THEN 120 ELSE 91
<1>1. CASE tx.kind = "read"
  BY <1>1, I2cReadCode
<1>2. CASE tx.kind = "write"
  BY <1>2, I2cWriteCode
<1> QED BY <1>1, <1>2, I2cTxType

LEMMA I2cLineGo ==
  ASSUME I2cTypeOK, i2cTx # I2cIdle, ~i2cNative, I2cGo,
         NEW p, p = I2cProgram(FALSE, i2cTx)
  PROVE  /\ i2cTx \in I2cTransactions /\ i2cPc <= Len(p) /\ I2cLineStep(p[i2cPc])
         /\ i2cAck = 0 \/ p[i2cPc].op # "sda" \/ i2cPc >= Len(p) - 1 => i2cPc' = i2cPc + 1
         /\ i2cAck = 1 /\ p[i2cPc].op = "sda" /\ i2cPc < Len(p) - 1 => i2cPc' = Len(p) - 1
         /\ UNCHANGED <<patSensor, i2cNative, i2cTx, i2cShadow, i2cTransactions, i2cEvents>>
<1>1. i2cTx \in I2cTransactions /\ i2cNative \in BOOLEAN /\ i2cPc \in Nat /\ i2cAck \in 0..1
  BY DEF I2cTypeOK
<1>2. I2cCode = p
  BY <1>1, I2cCodeIs
<1>6. Len(p) \in Nat
  <2>1. Len(p) = IF i2cTx.kind = "read" THEN 120 ELSE 91
    BY <1>1, I2cCodeLen
  <2>2. 120 \in Nat /\ 91 \in Nat
    OBVIOUS
  <2> QED BY <2>1, <2>2, Zenon
<1>3. /\ i2cPc <= Len(p) /\ I2cLineStep(p[i2cPc])
      /\ i2cPc' = CASE p[i2cPc].op = "START" /\ i2cAck' = 1 -> Len(p)
                    [] p[i2cPc].op = "sda" /\ i2cAck = 1 /\ i2cPc < Len(p) - 1 -> Len(p) - 1
                    [] OTHER -> i2cPc + 1
      /\ UNCHANGED <<patSensor, i2cNative, i2cTx, i2cShadow, i2cTransactions, i2cEvents>>
  BY <1>2 DEF I2cGo
<1>4. p[i2cPc].op # "START"
  BY <1>3 DEF I2cLineStep
<1>7. PICK n \in Nat : n = Len(p)
  BY <1>6
<1>8. PICK s : s = p[i2cPc]
  OBVIOUS
<1>5. /\ i2cAck = 0 \/ s.op # "sda" \/ i2cPc >= n - 1 => i2cPc' = i2cPc + 1
      /\ i2cAck = 1 /\ s.op = "sda" /\ i2cPc < n - 1 => i2cPc' = n - 1
  <2>1. i2cPc' = CASE s.op = "START" /\ i2cAck' = 1 -> n
                   [] s.op = "sda" /\ i2cAck = 1 /\ i2cPc < n - 1 -> n - 1
                   [] OTHER -> i2cPc + 1
    BY <1>3, <1>7, <1>8
  <2>2. s.op # "START"
    BY <1>4, <1>8
  <2>3. CASE i2cAck = 0 \/ s.op # "sda"
    BY <1>1, <2>1, <2>2, <2>3
  <2>4. CASE s.op = "sda" /\ i2cAck = 1 /\ i2cPc >= n - 1
    <3>1. ~(i2cPc < n - 1)
      BY <1>1, <2>4
    <3> QED BY <2>1, <2>2, <2>4, <3>1
  <2>5. CASE s.op = "sda" /\ i2cAck = 1 /\ i2cPc < n - 1
    <3>1. ~(i2cPc >= n - 1)
      BY <1>1, <2>5
    <3> QED BY <2>1, <2>2, <2>5, <3>1
  <2> QED BY <1>1, <2>3, <2>4, <2>5
<1> QED BY <1>1, <1>3, <1>5, <1>7, <1>8

-----------------------------------------------------------------------------
\* A write on the lines, step by step.
LEMMA I2cWriteGo ==
  ASSUME I2cTypeOK, i2cTx # I2cIdle, ~i2cNative, I2cGo, i2cTx.kind = "write",
         i2cTx.address = I2cAddress, I2cWriteAt, i2cAck = 0,
         i2cPc \in 58..86 => i2cReg = i2cTx.reg, PatSetOk(i2cTx.reg)
  PROVE  /\ I2cWriteAt' /\ i2cPc' = i2cPc + 1 /\ i2cPc \in 1..91
         /\ UNCHANGED <<i2cFlag, i2cGot, i2cAck, i2cShown>>
         /\ i2cPc # 86 => UNCHANGED patMotion
         /\ i2cPc = 86 => /\ patRaw' = PatSet(patRaw, i2cTx.reg, i2cTx.value)
                          /\ UNCHANGED <<patLoading, patNudge, patDelta, patUntold, patLost>>
         /\ i2cPc = 57 => i2cReg' = i2cTx.reg
         /\ i2cPc \notin {57, 86} => i2cReg' = i2cReg
<1>p. PICK p : p = I2cProgram(FALSE, i2cTx)
  OBVIOUS
<1>1. /\ i2cTx \in I2cTransactions /\ i2cPc \in Nat /\ i2cTx' = i2cTx
  BY <1>p, I2cLineGo DEF I2cTypeOK
<1>a. PICK a \in I2cByte, r \in I2cByte, v \in I2cByte :
        a = 2 * I2cAddress /\ r = i2cTx.reg /\ v = i2cTx.value
  <2>1. 2 * I2cAddress \in I2cByte
    BY DEF I2cAddress, I2cByte
  <2>2. i2cTx.value \in I2cByte /\ i2cTx.reg \in {PatMStatus, PatDYLow, 14, PatBank}
    BY <1>1, I2cTxType
  <2>3. i2cTx.reg \in I2cByte
    BY <2>2 DEF I2cByte, PatMStatus, PatDYLow, PatBank
  <2> QED BY <2>1, <2>2, <2>3
<1>2. /\ a \in I2cByte /\ r \in I2cByte /\ v \in I2cByte
      /\ a = 2 * I2cAddress /\ r = i2cTx.reg /\ v = i2cTx.value
      /\ r = i2cTx'.reg /\ v = i2cTx'.value /\ a = 2 * i2cTx.address
  BY <1>1, <1>a
<1>3. I2cLineStep(p[i2cPc])
  BY <1>p, I2cLineGo
<1>4. /\ p[1] = I2cStart[1] /\ p[2] = I2cStart[2] /\ p[90] = I2cStop[1] /\ p[91] = I2cStop[2]
      /\ \A n \in 3..31 : p[n] = I2cWrite(a)[n - 2]
      /\ \A n \in 32..60 : p[n] = I2cWrite(r)[n - 31]
      /\ \A n \in 61..89 : p[n] = I2cWrite(v)[n - 60]
  <2>1. p = I2cProgram(FALSE, i2cTx) /\ i2cTx \in I2cTransactions /\ i2cTx.kind = "write"
    BY <1>p, <1>1
  <2>2. /\ p[1] = I2cStart[1] /\ p[2] = I2cStart[2] /\ p[90] = I2cStop[1] /\ p[91] = I2cStop[2]
        /\ \A n \in 3..31 : p[n] = I2cWrite(2 * i2cTx.address)[n - 2]
        /\ \A n \in 32..60 : p[n] = I2cWrite(i2cTx.reg)[n - 31]
        /\ \A n \in 61..89 : p[n] = I2cWrite(i2cTx.value)[n - 60]
    BY <2>1, I2cWriteSteps
  <2> QED BY <1>2, <2>2
<1>5. i2cPc' = i2cPc + 1
  BY <1>p, I2cLineGo
<1> DEFINE Goal ==
     /\ I2cWriteAt' /\ i2cPc \in 1..91
     /\ UNCHANGED <<i2cFlag, i2cGot, i2cAck, i2cShown>>
     /\ i2cPc # 86 => UNCHANGED patMotion
     /\ i2cPc = 86 => /\ patRaw' = PatSet(patRaw, r, v)
                      /\ UNCHANGED <<patLoading, patNudge, patDelta, patUntold, patLost>>
     /\ i2cPc = 57 => i2cReg' = r
     /\ i2cPc \notin {57, 86} => i2cReg' = i2cReg
<1> SUFFICES Goal
  BY <1>2, <1>5
<1>6. CASE I2cStarting(0)
  <2>1. i2cPc = 1 \/ i2cPc = 2
    BY <1>6 DEF I2cStarting
  <2>2. CASE i2cPc = 1
    <3>1. I2cLineStep(I2cStart[1]) /\ i2cPc = 0 + 1
      BY <1>3, <1>4, <2>2
    <3>2. I2cStarting(0)' /\ I2cCalm
      BY <1>6, <1>5, <3>1, I2cStartsA
    <3> QED BY <1>1, <1>5, <2>2, <3>2 DEF I2cWriteAt, I2cCalm
  <2>3. CASE i2cPc = 2
    <3>1. I2cLineStep(I2cStart[2]) /\ i2cPc = 0 + 2 /\ 2 = 0 + 2
      BY <1>3, <1>4, <2>3
    <3>2. I2cSending(2, a, "AddrIn")' /\ I2cCalm
      BY <1>2, <1>6, <1>5, <3>1, I2cStartsB
    <3> QED BY <1>1, <1>2, <1>5, <2>3, <3>2 DEF I2cWriteAt, I2cCalm
  <2> QED BY <2>1, <2>2, <2>3
<1>7. CASE I2cSending(2, a, "AddrIn")
  <2>1. i2cPc \in 3..28
    BY <1>7 DEF I2cSending
  <2>2. i2cPc <= 2 + 25 \/ i2cPc = 2 + 26
    BY <2>1
  <2>3. I2cLineStep(I2cWrite(a)[i2cPc - 2])
    BY <1>2, <1>3, <1>4, <2>1
  <2>4. CASE i2cPc <= 2 + 25
    <3>1. I2cSending(2, a, "AddrIn")' /\ I2cCalm
      BY <1>2, <1>7, <1>5, <2>3, <2>4, I2cSends
    <3>2. i2cPc \notin {57, 86, 95, 118} /\ i2cPc \in 1..31
      BY <2>1, <2>4
    <3> QED BY <1>1, <1>2, <1>5, <3>1, <3>2 DEF I2cWriteAt, I2cCalm
  <2>5. CASE i2cPc = 2 + 26
    <3>1. I2cLineStep(I2cWrite(a)[26])
      <4>1. i2cPc - 2 = 26
        BY <2>5
      <4> QED BY <2>3, <4>1
    <3>2. I2cAcked(2, "RegIn", "Reading")' /\ I2cCalm
      BY <1>2, <1>7, <1>5, <2>5, <3>1, I2cNinthWrites
    <3> QED BY <1>1, <1>2, <1>5, <2>5, <3>2 DEF I2cWriteAt, I2cCalm, I2cKeepAll, patMotion
  <2> QED BY <2>2, <2>4, <2>5
<1>8. CASE I2cAcked(2, "RegIn", "Reading")
  <2>1. i2cPc \in 29..31
    BY <1>8 DEF I2cAcked
  <2>2. i2cPc <= 2 + 28 \/ i2cPc = 2 + 29
    BY <2>1
  <2>3. I2cLineStep(I2cWrite(a)[i2cPc - 2])
    BY <1>2, <1>3, <1>4, <2>1
  <2>4. i2cPc \notin {57, 86, 95, 118} /\ i2cPc \in 1..31
    BY <2>1
  <2>5. CASE i2cPc <= 2 + 28
    <3>1. I2cAcked(2, "RegIn", "Reading")' /\ I2cCalm
      BY <1>2, <1>8, <1>5, <2>3, <2>5, I2cAcks
    <3> QED BY <1>1, <1>5, <2>4, <3>1 DEF I2cWriteAt, I2cCalm
  <2>6. CASE i2cPc = 2 + 29
    <3>1. I2cLineStep(I2cWrite(a)[29])
      <4>1. i2cPc - 2 = 29
        BY <2>6
      <4> QED BY <2>3, <4>1
    <3>2. /\ i2cPc' = 2 + 30 /\ i2cScl' = 0 /\ i2cLine' = "Reading" /\ i2cState' = "RegIn"
          /\ i2cCount' = 0 /\ i2cShift' = 0 /\ I2cCalm
      BY <1>2, <1>8, <1>5, <2>6, <3>1, I2cAcksLast
    <3>3. I2cSending(31, r, "RegIn")'
      BY <1>2, <3>2, I2cNextByte
    <3> QED BY <1>1, <1>2, <1>5, <2>4, <3>2, <3>3 DEF I2cWriteAt, I2cCalm
  <2> QED BY <2>2, <2>5, <2>6
<1>9. CASE I2cSending(31, r, "RegIn")
  <2>1. i2cPc \in 32..57
    BY <1>9 DEF I2cSending
  <2>2. i2cPc <= 31 + 25 \/ i2cPc = 31 + 26
    BY <2>1
  <2>3. I2cLineStep(I2cWrite(r)[i2cPc - 31])
    BY <1>2, <1>3, <1>4, <2>1
  <2>4. CASE i2cPc <= 31 + 25
    <3>1. I2cSending(31, r, "RegIn")' /\ I2cCalm
      BY <1>2, <1>9, <1>5, <2>3, <2>4, I2cSends
    <3>2. i2cPc \notin {57, 86, 95, 118} /\ i2cPc \in 1..60
      BY <2>1, <2>4
    <3> QED BY <1>1, <1>2, <1>5, <3>1, <3>2 DEF I2cWriteAt, I2cCalm
  <2>5. CASE i2cPc = 31 + 26
    <3>1. I2cLineStep(I2cWrite(r)[26])
      <4>1. i2cPc - 31 = 26
        BY <2>5
      <4> QED BY <2>3, <4>1
    <3>2. I2cAcked(31, "DataIn", "Reading")' /\ I2cKeepAll /\ i2cReg' = r
      BY <1>2, <1>9, <1>5, <2>5, <3>1, I2cNinthRegister
    <3> QED BY <1>1, <1>2, <1>5, <2>5, <3>2 DEF I2cWriteAt, I2cCalm, I2cKeepAll, patMotion
  <2> QED BY <2>2, <2>4, <2>5
<1>10. CASE I2cAcked(31, "DataIn", "Reading")
  <2>1. i2cPc \in 58..60
    BY <1>10 DEF I2cAcked
  <2>2. i2cPc <= 31 + 28 \/ i2cPc = 31 + 29
    BY <2>1
  <2>3. I2cLineStep(I2cWrite(r)[i2cPc - 31])
    BY <1>2, <1>3, <1>4, <2>1
  <2>4. i2cPc \notin {57, 86, 95, 118} /\ i2cPc \in 1..60
    BY <2>1
  <2>5. CASE i2cPc <= 31 + 28
    <3>1. I2cAcked(31, "DataIn", "Reading")' /\ I2cCalm
      BY <1>2, <1>10, <1>5, <2>3, <2>5, I2cAcks
    <3> QED BY <1>1, <1>5, <2>4, <3>1 DEF I2cWriteAt, I2cCalm
  <2>6. CASE i2cPc = 31 + 29
    <3>1. I2cLineStep(I2cWrite(r)[29])
      <4>1. i2cPc - 31 = 29
        BY <2>6
      <4> QED BY <2>3, <4>1
    <3>2. /\ i2cPc' = 31 + 30 /\ i2cScl' = 0 /\ i2cLine' = "Reading" /\ i2cState' = "DataIn"
          /\ i2cCount' = 0 /\ i2cShift' = 0 /\ I2cCalm
      BY <1>2, <1>10, <1>5, <2>6, <3>1, I2cAcksLast
    <3>3. I2cSending(60, v, "DataIn")'
      BY <1>2, <3>2, I2cNextByte
    <3> QED BY <1>1, <1>2, <1>5, <2>4, <3>2, <3>3 DEF I2cWriteAt, I2cCalm
  <2> QED BY <2>2, <2>5, <2>6
<1>b. i2cPc = 86 => i2cReg = r /\ PatSetOk(i2cReg)
  BY <1>2
<1>11. CASE I2cSending(60, v, "DataIn")
  <2>1. i2cPc \in 61..86
    BY <1>11 DEF I2cSending
  <2>2. i2cPc <= 60 + 25 \/ i2cPc = 60 + 26
    BY <2>1
  <2>3. I2cLineStep(I2cWrite(v)[i2cPc - 60])
    BY <1>2, <1>3, <1>4, <2>1
  <2>4. CASE i2cPc <= 60 + 25
    <3>1. I2cSending(60, v, "DataIn")' /\ I2cCalm
      BY <1>2, <1>11, <1>5, <2>3, <2>4, I2cSends
    <3>2. i2cPc \notin {57, 86, 95, 118} /\ i2cPc \in 1..89
      BY <2>1, <2>4
    <3> QED BY <1>1, <1>2, <1>5, <3>1, <3>2 DEF I2cWriteAt, I2cCalm
  <2>5. CASE i2cPc = 60 + 26
    <3>1. I2cLineStep(I2cWrite(v)[26])
      <4>1. i2cPc - 60 = 26
        BY <2>5
      <4> QED BY <2>3, <4>1
    <3>2. /\ I2cAcked(60, "DataIn", "Reading")' /\ patRaw' = PatSet(patRaw, i2cReg, v)
          /\ UNCHANGED <<patLoading, patNudge, patDelta, patUntold, patLost, i2cShown>>
          /\ UNCHANGED <<i2cFlag, i2cGot, i2cAck>>
      BY <1>2, <1>11, <1>5, <2>5, <3>1, <1>b, I2cNinthData
    <3> QED BY <1>1, <1>2, <1>5, <2>5, <3>2 DEF I2cWriteAt, I2cCalm, I2cKeepAll, patMotion
  <2> QED BY <2>2, <2>4, <2>5
<1>12. CASE I2cAcked(60, "DataIn", "Reading")
  <2>1. i2cPc \in 87..89
    BY <1>12 DEF I2cAcked
  <2>2. i2cPc <= 60 + 28 \/ i2cPc = 60 + 29
    BY <2>1
  <2>3. I2cLineStep(I2cWrite(v)[i2cPc - 60])
    BY <1>2, <1>3, <1>4, <2>1
  <2>4. i2cPc \notin {57, 86, 95, 118} /\ i2cPc \in 1..89
    BY <2>1
  <2>5. CASE i2cPc <= 60 + 28
    <3>1. I2cAcked(60, "DataIn", "Reading")' /\ I2cCalm
      BY <1>2, <1>12, <1>5, <2>3, <2>5, I2cAcks
    <3> QED BY <1>1, <1>5, <2>4, <3>1 DEF I2cWriteAt, I2cCalm
  <2>6. CASE i2cPc = 60 + 29
    <3>1. I2cLineStep(I2cWrite(v)[29])
      <4>1. i2cPc - 60 = 29
        BY <2>6
      <4> QED BY <2>3, <4>1
    <3>2. /\ i2cPc' = 60 + 30 /\ i2cScl' = 0 /\ i2cLine' = "Reading" /\ i2cState' = "DataIn"
          /\ i2cCount' = 0 /\ i2cShift' = 0 /\ I2cCalm
      BY <1>2, <1>12, <1>5, <2>6, <3>1, I2cAcksLast
    <3>3. I2cStopping(89)'
      BY <3>2 DEF I2cStopping
    <3> QED BY <1>1, <1>2, <1>5, <2>4, <3>2, <3>3 DEF I2cWriteAt, I2cCalm
  <2> QED BY <2>2, <2>5, <2>6
<1>13. CASE I2cStopping(89)
  <2>1. i2cPc = 89 + 1 \/ i2cPc = 89 + 2
    BY <1>13 DEF I2cStopping
  <2>2. CASE i2cPc = 89 + 1
    <3>1. I2cLineStep(I2cStop[1])
      BY <1>3, <1>4, <2>2
    <3>2. I2cStopping(89)' /\ I2cCalm
      BY <1>13, <1>5, <2>2, <3>1, I2cStopsA
    <3> QED BY <1>1, <1>5, <2>2, <3>2 DEF I2cWriteAt, I2cCalm
  <2>3. CASE i2cPc = 89 + 2
    <3>1. I2cLineStep(I2cStop[2]) /\ 91 = 89 + 2
      BY <1>3, <1>4, <2>3
    <3>2. i2cPc' = 91 + 1 /\ i2cScl' = 1 /\ i2cSda' = 1 /\ I2cCalm
      BY <1>13, <1>5, <2>3, <3>1, I2cStopsB
    <3>3. I2cStopped(91)'
      BY <3>2 DEF I2cStopped
    <3> QED BY <1>1, <1>5, <2>3, <3>2, <3>3 DEF I2cWriteAt, I2cCalm
  <2> QED BY <2>1, <2>2, <2>3
<1>14. ~I2cStopped(91)
  <2>1. i2cPc <= Len(p)
    BY <1>p, I2cLineGo
  <2>2. Len(p) = 91
    BY <1>1, <1>p, I2cWriteSteps
  <2>3. i2cPc <= 91
    BY <1>1, <2>1, <2>2, Zenon
  <2> QED BY <1>1, <2>3 DEF I2cStopped
<1> HIDE DEF Goal
<1> QED BY <1>2, <1>6, <1>7, <1>8, <1>9, <1>10, <1>11, <1>12, <1>13, <1>14 DEF I2cWriteAt

-----------------------------------------------------------------------------
\* A write to a device that is not there, step by step.
LEMMA I2cOtherGo ==
  ASSUME I2cTypeOK, i2cTx # I2cIdle, ~i2cNative, I2cGo, i2cTx.kind = "write",
         i2cTx.address = I2cOther, I2cOtherAt, i2cPc <= 28 => i2cAck = 0
  PROVE  /\ I2cOtherAt' /\ i2cPc' \in 2..92 /\ (i2cPc' <= 28 => i2cAck' = 0)
         /\ UNCHANGED <<patMotion, i2cShown, i2cReg, i2cFlag, i2cGot>>
<1>p. PICK p : p = I2cProgram(FALSE, i2cTx)
  OBVIOUS
<1>1. /\ i2cTx \in I2cTransactions /\ i2cPc \in Nat /\ i2cTx' = i2cTx
  BY <1>p, I2cLineGo DEF I2cTypeOK
<1>a. PICK a \in I2cByte : a = 2 * I2cOther
  <2>1. 2 * I2cOther \in I2cByte
    BY I2cSensorAssumption DEF I2cByte
  <2> QED BY <2>1
<1>2. a \in I2cByte /\ a = 2 * I2cOther
  BY <1>a
<1>3. I2cLineStep(p[i2cPc])
  BY <1>p, I2cLineGo
<1>b. /\ p = I2cProgram(FALSE, i2cTx) /\ i2cTx \in I2cTransactions /\ i2cTx.kind = "write"
      /\ i2cTx.address = I2cOther
  BY <1>p, <1>1
<1>4. /\ p[1] = I2cStart[1] /\ p[2] = I2cStart[2] /\ p[90] = I2cStop[1] /\ p[91] = I2cStop[2]
      /\ \A n \in 3..31 : p[n] = I2cWrite(a)[n - 2]
  <2>1. /\ p[1] = I2cStart[1] /\ p[2] = I2cStart[2] /\ p[90] = I2cStop[1] /\ p[91] = I2cStop[2]
        /\ \A n \in 3..31 : p[n] = I2cWrite(2 * i2cTx.address)[n - 2]
    BY <1>b, I2cWriteSteps
  <2> QED BY <1>2, <1>b, <2>1
<1>c. Len(p) = 91
  BY <1>b, I2cWriteSteps
<1>d. PICK n \in Nat : n = Len(p) /\ n = 91
  BY <1>c
<1>e. /\ i2cAck = 0 \/ p[i2cPc].op # "sda" \/ i2cPc >= 90 => i2cPc' = i2cPc + 1
      /\ i2cAck = 1 /\ p[i2cPc].op = "sda" /\ i2cPc < 90 => i2cPc' = 90
      /\ i2cPc <= 91
  <2>1. /\ i2cPc <= Len(p)
        /\ i2cAck = 0 \/ p[i2cPc].op # "sda" \/ i2cPc >= Len(p) - 1 => i2cPc' = i2cPc + 1
        /\ i2cAck = 1 /\ p[i2cPc].op = "sda" /\ i2cPc < Len(p) - 1 => i2cPc' = Len(p) - 1
    BY <1>b, I2cLineGo
  <2>2. /\ i2cPc <= n
        /\ i2cAck = 0 \/ p[i2cPc].op # "sda" \/ i2cPc >= n - 1 => i2cPc' = i2cPc + 1
        /\ i2cAck = 1 /\ p[i2cPc].op = "sda" /\ i2cPc < n - 1 => i2cPc' = n - 1
    BY <1>d, <2>1, Zenon
  <2>3. n = 91 /\ n - 1 = 90
    BY <1>d
  <2> QED BY <2>2, <2>3, Zenon
<1> DEFINE Goal ==
     /\ I2cOtherAt' /\ i2cPc' \in 2..92 /\ (i2cPc' <= 28 => i2cAck' = 0)
     /\ UNCHANGED <<patMotion, i2cShown, i2cReg, i2cFlag, i2cGot>>
<1> SUFFICES Goal
  OBVIOUS
<1>6. CASE I2cStarting(0)
  <2>8. i2cPc \in 1..28 /\ i2cAck = 0
    BY <1>6 DEF I2cStarting
  <2>9. i2cPc' = i2cPc + 1 /\ i2cAck = 0
    BY <1>e, <2>8
  <2>1. i2cPc = 1 \/ i2cPc = 2
    BY <1>6 DEF I2cStarting
  <2>2. CASE i2cPc = 1
    <3>1. I2cLineStep(I2cStart[1]) /\ i2cPc = 0 + 1
      BY <1>3, <1>4, <2>2
    <3>2. I2cStarting(0)' /\ I2cCalm
      BY <1>6, <2>9, <3>1, I2cStartsA
    <3> QED BY <1>1, <2>9, <2>2, <3>2 DEF I2cOtherAt, I2cCalm
  <2>3. CASE i2cPc = 2
    <3>1. I2cLineStep(I2cStart[2]) /\ i2cPc = 0 + 2 /\ 2 = 0 + 2
      BY <1>3, <1>4, <2>3
    <3>2. I2cSending(2, a, "AddrIn")' /\ I2cCalm
      BY <1>2, <1>6, <2>9, <3>1, I2cStartsB
    <3> QED BY <1>1, <1>2, <2>9, <2>3, <3>2 DEF I2cOtherAt, I2cCalm
  <2> QED BY <2>1, <2>2, <2>3
<1>7. CASE I2cSending(2, a, "AddrIn")
  <2>8. i2cPc \in 1..28 /\ i2cAck = 0
    BY <1>7 DEF I2cSending
  <2>9. i2cPc' = i2cPc + 1 /\ i2cAck = 0
    BY <1>e, <2>8
  <2>1. i2cPc \in 3..28
    BY <1>7 DEF I2cSending
  <2>2. i2cPc <= 2 + 25 \/ i2cPc = 2 + 26
    BY <2>1
  <2>3. I2cLineStep(I2cWrite(a)[i2cPc - 2])
    BY <1>2, <1>3, <1>4, <2>1
  <2>4. CASE i2cPc <= 2 + 25
    <3>1. I2cSending(2, a, "AddrIn")' /\ I2cCalm
      BY <1>2, <1>7, <2>9, <2>3, <2>4, I2cSends
    <3>2. i2cPc \notin {57, 86, 95, 118} /\ i2cPc \in 1..31
      BY <2>1, <2>4
    <3> QED BY <1>1, <1>2, <2>9, <3>1, <3>2 DEF I2cOtherAt, I2cCalm
  <2>5. CASE i2cPc = 2 + 26
    <3>1. I2cLineStep(I2cWrite(a)[26])
      <4>1. i2cPc - 2 = 26
        BY <2>5
      <4> QED BY <2>3, <4>1
    <3>2. I2cRefused(2)' /\ I2cCalm
      BY <1>2, <1>7, <2>9, <2>5, <3>1, I2cNinthRefused
    <3> QED BY <1>1, <1>2, <2>9, <2>5, <3>2 DEF I2cOtherAt, I2cCalm, I2cKeepAll, patMotion
  <2> QED BY <2>2, <2>4, <2>5
<1>8. CASE I2cRefused(2)
  <2>1. i2cPc \in 29..31 /\ (i2cPc > 29 => i2cAck = 1)
    BY <1>8 DEF I2cRefused
  <2>2. I2cLineStep(I2cWrite(a)[i2cPc - 2])
    BY <1>3, <1>4, <2>1
  <2>3. CASE i2cPc = 29 \/ i2cPc = 30
    <3>1. p[i2cPc] = I2cStep("ack", 0) \/ p[i2cPc] = I2cStep("scl", 0)
      <4>1. /\ p[2 + 28] = I2cStep("scl", 0) /\ p[2 + 27] = I2cStep("ack", 0)
        BY <1>b, I2cWriteSteps
      <4>2. 2 + 27 = 29 /\ 2 + 28 = 30
        OBVIOUS
      <4> QED BY <2>3, <4>1, <4>2
    <3>2. p[i2cPc].op # "sda"
      BY <3>1, I2cStepIs
    <3>3. i2cPc' = i2cPc + 1
      BY <1>e, <3>2
    <3>4. i2cPc <= 2 + 28
      BY <2>3
    <3>5. I2cRefused(2)' /\ UNCHANGED <<patMotion, i2cShown, i2cReg, i2cFlag, i2cGot>>
      BY <1>2, <1>8, <2>2, <3>3, <3>4, I2cRefuses
    <3> QED BY <2>3, <3>3, <3>5 DEF I2cOtherAt
  <2>4. CASE i2cPc = 31
    <3>1. p[i2cPc].op = "sda"
      <4>1. p[2 + 29] = I2cStep("sda", 0)
        BY <1>b, I2cWriteSteps
      <4>2. 2 + 29 = 31
        OBVIOUS
      <4>3. p[i2cPc] = I2cStep("sda", 0)
        BY <2>4, <4>1, <4>2
      <4> QED BY <4>3, I2cStepIs
    <3>2. i2cPc' = 89 + 1 /\ i2cPc = 2 + 29
      BY <1>e, <2>1, <2>4, <3>1
    <3>3. I2cLineStep(I2cWrite(a)[29])
      <4>1. i2cPc - 2 = 29
        BY <2>4
      <4> QED BY <2>2, <4>1
    <3>4. I2cStopping(89)' /\ I2cCalm
      BY <1>2, <1>8, <3>2, <3>3, I2cRefusedLast
    <3> QED BY <3>2, <3>4 DEF I2cOtherAt, I2cCalm
  <2> QED BY <2>1, <2>3, <2>4
<1>9. CASE I2cStopping(89)
  <2>9. i2cPc' = i2cPc + 1
    <3>1. i2cPc = 90 \/ i2cPc = 91
      BY <1>9 DEF I2cStopping
    <3>2. i2cPc = 90 => p[i2cPc].op # "sda"
      <4>1. p[90] = I2cStep("scl", 1)
        BY <1>4, I2cShortIs
      <4> QED BY <4>1, I2cStepIs
    <3> QED BY <1>1, <1>e, <3>1, <3>2
  <2>1. i2cPc = 89 + 1 \/ i2cPc = 89 + 2
    BY <1>9 DEF I2cStopping
  <2>2. CASE i2cPc = 89 + 1
    <3>1. I2cLineStep(I2cStop[1])
      BY <1>3, <1>4, <2>2
    <3>2. I2cStopping(89)' /\ I2cCalm
      BY <1>9, <2>9, <2>2, <3>1, I2cStopsA
    <3> QED BY <1>1, <2>9, <2>2, <3>2 DEF I2cOtherAt, I2cCalm
  <2>3. CASE i2cPc = 89 + 2
    <3>1. I2cLineStep(I2cStop[2]) /\ 91 = 89 + 2
      BY <1>3, <1>4, <2>3
    <3>2. i2cPc' = 91 + 1 /\ i2cScl' = 1 /\ i2cSda' = 1 /\ I2cCalm
      BY <1>9, <2>9, <2>3, <3>1, I2cStopsB
    <3>3. I2cStopped(91)'
      BY <3>2 DEF I2cStopped
    <3> QED BY <1>1, <2>9, <2>3, <3>2, <3>3 DEF I2cOtherAt, I2cCalm
  <2> QED BY <2>1, <2>2, <2>3
<1>10. ~I2cStopped(91)
  BY <1>1, <1>e DEF I2cStopped
<1> HIDE DEF Goal
<1> QED BY <1>2, <1>6, <1>7, <1>8, <1>9, <1>10 DEF I2cOtherAt

-----------------------------------------------------------------------------
\* A read on the lines, step by step.
LEMMA I2cReadGo ==
  ASSUME I2cTypeOK, i2cTx # I2cIdle, ~i2cNative, I2cGo, i2cTx.kind = "read",
         i2cTx.address = I2cAddress, I2cReadAt, i2cAck = 0,
         i2cPc = 95 => PatAnswer(i2cReg) \in I2cByte /\ i2cReg = i2cTx.reg,
         i2cPc <= 95 => i2cShown = I2cNothing /\ i2cGot = 0
  PROVE  /\ I2cReadAt' /\ i2cPc' = i2cPc + 1 /\ i2cPc \in 1..120
         /\ i2cFlag' = i2cFlag /\ i2cAck' = i2cAck
         /\ i2cPc # 95 => UNCHANGED <<patMotion, i2cShown>>
         /\ i2cPc = 95 => PatGetRegVal(i2cReg)
         /\ i2cPc = 57 => i2cReg' = i2cTx.reg
         /\ i2cPc # 57 => i2cReg' = i2cReg
         /\ i2cPc \notin 96..118 => i2cGot' = i2cGot
         /\ i2cPc = 118 => i2cGot' = i2cShown
<1>p. PICK p : p = I2cProgram(FALSE, i2cTx)
  OBVIOUS
<1>1. /\ i2cTx \in I2cTransactions /\ i2cPc \in Nat /\ i2cTx' = i2cTx
  BY <1>p, I2cLineGo DEF I2cTypeOK
<1>a. PICK a \in I2cByte, r \in I2cByte, v \in I2cByte :
        a = 2 * I2cAddress /\ r = i2cTx.reg /\ v = 2 * I2cAddress + 1
  <2>1. 2 * I2cAddress \in I2cByte /\ 2 * I2cAddress + 1 \in I2cByte
    BY DEF I2cAddress, I2cByte
  <2>2. i2cTx.reg \in {PatMStatus, PatDYLow, 14, PatBank}
    BY <1>1, I2cTxType
  <2>3. i2cTx.reg \in I2cByte
    BY <2>2 DEF I2cByte, PatMStatus, PatDYLow, PatBank
  <2> QED BY <2>1, <2>3
<1>2. /\ a \in I2cByte /\ r \in I2cByte /\ v \in I2cByte
      /\ a = 2 * I2cAddress /\ r = i2cTx.reg /\ v = 2 * I2cAddress + 1
      /\ r = i2cTx'.reg /\ a = 2 * i2cTx.address /\ v = 2 * i2cTx.address + 1
  BY <1>1, <1>a
<1>3. I2cLineStep(p[i2cPc])
  BY <1>p, I2cLineGo
<1>b. p = I2cProgram(FALSE, i2cTx) /\ i2cTx \in I2cTransactions /\ i2cTx.kind = "read"
  BY <1>p, <1>1
<1>4. /\ p[1] = I2cStart[1] /\ p[2] = I2cStart[2] /\ p[61] = I2cStop[1] /\ p[62] = I2cStop[2]
      /\ p[63] = I2cStart[1] /\ p[64] = I2cStart[2] /\ p[119] = I2cStop[1] /\ p[120] = I2cStop[2]
      /\ \A n \in 3..31 : p[n] = I2cWrite(a)[n - 2]
      /\ \A n \in 32..60 : p[n] = I2cWrite(r)[n - 31]
      /\ \A n \in 65..93 : p[n] = I2cWrite(v)[n - 64]
      /\ \A n \in 94..118 : p[n] = I2cRead[n - 93]
  <2>1. PICK t \in I2cTransactions : t = i2cTx
    BY <1>b
  <2>2. p = I2cProgram(FALSE, t) /\ t.kind = "read"
    BY <1>b, <2>1
  <2>3. /\ p[1] = I2cStart[1] /\ p[2] = I2cStart[2] /\ p[61] = I2cStop[1] /\ p[62] = I2cStop[2]
        /\ p[63] = I2cStart[1] /\ p[64] = I2cStart[2] /\ p[119] = I2cStop[1] /\ p[120] = I2cStop[2]
    BY <2>2, I2cReadEnds
  <2>4. \A n \in 3..31 : p[n] = I2cWrite(2 * t.address)[n - 2]
    BY <2>1, <2>2, I2cReadSteps
  <2>5. \A n \in 32..60 : p[n] = I2cWrite(t.reg)[n - 31]
    BY <2>1, <2>2, I2cReadSteps
  <2>6. \A n \in 65..93 : p[n] = I2cWrite(2 * t.address + 1)[n - 64]
    BY <2>1, <2>2, I2cReadSteps
  <2>7. \A n \in 94..118 : p[n] = I2cRead[n - 93]
    BY <2>1, <2>2, I2cReadSteps
  <2> QED BY <1>2, <2>1, <2>3, <2>4, <2>5, <2>6, <2>7
<1>5. i2cPc' = i2cPc + 1
  BY <1>p, I2cLineGo
<1> DEFINE Goal ==
     /\ I2cReadAt' /\ i2cPc \in 1..120
     /\ i2cFlag' = i2cFlag /\ i2cAck' = i2cAck
     /\ i2cPc # 95 => UNCHANGED <<patMotion, i2cShown>>
     /\ i2cPc = 95 => PatGetRegVal(i2cReg)
     /\ i2cPc = 57 => i2cReg' = r
     /\ i2cPc # 57 => i2cReg' = i2cReg
     /\ i2cPc \notin 96..118 => i2cGot' = i2cGot
     /\ i2cPc = 118 => i2cGot' = i2cShown
<1> SUFFICES Goal
  BY <1>2, <1>5
<1>6. CASE I2cStarting(0)
  <2>1. i2cPc = 1 \/ i2cPc = 2
    BY <1>6 DEF I2cStarting
  <2>2. CASE i2cPc = 1
    <3>1. I2cLineStep(I2cStart[1]) /\ i2cPc = 0 + 1
      BY <1>3, <1>4, <2>2
    <3>2. I2cStarting(0)' /\ I2cCalm
      BY <1>6, <1>5, <3>1, I2cStartsA
    <3> QED BY <1>1, <1>5, <2>2, <3>2 DEF I2cReadAt, I2cCalm
  <2>3. CASE i2cPc = 2
    <3>1. I2cLineStep(I2cStart[2]) /\ i2cPc = 0 + 2 /\ 2 = 0 + 2
      BY <1>3, <1>4, <2>3
    <3>2. I2cSending(2, a, "AddrIn")' /\ I2cCalm
      BY <1>2, <1>6, <1>5, <3>1, I2cStartsB
    <3> QED BY <1>1, <1>2, <1>5, <2>3, <3>2 DEF I2cReadAt, I2cCalm
  <2> QED BY <2>1, <2>2, <2>3
<1>7. CASE I2cSending(2, a, "AddrIn")
  <2>1. i2cPc \in 3..28
    BY <1>7 DEF I2cSending
  <2>2. i2cPc <= 2 + 25 \/ i2cPc = 2 + 26
    BY <2>1
  <2>3. I2cLineStep(I2cWrite(a)[i2cPc - 2])
    BY <1>2, <1>3, <1>4, <2>1
  <2>4. CASE i2cPc <= 2 + 25
    <3>1. I2cSending(2, a, "AddrIn")' /\ I2cCalm
      BY <1>2, <1>7, <1>5, <2>3, <2>4, I2cSends
    <3>2. i2cPc \notin {57, 95, 118} /\ i2cPc \in 1..31
      BY <2>1, <2>4
    <3> QED BY <1>1, <1>2, <1>5, <3>1, <3>2 DEF I2cReadAt, I2cCalm
  <2>5. CASE i2cPc = 2 + 26
    <3>1. I2cLineStep(I2cWrite(a)[26])
      <4>1. i2cPc - 2 = 26
        BY <2>5
      <4> QED BY <2>3, <4>1
    <3>2. I2cAcked(2, "RegIn", "Reading")' /\ I2cCalm
      BY <1>2, <1>7, <1>5, <2>5, <3>1, I2cNinthWrites
    <3> QED BY <1>1, <1>2, <1>5, <2>5, <3>2 DEF I2cReadAt, I2cCalm, I2cKeepAll, patMotion
  <2> QED BY <2>2, <2>4, <2>5
<1>8. CASE I2cAcked(2, "RegIn", "Reading")
  <2>1. i2cPc \in 29..31
    BY <1>8 DEF I2cAcked
  <2>2. i2cPc <= 2 + 28 \/ i2cPc = 2 + 29
    BY <2>1
  <2>3. I2cLineStep(I2cWrite(a)[i2cPc - 2])
    BY <1>2, <1>3, <1>4, <2>1
  <2>4. i2cPc \notin {57, 95, 118} /\ i2cPc \in 1..31
    BY <2>1
  <2>5. CASE i2cPc <= 2 + 28
    <3>1. I2cAcked(2, "RegIn", "Reading")' /\ I2cCalm
      BY <1>2, <1>8, <1>5, <2>3, <2>5, I2cAcks
    <3> QED BY <1>1, <1>5, <2>4, <3>1 DEF I2cReadAt, I2cCalm
  <2>6. CASE i2cPc = 2 + 29
    <3>1. I2cLineStep(I2cWrite(a)[29])
      <4>1. i2cPc - 2 = 29
        BY <2>6
      <4> QED BY <2>3, <4>1
    <3>2. /\ i2cPc' = 2 + 30 /\ i2cScl' = 0 /\ i2cLine' = "Reading" /\ i2cState' = "RegIn"
          /\ i2cCount' = 0 /\ i2cShift' = 0 /\ I2cCalm
      BY <1>2, <1>8, <1>5, <2>6, <3>1, I2cAcksLast
    <3>3. I2cSending(31, r, "RegIn")'
      BY <1>2, <3>2, I2cNextByte
    <3> QED BY <1>1, <1>2, <1>5, <2>4, <3>2, <3>3 DEF I2cReadAt, I2cCalm
  <2> QED BY <2>2, <2>5, <2>6
<1>9. CASE I2cSending(31, r, "RegIn")
  <2>1. i2cPc \in 32..57
    BY <1>9 DEF I2cSending
  <2>2. i2cPc <= 31 + 25 \/ i2cPc = 31 + 26
    BY <2>1
  <2>3. I2cLineStep(I2cWrite(r)[i2cPc - 31])
    BY <1>2, <1>3, <1>4, <2>1
  <2>4. CASE i2cPc <= 31 + 25
    <3>1. I2cSending(31, r, "RegIn")' /\ I2cCalm
      BY <1>2, <1>9, <1>5, <2>3, <2>4, I2cSends
    <3>2. i2cPc \notin {57, 95, 118} /\ i2cPc \in 1..60
      BY <2>1, <2>4
    <3> QED BY <1>1, <1>2, <1>5, <3>1, <3>2 DEF I2cReadAt, I2cCalm
  <2>5. CASE i2cPc = 31 + 26
    <3>1. I2cLineStep(I2cWrite(r)[26])
      <4>1. i2cPc - 31 = 26
        BY <2>5
      <4> QED BY <2>3, <4>1
    <3>2. I2cAcked(31, "DataIn", "Reading")' /\ I2cKeepAll /\ i2cReg' = r
      BY <1>2, <1>9, <1>5, <2>5, <3>1, I2cNinthRegister
    <3> QED BY <1>1, <1>2, <1>5, <2>5, <3>2 DEF I2cReadAt, I2cCalm, I2cKeepAll, patMotion
  <2> QED BY <2>2, <2>4, <2>5
<1>10. CASE I2cAcked(31, "DataIn", "Reading")
  <2>1. i2cPc \in 58..60
    BY <1>10 DEF I2cAcked
  <2>2. i2cPc <= 31 + 28 \/ i2cPc = 31 + 29
    BY <2>1
  <2>3. I2cLineStep(I2cWrite(r)[i2cPc - 31])
    BY <1>2, <1>3, <1>4, <2>1
  <2>4. i2cPc \notin {57, 95, 118} /\ i2cPc \in 1..60
    BY <2>1
  <2>5. CASE i2cPc <= 31 + 28
    <3>1. I2cAcked(31, "DataIn", "Reading")' /\ I2cCalm
      BY <1>2, <1>10, <1>5, <2>3, <2>5, I2cAcks
    <3> QED BY <1>1, <1>5, <2>4, <3>1 DEF I2cReadAt, I2cCalm
  <2>6. CASE i2cPc = 31 + 29
    <3>1. I2cLineStep(I2cWrite(r)[29])
      <4>1. i2cPc - 31 = 29
        BY <2>6
      <4> QED BY <2>3, <4>1
    <3>2. /\ i2cPc' = 31 + 30 /\ i2cScl' = 0 /\ i2cLine' = "Reading" /\ i2cState' = "DataIn"
          /\ i2cCount' = 0 /\ i2cShift' = 0 /\ I2cCalm
      BY <1>2, <1>10, <1>5, <2>6, <3>1, I2cAcksLast
    <3>3. I2cStopping(60)'
      BY <3>2 DEF I2cStopping
    <3> QED BY <1>1, <1>2, <1>5, <2>4, <3>2, <3>3 DEF I2cReadAt, I2cCalm
  <2> QED BY <2>2, <2>5, <2>6
<1>11. CASE I2cStopping(60)
  <2>1. i2cPc = 60 + 1 \/ i2cPc = 60 + 2
    BY <1>11 DEF I2cStopping
  <2>2. CASE i2cPc = 60 + 1
    <3>1. I2cLineStep(I2cStop[1])
      BY <1>3, <1>4, <2>2
    <3>2. I2cStopping(60)' /\ I2cCalm
      BY <1>11, <1>5, <2>2, <3>1, I2cStopsA
    <3> QED BY <1>1, <1>5, <2>2, <3>2 DEF I2cReadAt, I2cCalm
  <2>3. CASE i2cPc = 60 + 2
    <3>1. I2cLineStep(I2cStop[2]) /\ 62 = 60 + 2
      BY <1>3, <1>4, <2>3
    <3>2. i2cPc' = 62 + 1 /\ i2cScl' = 1 /\ i2cSda' = 1 /\ I2cCalm
      BY <1>11, <1>5, <2>3, <3>1, I2cStopsB
    <3>3. I2cStarting(62)'
      BY <3>2 DEF I2cStarting
    <3> QED BY <1>1, <1>5, <2>3, <3>2, <3>3 DEF I2cReadAt, I2cCalm
  <2> QED BY <2>1, <2>2, <2>3
<1>12. CASE I2cStarting(62)
  <2>1. i2cPc = 63 \/ i2cPc = 64
    BY <1>12 DEF I2cStarting
  <2>2. CASE i2cPc = 63
    <3>1. I2cLineStep(I2cStart[1]) /\ i2cPc = 62 + 1
      BY <1>3, <1>4, <2>2
    <3>2. I2cStarting(62)' /\ I2cCalm
      BY <1>12, <1>5, <3>1, I2cStartsA
    <3> QED BY <1>1, <1>5, <2>2, <3>2 DEF I2cReadAt, I2cCalm
  <2>3. CASE i2cPc = 64
    <3>1. I2cLineStep(I2cStart[2]) /\ i2cPc = 62 + 2 /\ 64 = 62 + 2
      BY <1>3, <1>4, <2>3
    <3>2. I2cSending(64, v, "AddrIn")' /\ I2cCalm
      BY <1>2, <1>12, <1>5, <3>1, I2cStartsB
    <3> QED BY <1>1, <1>2, <1>5, <2>3, <3>2 DEF I2cReadAt, I2cCalm
  <2> QED BY <2>1, <2>2, <2>3
<1>13. CASE I2cSending(64, v, "AddrIn")
  <2>1. i2cPc \in 65..90
    BY <1>13 DEF I2cSending
  <2>2. i2cPc <= 64 + 25 \/ i2cPc = 64 + 26
    BY <2>1
  <2>3. I2cLineStep(I2cWrite(v)[i2cPc - 64])
    BY <1>2, <1>3, <1>4, <2>1
  <2>4. CASE i2cPc <= 64 + 25
    <3>1. I2cSending(64, v, "AddrIn")' /\ I2cCalm
      BY <1>2, <1>13, <1>5, <2>3, <2>4, I2cSends
    <3>2. i2cPc \notin {57, 95, 118} /\ i2cPc \in 1..93
      BY <2>1, <2>4
    <3> QED BY <1>1, <1>2, <1>5, <3>1, <3>2 DEF I2cReadAt, I2cCalm
  <2>5. CASE i2cPc = 64 + 26
    <3>1. I2cLineStep(I2cWrite(v)[26])
      <4>1. i2cPc - 64 = 26
        BY <2>5
      <4> QED BY <2>3, <4>1
    <3>2. I2cAcked(64, "AddrIn", "Writing")' /\ I2cCalm
      BY <1>2, <1>13, <1>5, <2>5, <3>1, I2cNinthReads
    <3> QED BY <1>1, <1>2, <1>5, <2>5, <3>2 DEF I2cReadAt, I2cCalm, I2cKeepAll, patMotion
  <2> QED BY <2>2, <2>4, <2>5
<1>14. CASE I2cAcked(64, "AddrIn", "Writing")
  <2>1. i2cPc \in 91..93
    BY <1>14 DEF I2cAcked
  <2>2. i2cPc <= 64 + 28 \/ i2cPc = 64 + 29
    BY <2>1
  <2>3. I2cLineStep(I2cWrite(v)[i2cPc - 64])
    BY <1>2, <1>3, <1>4, <2>1
  <2>4. i2cPc \notin {57, 95, 118} /\ i2cPc \in 1..93
    BY <2>1
  <2>5. CASE i2cPc <= 64 + 28
    <3>1. I2cAcked(64, "AddrIn", "Writing")' /\ I2cCalm
      BY <1>2, <1>14, <1>5, <2>3, <2>5, I2cAcks
    <3> QED BY <1>1, <1>5, <2>4, <3>1 DEF I2cReadAt, I2cCalm
  <2>6. CASE i2cPc = 64 + 29
    <3>1. I2cLineStep(I2cWrite(v)[29])
      <4>1. i2cPc - 64 = 29
        BY <2>6
      <4> QED BY <2>3, <4>1
    <3>2. /\ i2cPc' = 64 + 30 /\ i2cScl' = 0 /\ i2cLine' = "Writing" /\ i2cState' = "AddrIn"
          /\ i2cCount' = 0 /\ i2cShift' = 0 /\ I2cCalm
      BY <1>2, <1>14, <1>5, <2>6, <3>1, I2cAcksLast
    <3>3. I2cReading(93)'
      <4>1. i2cGot' = 0 /\ i2cShown' = I2cNothing
        BY <2>6, <3>2 DEF I2cCalm
      <4> QED BY <3>2, <4>1 DEF I2cReading
    <3> QED BY <1>1, <1>2, <1>5, <2>4, <3>2, <3>3 DEF I2cReadAt, I2cCalm
  <2> QED BY <2>2, <2>5, <2>6
<1>15. CASE I2cReading(93)
  <2>1. i2cPc \in 94..118
    BY <1>15 DEF I2cReading
  <2>2. I2cLineStep(I2cRead[i2cPc - 93])
    BY <1>3, <1>4, <2>1
  <2>3. CASE i2cPc = 93 + 1
    <3>1. I2cLineStep(I2cRead[1])
      <4>1. i2cPc - 93 = 1
        BY <2>3
      <4> QED BY <2>2, <4>1
    <3>2. I2cReading(93)' /\ I2cCalm
      BY <1>15, <1>5, <2>3, <3>1, I2cReadsA
    <3> QED BY <1>1, <1>5, <2>3, <3>2 DEF I2cReadAt, I2cCalm
  <2>4. CASE i2cPc = 93 + 2
    <3>1. I2cLineStep(I2cRead[2])
      <4>1. i2cPc - 93 = 2
        BY <2>4
      <4> QED BY <2>2, <4>1
    <3>2. PatAnswer(i2cReg) \in I2cByte /\ i2cReg = i2cTx.reg
      BY <2>4
    <3>3. I2cReading(93)' /\ PatGetRegVal(i2cReg) /\ UNCHANGED <<i2cReg, i2cFlag, i2cGot, i2cAck>>
      BY <1>15, <1>5, <2>4, <3>1, <3>2, I2cLoads
    <3> QED BY <1>1, <1>5, <2>4, <3>3 DEF I2cReadAt
  <2>5. CASE i2cPc \in (93 + 3)..(93 + 25)
    <3>1. /\ I2cCalm \/ UNCHANGED <<patMotion, i2cShown, i2cReg, i2cFlag, i2cAck>>
          /\ i2cPc < 93 + 25 => I2cReading(93)'
          /\ i2cPc = 93 + 25 => i2cScl' = 0 /\ i2cLine' = "WaitForACK" /\ i2cGot' = i2cShown
      BY <1>15, <1>5, <2>2, <2>5, I2cReads24
    <3>2. UNCHANGED <<patMotion, i2cShown, i2cReg, i2cFlag, i2cAck>>
      BY <3>1 DEF I2cCalm
    <3>3. i2cPc \in 96..118 /\ i2cPc \notin {57, 95}
      BY <2>5
    <3>4. CASE i2cPc < 118
      BY <1>1, <1>5, <3>1, <3>2, <3>3, <3>4 DEF I2cReadAt
    <3>5. CASE i2cPc = 118
      <4>1. I2cStopping(118)'
        BY <1>5, <3>1, <3>5 DEF I2cStopping
      <4> QED BY <1>1, <1>5, <3>1, <3>2, <3>3, <3>5, <4>1 DEF I2cReadAt
    <3> QED BY <3>3, <3>4, <3>5
  <2> QED BY <2>1, <2>3, <2>4, <2>5
<1>16. CASE I2cStopping(118)
  <2>1. i2cPc = 118 + 1 \/ i2cPc = 118 + 2
    BY <1>16 DEF I2cStopping
  <2>2. CASE i2cPc = 118 + 1
    <3>1. I2cLineStep(I2cStop[1])
      BY <1>3, <1>4, <2>2
    <3>2. I2cStopping(118)' /\ I2cCalm
      BY <1>16, <1>5, <2>2, <3>1, I2cStopsA
    <3> QED BY <1>1, <1>5, <2>2, <3>2 DEF I2cReadAt, I2cCalm
  <2>3. CASE i2cPc = 118 + 2
    <3>1. I2cLineStep(I2cStop[2]) /\ 120 = 118 + 2
      BY <1>3, <1>4, <2>3
    <3>2. i2cPc' = 120 + 1 /\ i2cScl' = 1 /\ i2cSda' = 1 /\ I2cCalm
      BY <1>16, <1>5, <2>3, <3>1, I2cStopsB
    <3>3. I2cStopped(120)'
      BY <3>2 DEF I2cStopped
    <3> QED BY <1>1, <1>5, <2>3, <3>2, <3>3 DEF I2cReadAt, I2cCalm
  <2> QED BY <2>1, <2>2, <2>3
<1>17. ~I2cStopped(120)
  <2>1. i2cPc <= Len(p)
    BY <1>p, I2cLineGo
  <2>2. Len(p) = 120
    BY <1>b, I2cCodeLen
  <2>3. i2cPc <= 120
    BY <1>1, <2>1, <2>2, Zenon
  <2> QED BY <1>1, <2>3 DEF I2cStopped
<1> HIDE DEF Goal
<1> QED BY <1>2, <1>6, <1>7, <1>8, <1>9, <1>10, <1>11, <1>12, <1>13, <1>14, <1>15, <1>16, <1>17 DEF I2cReadAt

-----------------------------------------------------------------------------
\* What a step of a transaction must keep.
I2cFirmwareSame == UNCHANGED <<patSensor, i2cNative, i2cTx, i2cShadow, i2cTransactions, i2cEvents>>
I2cAt ==
  CASE i2cTx.address # I2cAddress -> I2cOtherAt
    [] i2cTx.kind = "read" -> I2cReadAt
    [] OTHER -> I2cWriteAt

LEMMA I2cKeepInv ==
  ASSUME I2cInv, i2cTx # I2cIdle, I2cFirmwareSame, i2cPc' \in Nat \ {0},
         I2cBusTyped', PatTyped', I2cRegs', I2cTxOK',
         i2cNative => I2cMessageAt', ~i2cNative => ~i2cFlag' /\ I2cAt'
  PROVE  I2cInv'
<1>1. I2cTypeOK
  BY DEF I2cInv
<1>2. I2cTypeOK'
  BY <1>1 DEF I2cTypeOK, I2cFirmwareSame, I2cBusTyped, PatTyped, patSensor
<1>3. patRaw'[PatBank] \in 0..1 /\ PatMotionTold'
  BY DEF PatTyped
<1>4. i2cTx' # I2cIdle /\ i2cNative' = i2cNative
  BY DEF I2cFirmwareSame
<1>5. ~i2cNative' => /\ ~i2cFlag'
                     /\ (CASE i2cTx.address # I2cAddress -> I2cOtherAt
                           [] i2cTx.kind = "read" -> I2cReadAt
                           [] OTHER -> I2cWriteAt)'
  BY <1>4 DEF I2cAt
<1>6. i2cNative' => I2cMessageAt'
  BY <1>4
<1> QED BY <1>2, <1>3, <1>4, <1>5, <1>6 DEF I2cInv

LEMMA PatOfInv ==
  ASSUME I2cInv
  PROVE  I2cTypeOK /\ PatTyped
BY DEF I2cInv, I2cTypeOK, PatTyped

LEMMA I2cRegsKept ==
  ASSUME I2cRegs, PatKept, i2cTx # I2cIdle, I2cFirmwareSame, i2cPc >= I2cDone <=> i2cPc' >= I2cDone
  PROVE  I2cRegs'
<1>1. I2cDone' = I2cDone /\ i2cTx' = i2cTx /\ i2cShadow' = i2cShadow
  BY DEF I2cFirmwareSame, I2cDone
<1> DEFINE W == i2cTx.kind = "write" /\ i2cTx.address = I2cAddress /\ i2cPc >= I2cDone
<1>2. CASE W
  <2>1. \A a \in {14, PatBank, 142} : patRaw[a] = PatSet(i2cShadow, i2cTx.reg, i2cTx.value)[a]
    BY <1>2 DEF I2cRegs
  <2>2. \A a \in {14, PatBank, 142} : patRaw'[a] = PatSet(i2cShadow', i2cTx'.reg, i2cTx'.value)[a]
    BY <1>1, <2>1 DEF PatKept
  <2>3. i2cTx'.kind = "write" /\ i2cTx'.address = I2cAddress /\ i2cPc' >= I2cDone' /\ i2cTx' # I2cIdle
    BY <1>1, <1>2
  <2> QED BY <2>2, <2>3 DEF I2cRegs
<1>3. CASE ~W
  <2>1. \A a \in {14, PatBank, 142} : patRaw[a] = i2cShadow[a]
    BY <1>3 DEF I2cRegs
  <2>2. \A a \in {14, PatBank, 142} : patRaw'[a] = i2cShadow'[a]
    BY <1>1, <2>1 DEF PatKept
  <2>3. ~(i2cTx'.kind = "write" /\ i2cTx'.address = I2cAddress /\ i2cPc' >= I2cDone')
    BY <1>1, <1>3
  <2> QED BY <2>2, <2>3 DEF I2cRegs
<1> QED BY <1>2, <1>3

LEMMA I2cRegsWritten ==
  ASSUME I2cTypeOK, PatTyped, I2cRegs, i2cTx # I2cIdle, I2cFirmwareSame,
         i2cTx.kind = "write", i2cTx.address = I2cAddress, ~(i2cPc >= I2cDone), i2cPc' >= I2cDone,
         patRaw' = PatSet(patRaw, i2cTx.reg, i2cTx.value)
  PROVE  I2cRegs'
<1>1. I2cDone' = I2cDone /\ i2cTx' = i2cTx /\ i2cShadow' = i2cShadow
  BY DEF I2cFirmwareSame, I2cDone
<1>2. i2cTx \in I2cTransactions /\ i2cShadow \in [{14, PatBank, 142} -> I2cByte]
  BY DEF I2cTypeOK
<1>3. PICK r \in {14, PatBank}, v \in I2cByte : r = i2cTx.reg /\ v = i2cTx.value
  BY <1>2, I2cTxType
<1>4. \A a \in {14, PatBank, 142} : patRaw[a] = i2cShadow[a]
  BY DEF I2cRegs
<1>5. \A a \in {14, PatBank, 142} : PatSet(patRaw, r, v)[a] = PatSet(i2cShadow, r, v)[a]
  BY <1>2, <1>4, PatWritesRegs
<1>6. \A a \in {14, PatBank, 142} : patRaw'[a] = PatSet(i2cShadow', i2cTx'.reg, i2cTx'.value)[a]
  BY <1>1, <1>3, <1>5
<1>7. i2cTx'.kind = "write" /\ i2cTx'.address = I2cAddress /\ i2cPc' >= I2cDone' /\ i2cTx' # I2cIdle
  BY <1>1
<1> QED BY <1>6, <1>7 DEF I2cRegs

-----------------------------------------------------------------------------
\* The steps of a transaction on the lines.
LEMMA I2cKinds ==
  ASSUME I2cTypeOK, i2cTx # I2cIdle
  PROVE  /\ i2cTx \in I2cTransactions
         /\ i2cTx.kind \in {"read", "write"} /\ i2cTx.reg \in {PatMStatus, PatDYLow, 14, PatBank}
         /\ i2cTx.value \in I2cByte /\ i2cTx.address \in {I2cAddress, I2cOther}
         /\ i2cTx.kind = "read" => i2cTx.address = I2cAddress
         /\ i2cTx.kind = "write" => i2cTx.reg \in {14, PatBank}
         /\ I2cAddress # I2cOther
<1>1. i2cTx \in I2cTransactions
  BY DEF I2cTypeOK
<1> QED BY <1>1, I2cTxType, I2cSensorAssumption

LEMMA I2cLineValid ==
  ASSUME NEW tx \in I2cTransactions, NEW n \in 1..Len(I2cProgram(FALSE, tx))
  PROVE  I2cProgram(FALSE, tx)[n].v \in 0..1
<1>1. CASE tx.kind = "read"
  <2>1. n \in 1..120
    BY <1>1, I2cCodeLen
  <2> QED BY <1>1, <2>1, I2cReadSteps
<1>2. CASE tx.kind = "write"
  <2>1. n \in 1..91
    <3>1. Len(I2cProgram(FALSE, tx)) = 91
      BY <1>2, I2cCodeLen
    <3> QED BY <3>1
  <2>2. PICK p : p = I2cProgram(FALSE, tx)
    OBVIOUS
  <2>3. p[n].v \in 0..1
    BY <1>2, <2>1, <2>2, I2cWriteSteps
  <2> QED BY <2>2, <2>3
<1> QED BY <1>1, <1>2, I2cTxType

LEMMA I2cWriteInv ==
  ASSUME I2cInv, i2cTx # I2cIdle, ~i2cNative, I2cGo, i2cTx.kind = "write",
         i2cTx.address = I2cAddress, I2cBusTyped', PatTyped', I2cFirmwareSame
  PROVE  I2cInv'
<1>1. I2cTypeOK /\ PatTyped /\ I2cRegs /\ I2cTxOK
  BY PatOfInv DEF I2cInv
<1>2. i2cTx \in I2cTransactions /\ i2cPc \in Nat /\ i2cTx' = i2cTx /\ i2cNative' = i2cNative
  BY <1>1 DEF I2cTypeOK, I2cFirmwareSame
<1>3. I2cWriteAt /\ ~i2cFlag /\ i2cAck = 0
  BY <1>1 DEF I2cInv, I2cTxOK
<1>4. i2cPc \in 58..86 => i2cReg = i2cTx.reg
  BY <1>1 DEF I2cTxOK, I2cSent, I2cDone
<1>5. PatSetOk(i2cTx.reg)
  <2>1. PICK r \in {14, PatBank} : r = i2cTx.reg
    BY <1>1, I2cKinds
  <2>2. r <= PatBank /\ PatBanked(patRaw, r) \in {14, PatBank, 142, 255}
    BY DEF PatBanked, PatBank
  <2>3. PatSetOk(r)
    BY <2>2 DEF PatSetOk, PatReadOnly, PatMStatus, PatDYLow, PatBank
  <2> QED BY <2>1, <2>3
<1>6. /\ I2cWriteAt' /\ i2cPc' = i2cPc + 1 /\ i2cPc \in 1..91
      /\ UNCHANGED <<i2cFlag, i2cGot, i2cAck, i2cShown>>
      /\ i2cPc # 86 => UNCHANGED patMotion
      /\ i2cPc = 86 => /\ patRaw' = PatSet(patRaw, i2cTx.reg, i2cTx.value)
                       /\ UNCHANGED <<patLoading, patNudge, patDelta, patUntold, patLost>>
      /\ i2cPc = 57 => i2cReg' = i2cTx.reg
      /\ i2cPc \notin {57, 86} => i2cReg' = i2cReg
  BY <1>1, <1>3, <1>4, <1>5, I2cWriteGo
<1>7. I2cDone = 87 /\ I2cDone' = 87 /\ I2cSent' = 58
  BY <1>2 DEF I2cDone, I2cSent
<1>8. I2cRegs'
  <2>1. CASE i2cPc = 86
    <3>1. ~(i2cPc >= I2cDone) /\ i2cPc' >= I2cDone
      BY <1>6, <1>7, <2>1
    <3> QED BY <1>1, <1>6, <2>1, <3>1, I2cRegsWritten
  <2>2. CASE i2cPc # 86
    <3>1. PatKept
      BY <1>6, <2>2 DEF PatKept, patMotion
    <3>2. i2cPc >= I2cDone <=> i2cPc' >= I2cDone
      BY <1>6, <1>7, <2>2
    <3> QED BY <1>1, <3>1, <3>2, I2cRegsKept
  <2> QED BY <2>1, <2>2
<1>9. I2cTxOK'
  <2>1. i2cPc' \in 58..86 => i2cReg' = i2cTx.reg
    BY <1>4, <1>6
  <2>2. i2cAck' = 0
    BY <1>3, <1>6
  <2> QED BY <1>2, <1>7, <2>1, <2>2 DEF I2cTxOK
<1>10. I2cAt' /\ ~i2cFlag'
  BY <1>2, <1>3, <1>6 DEF I2cAt
<1>11. i2cPc' \in Nat \ {0}
  BY <1>6
<1> QED BY <1>8, <1>9, <1>10, <1>11, I2cKeepInv

LEMMA I2cOtherInv ==
  ASSUME I2cInv, i2cTx # I2cIdle, ~i2cNative, I2cGo,
         i2cTx.address # I2cAddress, I2cBusTyped', PatTyped', I2cFirmwareSame
  PROVE  I2cInv'
<1>1. I2cTypeOK /\ PatTyped /\ I2cRegs /\ I2cTxOK
  BY PatOfInv DEF I2cInv
<1>2. i2cTx.kind = "write" /\ i2cTx.address = I2cOther /\ i2cTx' = i2cTx /\ i2cNative' = i2cNative
  BY <1>1, I2cKinds DEF I2cFirmwareSame
<1>3. I2cOtherAt /\ ~i2cFlag /\ (i2cPc <= 28 => i2cAck = 0)
  <2>1. i2cPc <= 28 => i2cAck = 0
    BY <1>1 DEF I2cTxOK
  <2>2. I2cOtherAt /\ ~i2cFlag
    BY <1>2 DEF I2cInv
  <2> QED BY <2>1, <2>2
<1>4. /\ I2cOtherAt' /\ i2cPc' \in 2..92 /\ (i2cPc' <= 28 => i2cAck' = 0)
      /\ UNCHANGED <<patMotion, i2cShown, i2cReg, i2cFlag, i2cGot>>
  BY <1>1, <1>2, <1>3, I2cOtherGo
<1>5. I2cRegs'
  BY <1>1, <1>2, <1>4 DEF I2cRegs, patMotion, I2cFirmwareSame
<1>6. I2cTxOK'
  BY <1>2, <1>4 DEF I2cTxOK
<1>7. I2cAt' /\ ~i2cFlag'
  BY <1>2, <1>3, <1>4 DEF I2cAt
<1>8. i2cPc' \in Nat \ {0}
  BY <1>4
<1> QED BY <1>5, <1>6, <1>7, <1>8, I2cKeepInv

LEMMA I2cReadInv ==
  ASSUME I2cInv, i2cTx # I2cIdle, ~i2cNative, I2cGo, i2cTx.kind = "read",
         I2cBusTyped', PatTyped', I2cFirmwareSame
  PROVE  I2cInv'
<1>1. I2cTypeOK /\ PatTyped /\ I2cRegs /\ I2cTxOK
  BY PatOfInv DEF I2cInv
<1>2. /\ i2cTx \in I2cTransactions /\ i2cPc \in Nat /\ i2cTx' = i2cTx /\ i2cNative' = i2cNative
      /\ i2cTx.address = I2cAddress
  BY <1>1, I2cKinds DEF I2cTypeOK, I2cFirmwareSame
<1>3. I2cReadAt /\ ~i2cFlag /\ i2cAck = 0
  BY <1>1, <1>2 DEF I2cInv, I2cTxOK
<1>4. I2cDone = 96 /\ I2cDone' = 96 /\ I2cSent = 58 /\ I2cSent' = 58
  BY <1>2 DEF I2cDone, I2cSent
<1>5. /\ i2cPc \in 58..95 => i2cReg = i2cTx.reg
      /\ i2cPc <= 95 => i2cShown = I2cNothing /\ i2cGot = 0
      /\ i2cPc >= 96 => i2cShown \in I2cByte
  BY <1>1, <1>2, <1>4 DEF I2cTxOK
<1>6. Len(I2cCode) = 120 /\ Len(I2cCode)' = 120
  <2>1. PICK t \in I2cTransactions : t = i2cTx
    BY <1>2
  <2>2. Len(I2cProgram(FALSE, t)) = 120
    BY <2>1, I2cCodeLen
  <2>3. I2cCode = I2cProgram(FALSE, t)
    BY <1>1, <1>2, <2>1, I2cCodeIs DEF I2cTypeOK
  <2>4. I2cCode' = I2cCode
    BY <1>2 DEF I2cCode
  <2> QED BY <2>2, <2>3, <2>4
<1>7. i2cPc > 118 => i2cGot = i2cShown
  BY <1>1, <1>6 DEF I2cTxOK
<1>8. i2cPc = 95 => /\ i2cReg \in {PatMStatus, PatDYLow, 14, PatBank} /\ PatAnswer(i2cReg) \in I2cByte
  <2>1. PICK r \in {PatMStatus, PatDYLow, 14, PatBank} : r = i2cTx.reg
    BY <1>1, I2cKinds
  <2>2. PatBanked(patRaw, r) \in PatRegisters \cup {255}
    BY <1>1 DEF PatTyped, PatBanked, PatRegisters, PatMStatus, PatDYLow, PatBank
  <2>3. PatAnswer(r) \in I2cByte
    BY <1>1, <2>2 DEF PatTyped, PatAnswer, I2cByte
  <2> QED BY <1>5, <2>1, <2>3
<1>9. /\ I2cReadAt' /\ i2cPc' = i2cPc + 1 /\ i2cPc \in 1..120
      /\ i2cFlag' = i2cFlag /\ i2cAck' = i2cAck
      /\ i2cPc # 95 => UNCHANGED <<patMotion, i2cShown>>
      /\ i2cPc = 95 => PatGetRegVal(i2cReg)
      /\ i2cPc = 57 => i2cReg' = i2cTx.reg
      /\ i2cPc # 57 => i2cReg' = i2cReg
      /\ i2cPc \notin 96..118 => i2cGot' = i2cGot
      /\ i2cPc = 118 => i2cGot' = i2cShown
  BY <1>1, <1>2, <1>3, <1>5, <1>8, I2cReadGo
<1>10. PatKept /\ (i2cPc = 95 => i2cShown' \in I2cByte)
  <2>1. CASE i2cPc = 95
    BY <1>1, <1>5, <1>8, <1>9, <2>1, PatReads
  <2>2. CASE i2cPc # 95
    BY <1>9, <2>2 DEF PatKept, patMotion
  <2> QED BY <2>1, <2>2
<1>11. I2cRegs'
  BY <1>1, <1>2, <1>10 DEF I2cRegs, PatKept, I2cFirmwareSame
<1>12. /\ i2cPc' \in 58..95 => i2cReg' = i2cTx.reg
       /\ i2cPc' < 96 => i2cShown' = I2cNothing /\ i2cGot' = 0
       /\ i2cPc' >= 96 => i2cShown' \in I2cByte
       /\ i2cPc' > 118 => i2cGot' = i2cShown'
       /\ i2cAck' = 0
  BY <1>2, <1>3, <1>5, <1>7, <1>9, <1>10
<1>13. I2cTxOK'
  BY <1>2, <1>4, <1>6, <1>12 DEF I2cTxOK
<1>14. I2cAt' /\ ~i2cFlag'
  BY <1>2, <1>3, <1>9 DEF I2cAt
<1>15. i2cPc' \in Nat \ {0}
  BY <1>9
<1> QED BY <1>11, <1>13, <1>14, <1>15, I2cKeepInv

\* The device loads a register only in a read.
LEMMA I2cLoading ==
  ASSUME I2cInv, i2cTx # I2cIdle, ~i2cNative, i2cLine = "Writing", i2cCount = 0, i2cScl = 0
  PROVE  i2cTx.kind = "read" /\ i2cPc \in 93..95
<1>1. I2cTypeOK
  BY DEF I2cInv
<1>2. \A b \in Nat : ~I2cStarting(b) /\ ~I2cStopping(b) /\ ~I2cStopped(b) /\ ~I2cRefused(b)
  BY DEF I2cStarting, I2cStopping, I2cStopped, I2cRefused
<1>3. \A b \in Nat, v \in I2cByte, state \in {"AddrIn", "RegIn", "DataIn"} : ~I2cSending(b, v, state)
  BY DEF I2cSending
<1>4. \A b \in Nat, state \in {"AddrIn", "RegIn", "DataIn"} : ~I2cAcked(b, state, "Reading")
  BY DEF I2cAcked
<1>5. /\ i2cTx.reg \in I2cByte /\ i2cTx.value \in I2cByte
      /\ 2 * I2cAddress \in I2cByte /\ 2 * I2cAddress + 1 \in I2cByte /\ 2 * I2cOther \in I2cByte
  BY <1>1, I2cKinds, I2cSensorAssumption
     DEF I2cByte, I2cAddress, PatMStatus, PatDYLow, PatBank
<1>6. ~I2cOtherAt
  BY <1>2, <1>3, <1>5 DEF I2cOtherAt
<1>7. ~I2cWriteAt
  BY <1>2, <1>3, <1>4, <1>5 DEF I2cWriteAt
<1>8. i2cTx.kind = "read" /\ I2cReadAt
  <2>1. i2cTx.kind = "read" => i2cTx.address = I2cAddress
    BY <1>1, I2cKinds
  <2>2. CASE i2cTx.kind = "read"
    BY <2>1, <2>2 DEF I2cInv
  <2>3. CASE i2cTx.kind # "read" /\ i2cTx.address = I2cAddress
    BY <1>7, <2>3 DEF I2cInv
  <2>4. CASE i2cTx.kind # "read" /\ i2cTx.address # I2cAddress
    BY <1>6, <2>4 DEF I2cInv
  <2> QED BY <2>2, <2>3, <2>4
<1>9. I2cAcked(64, "AddrIn", "Writing") \/ I2cReading(93)
  BY <1>2, <1>3, <1>4, <1>5, <1>8 DEF I2cReadAt
<1>10. CASE I2cAcked(64, "AddrIn", "Writing")
  BY <1>8, <1>10 DEF I2cAcked
<1>11. CASE I2cReading(93)
  <2>1. ASSUME NEW k \in 2..24, i2cScl = (IF k % 3 = 1 THEN 0 ELSE 1), i2cCount = 8 - (k + 1) \div 3
        PROVE FALSE
    <3>1. k % 3 = 1 /\ (k + 1) \div 3 = 8
      BY <2>1
    <3> QED BY <3>1
  <2> QED BY <1>8, <1>11, <2>1 DEF I2cReading
<1> QED BY <1>9, <1>10, <1>11

LEMMA I2cLineInv ==
  ASSUME I2cInv, i2cTx # I2cIdle, ~i2cNative, I2cGo
  PROVE  I2cInv'
<1>1. I2cTypeOK /\ PatTyped /\ I2cTxOK
  BY PatOfInv DEF I2cInv
<1>2. PICK t \in I2cTransactions : t = i2cTx
  BY <1>1, I2cKinds
<1>3. PICK p : p = I2cProgram(FALSE, i2cTx)
  OBVIOUS
<1>4. i2cPc \in 1..Len(p) /\ I2cLineStep(p[i2cPc]) /\ I2cFirmwareSame
  <2>1. i2cPc <= Len(p) /\ I2cLineStep(p[i2cPc]) /\ I2cFirmwareSame
    BY <1>1, <1>3, I2cLineGo DEF I2cFirmwareSame
  <2>2. Len(p) \in Nat
    <3>1. Len(p) = IF t.kind = "read" THEN 120 ELSE 91
      BY <1>2, <1>3, I2cCodeLen
    <3>2. 120 \in Nat /\ 91 \in Nat
      OBVIOUS
    <3> QED BY <3>1, <3>2, Zenon
  <2>3. i2cPc \in Nat \ {0}
    BY <1>1 DEF I2cTypeOK
  <2> QED BY <2>1, <2>2, <2>3
<1>5. p[i2cPc].v \in 0..1
  BY <1>2, <1>3, <1>4, I2cLineValid
<1>6. i2cLine = "Writing" /\ i2cCount = 0 /\ i2cScl = 0
        => /\ i2cReg \in {PatMStatus, PatDYLow, 14, PatBank} /\ i2cReg = i2cTx.reg
           /\ i2cShown = I2cNothing
  <2> SUFFICES ASSUME i2cLine = "Writing", i2cCount = 0, i2cScl = 0
               PROVE  /\ i2cReg \in {PatMStatus, PatDYLow, 14, PatBank} /\ i2cReg = i2cTx.reg
                      /\ i2cShown = I2cNothing
    OBVIOUS
  <2>1. i2cTx.kind = "read" /\ i2cPc \in 93..95
    BY I2cLoading
  <2>2. i2cTx.reg \in {PatMStatus, PatDYLow, 14, PatBank} /\ i2cTx.address = I2cAddress
    BY <1>1, <2>1, I2cKinds
  <2>3. I2cSent = 58 /\ I2cDone = 96
    BY <2>1 DEF I2cSent, I2cDone
  <2>4. i2cReg = i2cTx.reg /\ i2cShown = I2cNothing
    BY <1>1, <2>1, <2>2, <2>3 DEF I2cTxOK
  <2> QED BY <2>2, <2>4
<1>7. I2cBusTyped' /\ PatTyped'
  <2>1. PICK s : s = p[i2cPc]
    OBVIOUS
  <2>2. s.v \in 0..1 /\ I2cLineStep(s)
    BY <1>4, <1>5, <2>1
  <2> QED BY <1>1, <1>6, <2>2, I2cLineTypes
<1>8. CASE i2cTx.kind = "read"
  BY <1>4, <1>7, <1>8, I2cReadInv
<1>9. CASE i2cTx.kind = "write" /\ i2cTx.address = I2cAddress
  BY <1>4, <1>7, <1>9, I2cWriteInv
<1>10. CASE i2cTx.address # I2cAddress
  BY <1>4, <1>7, <1>10, I2cOtherInv
<1> QED BY <1>1, <1>8, <1>9, <1>10, I2cKinds

-----------------------------------------------------------------------------
\* The same with the TWI hardware.
LEMMA I2cMessageGo ==
  ASSUME I2cTypeOK, i2cTx # I2cIdle, i2cNative, I2cGo, NEW p, p = I2cProgram(TRUE, i2cTx)
  PROVE  /\ i2cPc <= Len(p) /\ I2cMessage(p[i2cPc]) /\ I2cFirmwareSame
         /\ p[i2cPc].op \in {"START", "WRITE", "READ", "STOP"}
         /\ i2cPc' = IF p[i2cPc].op = "START" /\ i2cAck' = 1 THEN Len(p) ELSE i2cPc + 1
<1>1. i2cTx \in I2cTransactions /\ i2cNative \in BOOLEAN
  BY DEF I2cTypeOK
<1>2. I2cCode = p
  BY <1>1, I2cCodeIs
<1>3. /\ i2cPc <= Len(p) /\ I2cMessage(p[i2cPc])
      /\ i2cPc' = CASE p[i2cPc].op = "START" /\ i2cAck' = 1 -> Len(p)
                    [] p[i2cPc].op = "sda" /\ i2cAck = 1 /\ i2cPc < Len(p) - 1 -> Len(p) - 1
                    [] OTHER -> i2cPc + 1
      /\ UNCHANGED <<patSensor, i2cNative, i2cTx, i2cShadow, i2cTransactions, i2cEvents>>
  BY <1>2 DEF I2cGo
<1>4. p[i2cPc].op \in {"START", "WRITE", "READ", "STOP"}
  BY <1>3 DEF I2cMessage
<1>5. i2cPc' = IF p[i2cPc].op = "START" /\ i2cAck' = 1 THEN Len(p) ELSE i2cPc + 1
  BY <1>3, <1>4
<1> QED BY <1>3, <1>4, <1>5 DEF I2cFirmwareSame

\* Each of the four messages.
LEMMA I2cStartMessage ==
  ASSUME I2cTypeOK, NEW v \in {I2cAddress, I2cOther}, I2cMessage(I2cStep("START", v))
  PROVE  /\ v = I2cAddress => i2cAck' = 0 /\ i2cState' = "AddrIn"
         /\ v # I2cAddress => i2cAck' = 1 /\ i2cState' = i2cState
         /\ UNCHANGED <<patMotion, i2cShown, i2cReg, i2cFlag, i2cGot>>
         /\ UNCHANGED <<i2cLine, i2cCount, i2cShift, i2cScl, i2cSda>>
<1> DEFINE s == I2cStep("START", v)
<1>1. s.op = "START" /\ s.v = v
  BY I2cStepIs
<1> HIDE DEF s
<1>2. I2cMessage(s)
  BY DEF s
<1> QED BY <1>1, <1>2 DEF I2cMessage, I2cAddressed, I2cQuiet, i2cLines

LEMMA I2cStopMessage ==
  ASSUME I2cTypeOK, I2cMessage(I2cStep("STOP", 0))
  PROVE  /\ i2cState' = "Idle" /\ i2cFlag' = FALSE
         /\ UNCHANGED <<patMotion, i2cShown, i2cReg, i2cAck, i2cGot>>
         /\ UNCHANGED <<i2cLine, i2cCount, i2cShift, i2cScl, i2cSda>>
<1> DEFINE s == I2cStep("STOP", 0)
<1>1. s.op = "STOP"
  BY I2cStepIs
<1> HIDE DEF s
<1>2. I2cMessage(s)
  BY DEF s
<1> QED BY <1>1, <1>2 DEF I2cMessage, I2cQuiet, i2cLines

LEMMA I2cWriteMessage ==
  ASSUME I2cTypeOK, NEW v \in I2cByte, I2cMessage(I2cStep("WRITE", v))
  PROVE  /\ i2cAck' = 0 /\ UNCHANGED <<i2cState, i2cGot>>
         /\ ~i2cFlag => /\ i2cFlag' = TRUE /\ i2cReg' = v /\ UNCHANGED <<patMotion, i2cShown>>
         /\ i2cFlag => /\ PatSetRegVal(i2cReg, v) /\ i2cReg' = (i2cReg + 1) % 256
                       /\ i2cFlag' = i2cFlag
         /\ UNCHANGED <<i2cLine, i2cCount, i2cShift, i2cScl, i2cSda>>
<1> DEFINE s == I2cStep("WRITE", v)
<1>1. s.op = "WRITE" /\ s.v = v
  BY I2cStepIs
<1> HIDE DEF s
<1>2. I2cMessage(s)
  BY DEF s
<1> QED BY <1>1, <1>2 DEF I2cMessage, I2cQuiet, i2cLines

LEMMA I2cReadMessage ==
  ASSUME I2cTypeOK, I2cMessage(I2cStep("READ", 0))
  PROVE  /\ PatGetRegVal(i2cReg) /\ i2cGot' = PatAnswer(i2cReg) /\ i2cReg' = (i2cReg + 1) % 256
         /\ UNCHANGED <<i2cState, i2cFlag, i2cAck>>
         /\ UNCHANGED <<i2cLine, i2cCount, i2cShift, i2cScl, i2cSda>>
<1> DEFINE s == I2cStep("READ", 0)
<1>1. s.op = "READ"
  BY I2cStepIs
<1> HIDE DEF s
<1>2. I2cMessage(s)
  BY DEF s
<1> QED BY <1>1, <1>2 DEF I2cMessage, i2cLines

\* The steps of a transaction with the TWI hardware.
LEMMA I2cNativeRead ==
  ASSUME I2cInv, i2cTx # I2cIdle, i2cNative, I2cGo, i2cTx.kind = "read"
  PROVE  I2cInv'
<1>1. I2cTypeOK /\ PatTyped /\ I2cRegs /\ I2cTxOK /\ I2cMessageAt
  BY PatOfInv DEF I2cInv
<1>2. /\ i2cTx \in I2cTransactions /\ i2cTx.address = I2cAddress
      /\ i2cTx.reg \in {PatMStatus, PatDYLow, 14, PatBank}
  BY <1>1, I2cKinds
<1>3. PICK p : p = I2cProgram(TRUE, i2cTx)
  OBVIOUS
<1>4. PICK r \in {PatMStatus, PatDYLow, 14, PatBank} : r = i2cTx.reg
  BY <1>2
<1>5. /\ p[1] = I2cStep("START", I2cAddress) /\ p[2] = I2cStep("WRITE", r)
      /\ p[3] = I2cStep("START", I2cAddress) /\ p[4] = I2cStep("READ", 0)
      /\ p[5] = I2cStep("STOP", 0) /\ Len(p) = 5
  BY <1>2, <1>3, <1>4, I2cNativeCode
<1>6. /\ i2cPc <= Len(p) /\ I2cMessage(p[i2cPc]) /\ I2cFirmwareSame
      /\ i2cPc' = IF p[i2cPc].op = "START" /\ i2cAck' = 1 THEN Len(p) ELSE i2cPc + 1
  BY <1>1, <1>3, I2cMessageGo
<1>7. /\ i2cPc \in 1..5 /\ i2cFlag \in BOOLEAN
      /\ (i2cPc \in 3..5 => i2cFlag) /\ (i2cPc \notin 3..5 => ~i2cFlag)
      /\ (i2cPc \in 2..5 => i2cState = "AddrIn")
  <2>1. i2cPc \in 1..6
    BY <1>1 DEF I2cMessageAt
  <2>2. i2cPc <= 5
    BY <1>5, <1>6, <2>1, Zenon
  <2>5. i2cFlag <=> (i2cPc \in 3..5)
    BY <1>1, <1>2 DEF I2cMessageAt
  <2>3. i2cFlag \in BOOLEAN /\ (i2cPc \in 3..5 => i2cFlag) /\ (i2cPc \notin 3..5 => ~i2cFlag)
    BY <1>1, <2>5 DEF I2cTypeOK
  <2>4. i2cPc \in 2..5 => i2cState = "AddrIn"
    BY <1>1, <1>2 DEF I2cMessageAt
  <2> QED BY <2>1, <2>2, <2>3, <2>4
<1>8. I2cDone = 5 /\ I2cDone' = 5 /\ I2cSent = 3 /\ I2cSent' = 3
  BY <1>6 DEF I2cDone, I2cSent, I2cFirmwareSame
<1>9. /\ i2cPc \in 3..4 => i2cReg = r
      /\ i2cPc < 5 => i2cShown = I2cNothing /\ i2cGot = 0
      /\ i2cPc = 5 => i2cShown \in I2cByte /\ i2cGot = i2cShown
      /\ i2cAck = 0
  BY <1>1, <1>2, <1>4, <1>7, <1>8 DEF I2cTxOK
<1>10. I2cBusTyped
  BY <1>1 DEF I2cTypeOK, I2cBusTyped
<1> DEFINE Goal ==
      /\ PatTyped' /\ PatKept /\ i2cPc' = i2cPc + 1
      /\ i2cPc' \in 3..4 => i2cReg' = r
      /\ i2cReg' \in I2cByte /\ i2cShown' \in 0..I2cNothing /\ i2cGot' \in I2cByte
      /\ i2cPc' < 5 => i2cShown' = I2cNothing /\ i2cGot' = 0
      /\ i2cPc' >= 5 => i2cShown' \in I2cByte /\ i2cGot' = i2cShown'
      /\ i2cAck' = 0
      /\ i2cFlag' \in BOOLEAN /\ (i2cPc' \in 3..5 => i2cFlag') /\ (i2cPc' \notin 3..5 => ~i2cFlag')
      /\ i2cPc' \in 2..5 => i2cState' = "AddrIn"
      /\ i2cState' \in {"Idle", "AddrIn", "RegIn", "DataIn"}
      /\ UNCHANGED <<i2cLine, i2cCount, i2cShift, i2cScl, i2cSda>>
<1>11. ASSUME i2cPc = 1 \/ i2cPc = 3 PROVE Goal
  <2>1. I2cMessage(I2cStep("START", I2cAddress))
    BY <1>5, <1>6, <1>11
  <2>2. /\ i2cAck' = 0 /\ i2cState' = "AddrIn"
        /\ UNCHANGED <<patMotion, i2cShown, i2cReg, i2cFlag, i2cGot>>
        /\ UNCHANGED <<i2cLine, i2cCount, i2cShift, i2cScl, i2cSda>>
    BY <1>1, <2>1, I2cStartMessage
  <2>3. i2cPc' = i2cPc + 1
    BY <1>6, <2>2
  <2>4. PatTyped' /\ PatKept
    BY <1>1, <2>2, PatStays DEF PatKept, patMotion
  <2>5. /\ i2cFlag' \in BOOLEAN
        /\ (i2cPc' \in 3..5 => i2cFlag') /\ (i2cPc' \notin 3..5 => ~i2cFlag')
    <3>1. CASE i2cPc = 1
      BY <1>7, <2>2, <2>3, <3>1
    <3>2. CASE i2cPc = 3
      BY <1>7, <2>2, <2>3, <3>2
    <3> QED BY <1>11, <3>1, <3>2
  <2> QED BY <1>7, <1>9, <1>10, <1>11, <2>2, <2>3, <2>4, <2>5 DEF I2cBusTyped
<1>12. ASSUME i2cPc = 2 PROVE Goal
  <2>1. I2cMessage(I2cStep("WRITE", r)) /\ r \in I2cByte
    BY <1>5, <1>6, <1>12 DEF I2cByte, PatMStatus, PatDYLow, PatBank
  <2>2. ~i2cFlag
    BY <1>7, <1>12
  <2>3. /\ i2cAck' = 0 /\ UNCHANGED <<i2cState, i2cGot>>
        /\ i2cFlag' = TRUE /\ i2cReg' = r /\ UNCHANGED <<patMotion, i2cShown>>
        /\ UNCHANGED <<i2cLine, i2cCount, i2cShift, i2cScl, i2cSda>>
    BY <1>1, <2>1, <2>2, I2cWriteMessage
  <2>6. i2cFlag' /\ i2cFlag' \in BOOLEAN
    BY <2>3, Zenon
  <2>4. i2cPc' = 3
    BY <1>6, <1>12, <2>3
  <2>5. PatTyped' /\ PatKept
    BY <1>1, <2>3, PatStays DEF PatKept, patMotion
  <2> QED BY <1>7, <1>9, <1>10, <1>12, <2>1, <2>3, <2>4, <2>5, <2>6 DEF I2cBusTyped
<1>13. ASSUME i2cPc = 4 PROVE Goal
  <2>1. I2cMessage(I2cStep("READ", 0))
    BY <1>5, <1>6, <1>13
  <2>2. p[i2cPc].op # "START"
    BY <1>5, <1>13, I2cStepIs
  <2>3. /\ PatGetRegVal(i2cReg) /\ i2cGot' = PatAnswer(i2cReg) /\ i2cReg' = (i2cReg + 1) % 256
        /\ UNCHANGED <<i2cState, i2cFlag, i2cAck>>
        /\ UNCHANGED <<i2cLine, i2cCount, i2cShift, i2cScl, i2cSda>>
    BY <1>1, <2>1, I2cReadMessage
  <2>4. i2cPc' = 5
    BY <1>6, <1>13, <2>2
  <2>5. i2cReg = r /\ i2cShown = I2cNothing
    BY <1>9, <1>13
  <2>6. PatAnswer(r) \in I2cByte /\ i2cShown' = PatAnswer(r) /\ PatTyped' /\ PatKept
    BY <1>1, <1>4, <2>3, <2>5, PatReads
  <2>7. i2cReg' \in I2cByte /\ i2cShown' \in 0..I2cNothing
    BY <1>10, <2>3, <2>6 DEF I2cByte, I2cNothing, I2cBusTyped
  <2> QED BY <1>7, <1>9, <1>10, <1>13, <2>3, <2>4, <2>5, <2>6, <2>7 DEF I2cBusTyped
<1>14. ASSUME i2cPc = 5 PROVE Goal
  <2>1. I2cMessage(I2cStep("STOP", 0))
    BY <1>5, <1>6, <1>14
  <2>2. p[i2cPc].op # "START"
    BY <1>5, <1>14, I2cStepIs
  <2>3. /\ i2cState' = "Idle" /\ i2cFlag' = FALSE
        /\ UNCHANGED <<patMotion, i2cShown, i2cReg, i2cAck, i2cGot>>
        /\ UNCHANGED <<i2cLine, i2cCount, i2cShift, i2cScl, i2cSda>>
    BY <1>1, <2>1, I2cStopMessage
  <2>6. ~i2cFlag' /\ i2cFlag' \in BOOLEAN
    BY <2>3, Zenon
  <2>4. i2cPc' = 6
    BY <1>6, <1>14, <2>2
  <2>5. PatTyped' /\ PatKept
    BY <1>1, <2>3, PatStays DEF PatKept, patMotion
  <2> QED BY <1>9, <1>10, <1>14, <2>3, <2>4, <2>5, <2>6 DEF I2cBusTyped
<1>15. Goal
  <2> HIDE DEF Goal
  <2> QED BY <1>7, <1>11, <1>12, <1>13, <1>14
<1>16. i2cTx' = i2cTx /\ i2cNative' = i2cNative
  BY <1>6 DEF I2cFirmwareSame
<1>17. I2cBusTyped'
  BY <1>10, <1>15 DEF I2cBusTyped
<1>18. I2cRegs'
  BY <1>1, <1>2, <1>6, <1>15, <1>16 DEF I2cRegs, PatKept, I2cFirmwareSame
<1>19. I2cTxOK'
  BY <1>4, <1>8, <1>15, <1>16 DEF I2cTxOK
<1>20. I2cMessageAt'
  <2>1. i2cFlag' <=> (i2cPc' \in 3..5)
    BY <1>15
  <2> QED BY <1>2, <1>7, <1>15, <1>16, <2>1 DEF I2cMessageAt
<1>21. i2cPc' \in Nat \ {0}
  BY <1>7, <1>15
<1> QED BY <1>6, <1>15, <1>17, <1>18, <1>19, <1>20, <1>21, I2cKeepInv

LEMMA I2cNativeWrite ==
  ASSUME I2cInv, i2cTx # I2cIdle, i2cNative, I2cGo, i2cTx.kind = "write",
         i2cTx.address = I2cAddress
  PROVE  I2cInv'
<1>1. I2cTypeOK /\ PatTyped /\ I2cRegs /\ I2cTxOK /\ I2cMessageAt
  BY PatOfInv DEF I2cInv
<1>2. i2cTx \in I2cTransactions /\ i2cTx.reg \in {14, PatBank} /\ i2cTx.value \in I2cByte
  BY <1>1, I2cKinds
<1>3. PICK p : p = I2cProgram(TRUE, i2cTx)
  OBVIOUS
<1>4. PICK r \in {14, PatBank}, v \in I2cByte : r = i2cTx.reg /\ v = i2cTx.value
  BY <1>2
<1>5. /\ p[1] = I2cStep("START", I2cAddress) /\ p[2] = I2cStep("WRITE", r)
      /\ p[3] = I2cStep("WRITE", v) /\ p[4] = I2cStep("STOP", 0) /\ Len(p) = 4
  BY <1>2, <1>3, <1>4, I2cNativeCode
<1>6. /\ i2cPc <= Len(p) /\ I2cMessage(p[i2cPc]) /\ I2cFirmwareSame
      /\ i2cPc' = IF p[i2cPc].op = "START" /\ i2cAck' = 1 THEN Len(p) ELSE i2cPc + 1
  BY <1>1, <1>3, I2cMessageGo
<1>7. /\ i2cPc \in 1..4 /\ i2cFlag \in BOOLEAN
      /\ (i2cPc \in 3..4 => i2cFlag) /\ (i2cPc \notin 3..4 => ~i2cFlag)
      /\ (i2cPc \in 2..4 => i2cState = "AddrIn")
  <2>1. i2cPc \in 1..5
    BY <1>1 DEF I2cMessageAt
  <2>2. i2cPc <= 4
    BY <1>5, <1>6, <2>1, Zenon
  <2>5. i2cFlag <=> (i2cPc \in 3..4)
    BY <1>1 DEF I2cMessageAt
  <2>3. i2cFlag \in BOOLEAN /\ (i2cPc \in 3..4 => i2cFlag) /\ (i2cPc \notin 3..4 => ~i2cFlag)
    BY <1>1, <2>5 DEF I2cTypeOK
  <2>4. i2cPc \in 2..4 => i2cState = "AddrIn"
    BY <1>1 DEF I2cMessageAt
  <2> QED BY <2>1, <2>2, <2>3, <2>4
<1>8. I2cDone = 4 /\ I2cDone' = 4 /\ I2cSent = 3 /\ I2cSent' = 3
  BY <1>6 DEF I2cDone, I2cSent, I2cFirmwareSame
<1>9. /\ i2cPc = 3 => i2cReg = r
      /\ i2cAck = 0
  BY <1>1, <1>4, <1>7, <1>8 DEF I2cTxOK
<1>10. I2cBusTyped
  BY <1>1 DEF I2cTypeOK, I2cBusTyped
<1> DEFINE Goal ==
      /\ PatTyped' /\ i2cPc' = i2cPc + 1
      /\ i2cPc = 3 => patRaw' = PatSet(patRaw, r, v)
      /\ i2cPc # 3 => PatKept
      /\ i2cPc' = 3 => i2cReg' = r
      /\ i2cReg' \in I2cByte /\ i2cShown' = i2cShown /\ i2cGot' = i2cGot
      /\ i2cAck' = 0
      /\ i2cFlag' \in BOOLEAN /\ (i2cPc' \in 3..4 => i2cFlag') /\ (i2cPc' \notin 3..4 => ~i2cFlag')
      /\ i2cPc' \in 2..4 => i2cState' = "AddrIn"
      /\ i2cState' \in {"Idle", "AddrIn", "RegIn", "DataIn"}
      /\ UNCHANGED <<i2cLine, i2cCount, i2cShift, i2cScl, i2cSda>>
<1>11. ASSUME i2cPc = 1 PROVE Goal
  <2>1. I2cMessage(I2cStep("START", I2cAddress))
    BY <1>5, <1>6, <1>11
  <2>2. /\ i2cAck' = 0 /\ i2cState' = "AddrIn"
        /\ UNCHANGED <<patMotion, i2cShown, i2cReg, i2cFlag, i2cGot>>
        /\ UNCHANGED <<i2cLine, i2cCount, i2cShift, i2cScl, i2cSda>>
    BY <1>1, <2>1, I2cStartMessage
  <2>3. i2cPc' = 2
    BY <1>6, <1>11, <2>2
  <2>4. PatTyped' /\ PatKept
    BY <1>1, <2>2, PatStays DEF PatKept, patMotion
  <2>5. ~i2cFlag' /\ i2cFlag' \in BOOLEAN
    BY <1>7, <1>11, <2>2
  <2> QED BY <1>9, <1>10, <1>11, <2>2, <2>3, <2>4, <2>5 DEF I2cBusTyped
<1>12. ASSUME i2cPc = 2 PROVE Goal
  <2>1. I2cMessage(I2cStep("WRITE", r)) /\ r \in I2cByte
    BY <1>5, <1>6, <1>12 DEF I2cByte, PatBank
  <2>2. ~i2cFlag
    BY <1>7, <1>12
  <2>3. /\ i2cAck' = 0 /\ UNCHANGED <<i2cState, i2cGot>>
        /\ i2cFlag' = TRUE /\ i2cReg' = r /\ UNCHANGED <<patMotion, i2cShown>>
        /\ UNCHANGED <<i2cLine, i2cCount, i2cShift, i2cScl, i2cSda>>
    BY <1>1, <2>1, <2>2, I2cWriteMessage
  <2>6. i2cFlag' /\ i2cFlag' \in BOOLEAN
    BY <2>3, Zenon
  <2>4. i2cPc' = 3
    BY <1>6, <1>12, <2>3
  <2>5. PatTyped' /\ PatKept
    BY <1>1, <2>3, PatStays DEF PatKept, patMotion
  <2> QED BY <1>7, <1>9, <1>10, <1>12, <2>1, <2>3, <2>4, <2>5, <2>6 DEF I2cBusTyped
<1>13. ASSUME i2cPc = 3 PROVE Goal
  <2>1. I2cMessage(I2cStep("WRITE", v))
    BY <1>5, <1>6, <1>13
  <2>2. i2cFlag /\ i2cReg = r
    BY <1>7, <1>9, <1>13
  <2>3. /\ i2cAck' = 0 /\ UNCHANGED <<i2cState, i2cGot>>
        /\ PatSetRegVal(i2cReg, v) /\ i2cReg' = (i2cReg + 1) % 256 /\ i2cFlag' = i2cFlag
        /\ UNCHANGED <<i2cLine, i2cCount, i2cShift, i2cScl, i2cSda>>
    BY <1>1, <2>1, <2>2, I2cWriteMessage
  <2>4. i2cPc' = 4
    <3>1. p[i2cPc].op # "START"
      BY <1>5, <1>13, I2cStepIs
    <3> QED BY <1>6, <1>13, <3>1
  <2>5. r \in I2cByte /\ r <= PatBank /\ PatBanked(patRaw, r) \in {14, PatBank, 142, 255}
    BY <1>1 DEF PatTyped, PatBanked, PatBank, I2cByte
  <2>6. PatSetOk(r)
    BY <2>5 DEF PatSetOk, PatReadOnly, PatMStatus, PatDYLow, PatBank
  <2>7. patRaw' = PatSet(patRaw, r, v) /\ i2cShown' = i2cShown
    BY <2>2, <2>3, <2>6 DEF PatSetRegVal
  <2>8. PatTyped'
    BY <1>1, <2>2, <2>3, <2>5, PatWrites
  <2>9. i2cReg' \in I2cByte
    BY <1>10, <2>3 DEF I2cBusTyped, I2cByte
  <2>10. i2cFlag' /\ i2cFlag' \in BOOLEAN
    BY <1>7, <1>13, <2>3
  <2> QED BY <1>7, <1>9, <1>10, <1>13, <2>3, <2>4, <2>7, <2>8, <2>9, <2>10 DEF I2cBusTyped
<1>14. ASSUME i2cPc = 4 PROVE Goal
  <2>1. I2cMessage(I2cStep("STOP", 0))
    BY <1>5, <1>6, <1>14
  <2>2. p[i2cPc].op # "START"
    BY <1>5, <1>14, I2cStepIs
  <2>3. /\ i2cState' = "Idle" /\ i2cFlag' = FALSE
        /\ UNCHANGED <<patMotion, i2cShown, i2cReg, i2cAck, i2cGot>>
        /\ UNCHANGED <<i2cLine, i2cCount, i2cShift, i2cScl, i2cSda>>
    BY <1>1, <2>1, I2cStopMessage
  <2>6. ~i2cFlag' /\ i2cFlag' \in BOOLEAN
    BY <2>3, Zenon
  <2>4. i2cPc' = 5
    BY <1>6, <1>14, <2>2
  <2>5. PatTyped' /\ PatKept
    BY <1>1, <2>3, PatStays DEF PatKept, patMotion
  <2> QED BY <1>9, <1>10, <1>14, <2>3, <2>4, <2>5, <2>6 DEF I2cBusTyped
<1>15. Goal
  <2> HIDE DEF Goal
  <2> QED BY <1>7, <1>11, <1>12, <1>13, <1>14
<1>16. i2cTx' = i2cTx /\ i2cNative' = i2cNative
  BY <1>6 DEF I2cFirmwareSame
<1>17. I2cBusTyped'
  BY <1>10, <1>15 DEF I2cBusTyped
<1>18. I2cRegs'
  <2>1. CASE i2cPc = 3
    <3>1. patRaw' = PatSet(patRaw, i2cTx.reg, i2cTx.value)
      BY <1>4, <1>15, <2>1
    <3>2. ~(i2cPc >= I2cDone) /\ i2cPc' >= I2cDone
      BY <1>8, <1>15, <2>1
    <3> QED BY <1>1, <1>6, <3>1, <3>2, I2cRegsWritten
  <2>2. CASE i2cPc # 3
    <3>1. PatKept
      BY <1>15, <2>2
    <3>2. i2cPc >= I2cDone <=> i2cPc' >= I2cDone
      BY <1>7, <1>8, <1>15, <2>2
    <3> QED BY <1>1, <1>6, <3>1, <3>2, I2cRegsKept
  <2> QED BY <2>1, <2>2
<1>19. I2cTxOK'
  BY <1>4, <1>8, <1>15, <1>16 DEF I2cTxOK
<1>20. I2cMessageAt'
  <2>1. i2cFlag' <=> (i2cPc' \in 3..4)
    BY <1>15
  <2> QED BY <1>7, <1>15, <1>16, <2>1 DEF I2cMessageAt
<1>21. i2cPc' \in Nat \ {0}
  BY <1>7, <1>15
<1> QED BY <1>6, <1>15, <1>17, <1>18, <1>19, <1>20, <1>21, I2cKeepInv

LEMMA I2cNativeOther ==
  ASSUME I2cInv, i2cTx # I2cIdle, i2cNative, I2cGo, i2cTx.address # I2cAddress
  PROVE  I2cInv'
<1>1. I2cTypeOK /\ PatTyped /\ I2cRegs /\ I2cTxOK /\ I2cMessageAt
  BY PatOfInv DEF I2cInv
<1>2. i2cTx \in I2cTransactions /\ i2cTx.kind = "write" /\ i2cTx.address = I2cOther
  BY <1>1, I2cKinds
<1>3. PICK p : p = I2cProgram(TRUE, i2cTx)
  OBVIOUS
<1>5. p[1] = I2cStep("START", I2cOther) /\ p[4] = I2cStep("STOP", 0) /\ Len(p) = 4
  BY <1>2, <1>3, I2cNativeCode
<1>6. /\ i2cPc <= Len(p) /\ I2cMessage(p[i2cPc]) /\ I2cFirmwareSame
      /\ i2cPc' = IF p[i2cPc].op = "START" /\ i2cAck' = 1 THEN Len(p) ELSE i2cPc + 1
  BY <1>1, <1>3, I2cMessageGo
<1>7. i2cPc \in {1, 4} /\ ~i2cFlag
  <2>1. i2cPc \in {1, 4, 5}
    BY <1>1 DEF I2cMessageAt
  <2>2. i2cPc <= 4
    BY <1>5, <1>6, <2>1, Zenon
  <2>3. i2cFlag = FALSE
    BY <1>1 DEF I2cMessageAt
  <2> QED BY <2>1, <2>2, <2>3
<1>10. I2cBusTyped
  BY <1>1 DEF I2cTypeOK, I2cBusTyped
<1> DEFINE Goal ==
      /\ i2cPc' \in {4, 5} /\ i2cFlag' = FALSE /\ i2cAck' \in 0..1
      /\ i2cState' \in {"Idle", "AddrIn", "RegIn", "DataIn"}
      /\ UNCHANGED <<patMotion, i2cShown, i2cReg, i2cGot>>
      /\ UNCHANGED <<i2cLine, i2cCount, i2cShift, i2cScl, i2cSda>>
<1>11. ASSUME i2cPc = 1 PROVE Goal
  <2>1. I2cMessage(I2cStep("START", I2cOther))
    BY <1>5, <1>6, <1>11
  <2>2. /\ i2cAck' = 1 /\ i2cState' = i2cState
        /\ UNCHANGED <<patMotion, i2cShown, i2cReg, i2cFlag, i2cGot>>
        /\ UNCHANGED <<i2cLine, i2cCount, i2cShift, i2cScl, i2cSda>>
    BY <1>1, <1>2, <2>1, I2cStartMessage
  <2>3. p[i2cPc].op = "START"
    BY <1>5, <1>11, I2cStepIs
  <2>4. i2cPc' = 4
    BY <1>5, <1>6, <2>2, <2>3
  <2>5. i2cFlag' = FALSE
    BY <1>7, <1>10, <2>2 DEF I2cBusTyped
  <2> QED BY <1>10, <2>2, <2>4, <2>5 DEF I2cBusTyped
<1>12. ASSUME i2cPc = 4 PROVE Goal
  <2>1. I2cMessage(I2cStep("STOP", 0))
    BY <1>5, <1>6, <1>12
  <2>2. p[i2cPc].op # "START"
    BY <1>5, <1>12, I2cStepIs
  <2>3. /\ i2cState' = "Idle" /\ i2cFlag' = FALSE
        /\ UNCHANGED <<patMotion, i2cShown, i2cReg, i2cAck, i2cGot>>
        /\ UNCHANGED <<i2cLine, i2cCount, i2cShift, i2cScl, i2cSda>>
    BY <1>1, <2>1, I2cStopMessage
  <2>4. i2cPc' = 5
    BY <1>6, <1>12, <2>2
  <2> QED BY <1>10, <2>3, <2>4 DEF I2cBusTyped
<1>15. Goal
  <2> HIDE DEF Goal
  <2> QED BY <1>7, <1>11, <1>12
<1>16. i2cTx' = i2cTx /\ i2cNative' = i2cNative
  BY <1>6 DEF I2cFirmwareSame
<1>17. I2cBusTyped'
  BY <1>10, <1>15 DEF I2cBusTyped
<1>13. PatTyped'
  BY <1>1, <1>15, PatStays
<1>18. I2cRegs'
  BY <1>1, <1>2, <1>6, <1>15, <1>16 DEF I2cRegs, patMotion, I2cFirmwareSame
<1>19. I2cTxOK'
  <2>1. i2cTx'.kind # "read" /\ i2cTx'.address # I2cAddress /\ i2cNative'
    BY <1>2, <1>16
  <2> QED BY <2>1 DEF I2cTxOK
<1>20. I2cMessageAt'
  BY <1>2, <1>15, <1>16 DEF I2cMessageAt
<1>21. i2cPc' \in Nat \ {0}
  BY <1>15
<1> QED BY <1>6, <1>13, <1>15, <1>17, <1>18, <1>19, <1>20, <1>21, I2cKeepInv

-----------------------------------------------------------------------------
\* The filament moves, and scripts and keys set the sensor: no line of the bus changes, and
\* no register but the flag and the counts.
PatEventTyped ==
  /\ patRaw \in [PatRegisters -> I2cByte] /\ patRaw[PatBank] \in 0..1
  /\ patDelta \in -1..1 /\ patUntold \in BOOLEAN /\ patLost \in BOOLEAN /\ PatMotionTold

LEMMA PatSetsMotion ==
  ASSUME I2cTypeOK, PatTyped, NEW d \in -1..1, PatSetMotion(d, patState)
  PROVE  PatEventTyped' /\ PatKept
<1>1. patDelta' = d /\ patRaw' = PatMoved(d, patState)
  BY DEF PatSetMotion
<1>2. patRaw' \in [PatRegisters -> I2cByte] /\ PatKept
  BY <1>1, PatMovesRegs DEF PatKept
<1>3. patRaw'[PatBank] \in 0..1
  BY <1>2 DEF PatKept, PatTyped
<1>4. /\ patUntold' \in BOOLEAN /\ patLost' \in BOOLEAN
      /\ patUntold' => patUntold \/ patState # "JAM"
      /\ patLost /\ patState = "JAM" => patLost'
  <2>1. /\ patUntold' = (patUntold \/ patState # "JAM")
        /\ patLost' = (patLost /\ patState = "JAM")
    BY DEF PatSetMotion
  <2>2. patUntold' \in BOOLEAN /\ patLost' \in BOOLEAN
    BY <2>1, Zenon
  <2>3. /\ patUntold' => patUntold \/ patState # "JAM"
        /\ patLost /\ patState = "JAM" => patLost'
    BY <2>1, Zenon
  <2> QED BY <2>2, <2>3
<1>5. patUntold' => patRaw'[PatMStatus] = 128 \/ patLost'
  <2>1. CASE patState = "JAM"
    <3>1. patRaw'[PatMStatus] = patRaw[PatMStatus]
      BY <1>1, <2>1, PatMovesRegs
    <3> QED BY <1>4, <2>1, <3>1 DEF PatTyped, PatMotionTold
  <2>2. CASE patState # "JAM"
    BY <1>1, <2>2, PatMovesRegs
  <2> QED BY <2>1, <2>2
<1> QED BY <1>1, <1>2, <1>3, <1>4, <1>5 DEF PatEventTyped, PatMotionTold

LEMMA PatUpdates ==
  ASSUME NEW state \in {"NO_FILAMENT", "PRESENT", "JAM", "AUTO"}, NEW auto \in BOOLEAN,
         patNudge \in 0..4, PatUpdate(state, auto)
  PROVE  patState' \in {"NO_FILAMENT", "PRESENT", "JAM", "AUTO"} /\ patFilament' \in BOOLEAN
         /\ patNudge' \in 0..4
<1>2. patFilament' \in BOOLEAN
  <2>1. CASE state = "AUTO"
    BY <2>1 DEF PatUpdate
  <2>2. CASE state # "AUTO"
    <3>1. patFilament' = (state \in {"PRESENT", "JAM"})
      BY <2>2 DEF PatUpdate
    <3> QED BY <3>1, SMT
  <2> QED BY <2>1, <2>2
<1> QED BY <1>2 DEF PatUpdate

LEMMA PatEventKeeps ==
  ASSUME I2cTypeOK, PatTyped, PatEvent
  PROVE  /\ PatTyped' /\ PatKept
         /\ patState' \in {"NO_FILAMENT", "PRESENT", "JAM", "AUTO"} /\ patFilament' \in BOOLEAN
<1>1. /\ patState \in {"NO_FILAMENT", "PRESENT", "JAM", "AUTO"} /\ patFilament \in BOOLEAN
      /\ patRaw \in [PatRegisters -> I2cByte] /\ patRaw[PatBank] \in 0..1
      /\ patLoading \in BOOLEAN /\ patNudge \in 0..4 /\ patDelta \in -1..1 /\ patUntold \in BOOLEAN
      /\ patLost \in BOOLEAN /\ PatMotionTold
  BY DEF I2cTypeOK, PatTyped
<1> DEFINE State == patState' \in {"NO_FILAMENT", "PRESENT", "JAM", "AUTO"}
                    /\ patFilament' \in BOOLEAN
           Goal == PatTyped' /\ PatKept /\ State
<1>2. ASSUME UNCHANGED <<patRaw, patDelta, patUntold, patLost>>
      PROVE  PatEventTyped' /\ PatKept
  BY <1>1, <1>2 DEF PatEventTyped, PatMotionTold, PatKept
<1>3. ASSUME PatEventTyped', PatKept, State, patLoading' \in BOOLEAN, patNudge' \in 0..4
      PROVE  Goal
  BY <1>3 DEF PatEventTyped, PatTyped
<1>4. ASSUME UNCHANGED patSensor PROVE State
  BY <1>1, <1>4 DEF patSensor
<1> HIDE DEF State, Goal
<1>5. ASSUME PatEMotion PROVE Goal
  <2>1. patLoading' \in BOOLEAN /\ patNudge' \in 0..4 /\ UNCHANGED patSensor
    BY <1>1, <1>5 DEF PatEMotion
  <2>2. CASE patFilament
    <3>1. PICK d \in -1..1 : PatSetMotion(d, patState)
      BY <1>5, <2>2 DEF PatEMotion
    <3>2. PatEventTyped' /\ PatKept
      BY <3>1, PatSetsMotion
    <3> QED BY <1>3, <1>4, <2>1, <3>2
  <2>3. CASE ~patFilament
    <3>1. /\ patRaw' = [patRaw EXCEPT ![PatMStatus] = 0, ![PatDYLow] = 0]
          /\ patDelta' = patDelta
      BY <1>5, <2>3 DEF PatEMotion
    <3>2. patUntold' = patUntold /\ patLost' = patUntold
      BY <1>5, <2>3, Zenon DEF PatEMotion
    <3>3. PatEventTyped' /\ PatKept
      BY <1>1, <3>1, <3>2 DEF PatEventTyped, PatMotionTold, PatKept,
                              PatRegisters, PatMStatus, PatDYLow, PatBank, I2cByte
    <3> QED BY <1>3, <1>4, <2>1, <3>3
  <2> QED BY <2>2, <2>3
<1>6. ASSUME PatPMotion PROVE Goal
  <2>1. PICK loaded \in BOOLEAN :
          /\ patLoading' = FALSE
          /\ IF patState = "AUTO" /\ patFilament # loaded THEN PatUpdate("AUTO", loaded)
                                                          ELSE UNCHANGED <<patSensor, patNudge>>
          /\ IF loaded THEN \E d \in -1..1 : PatSetMotion(d, patState)
                       ELSE UNCHANGED <<patRaw, patDelta, patUntold, patLost>>
    BY <1>6 DEF PatPMotion
  <2>2. State /\ patNudge' \in 0..4
    <3>1. CASE patState = "AUTO" /\ patFilament # loaded
      BY <1>1, <2>1, <3>1, PatUpdates DEF State
    <3>2. CASE ~(patState = "AUTO" /\ patFilament # loaded)
      BY <1>1, <1>4, <2>1, <3>2
    <3> QED BY <3>1, <3>2
  <2>3. PatEventTyped' /\ PatKept
    <3>1. CASE loaded
      BY <2>1, <3>1, PatSetsMotion
    <3>2. CASE ~loaded
      BY <1>2, <2>1, <3>2
    <3> QED BY <3>1, <3>2
  <2>4. patLoading' \in BOOLEAN
    BY <2>1
  <2> QED BY <1>3, <2>2, <2>3, <2>4
<1>7. ASSUME PatToggle PROVE Goal
  <2>1. PatEventTyped' /\ PatKept
    BY <1>2, <1>7 DEF PatToggle
  <2>2. \/ PatUpdate("PRESENT", TRUE) /\ patLoading' = TRUE
        \/ PatUpdate("PRESENT", TRUE) /\ patLoading' = patLoading
        \/ PatUpdate("NO_FILAMENT", FALSE) /\ patLoading' = patLoading
    BY <1>7 DEF PatToggle
  <2>3. State /\ patNudge' \in 0..4
    BY <1>1, <2>2, PatUpdates DEF State
  <2>4. patLoading' \in BOOLEAN
    BY <1>1, <2>2
  <2> QED BY <1>3, <2>1, <2>3, <2>4
<1>8. ASSUME PatToggleJam PROVE Goal
  <2>1. patState' \in {"JAM", "PRESENT"} /\ UNCHANGED <<patFilament, patMotion>>
    BY <1>8 DEF PatToggleJam
  <2>2. PatEventTyped' /\ PatKept
    BY <1>2, <2>1 DEF patMotion
  <2>3. State
    BY <1>1, <2>1 DEF State
  <2> QED BY <1>1, <1>3, <2>1, <2>2, <2>3 DEF patMotion
<1>9. ASSUME PatSetState PROVE Goal
  <2>1. PICK state \in {"NO_FILAMENT", "PRESENT", "JAM", "AUTO"} :
          PatUpdate(state, patFilament) /\ UNCHANGED <<patRaw, patLoading, patDelta, patUntold, patLost>>
    BY <1>9 DEF PatSetState
  <2>2. State /\ patNudge' \in 0..4
    BY <1>1, <2>1, PatUpdates DEF State
  <2>3. PatEventTyped' /\ PatKept
    BY <1>2, <2>1
  <2> QED BY <1>1, <1>3, <2>1, <2>2, <2>3
<1>10. Goal
  BY <1>5, <1>6, <1>7, <1>8, <1>9 DEF PatEvent
<1> QED BY <1>10 DEF Goal, State

-----------------------------------------------------------------------------
LEMMA I2cInitInv == I2cInit => I2cInv
<1> SUFFICES ASSUME I2cInit PROVE I2cInv
  OBVIOUS
<1>1. /\ patRaw \in [PatRegisters -> I2cByte] /\ patRaw[PatBank] = 0
      /\ i2cShadow \in [{14, PatBank, 142} -> I2cByte]
      /\ \A a \in {14, PatBank, 142} : patRaw[a] = i2cShadow[a]
  BY DEF I2cInit, PatRegisters, PatBank, PatMStatus, PatDYLow, I2cByte
<1>2. ~patUntold /\ patUntold \in BOOLEAN /\ patLost \in BOOLEAN /\ ~i2cFlag /\ i2cFlag \in BOOLEAN
      /\ patLoading \in BOOLEAN /\ patFilament \in BOOLEAN
  BY Zenon DEF I2cInit
<1>3. I2cTypeOK
  BY <1>1, <1>2, I2cSensorAssumption DEF I2cInit, I2cTypeOK, I2cByte, I2cNothing
<1>4. i2cTx = I2cIdle /\ i2cPc = 1 /\ i2cScl = 1 /\ i2cSda = 1
  BY DEF I2cInit
<1> QED BY <1>1, <1>2, <1>3, <1>4 DEF I2cInv, I2cRegs, PatMotionTold

\* Before the first step of a transaction the lines are high and nothing was sent.
LEMMA I2cBeginInv ==
  ASSUME I2cInv, I2cBegin
  PROVE  I2cInv'
<1>1. /\ i2cTx = I2cIdle /\ i2cTx' \in I2cTransactions
      /\ i2cPc' = 1 /\ i2cGot' = 0 /\ i2cAck' = 0 /\ i2cShown' = I2cNothing
      /\ i2cTransactions' = i2cTransactions + 1
      /\ UNCHANGED <<patSensor, patMotion, i2cDevice, i2cLines, i2cNative, i2cShadow, i2cEvents>>
  BY DEF I2cBegin
<1>2. PICK t \in I2cTransactions : t = i2cTx'
  BY <1>1
<1>3. /\ t # I2cIdle /\ t.kind \in {"read", "write"} /\ t.address \in {I2cAddress, I2cOther}
  BY I2cTxType
<1>4. I2cTypeOK /\ PatTyped /\ patRaw[PatBank] \in 0..1 /\ PatMotionTold
  BY PatOfInv DEF I2cInv
<1>5. ~i2cFlag /\ i2cFlag \in BOOLEAN /\ (~i2cNative => i2cScl = 1 /\ i2cSda = 1)
  BY <1>1, <1>4 DEF I2cInv, I2cTypeOK
<1>6. \A a \in {14, PatBank, 142} : patRaw[a] = i2cShadow[a]
  BY <1>1 DEF I2cInv, I2cRegs
<1>7. I2cTypeOK'
  BY <1>1, <1>4 DEF I2cTypeOK, patSensor, patMotion, i2cDevice, i2cLines, I2cByte, I2cNothing
<1>8. patRaw'[PatBank] \in 0..1 /\ PatMotionTold'
  BY <1>1, <1>4 DEF patMotion, PatMotionTold
<1>9. ~i2cFlag' /\ i2cFlag' \in BOOLEAN
  BY <1>1, <1>5 DEF i2cDevice
<1>10. I2cDone' >= 4 /\ I2cSent' >= 3 /\ I2cDone' \in Nat /\ I2cSent' \in Nat
  BY DEF I2cDone, I2cSent
<1>11. I2cRegs'
  <2>1. \A a \in {14, PatBank, 142} : patRaw'[a] = i2cShadow'[a]
    BY <1>1, <1>6 DEF patMotion
  <2>2. ~(i2cPc' >= I2cDone')
    BY <1>1, <1>10
  <2> QED BY <2>1, <2>2 DEF I2cRegs
<1>12. I2cTxOK'
  <2>1. ~(i2cPc' \in I2cSent'..(I2cDone' - 1)) /\ i2cPc' < I2cDone' /\ ~(i2cPc' >= I2cDone')
    <3>1. PICK s \in Nat, d \in Nat : s = I2cSent' /\ d = I2cDone'
      BY <1>10
    <3>2. s >= 3 /\ d >= 4
      BY <1>10, <3>1
    <3>3. i2cPc' = 1
      BY <1>1
    <3>4. ~(1 \in s..(d - 1)) /\ 1 < d /\ ~(1 >= d)
      BY <3>2
    <3> QED BY <3>1, <3>3, <3>4
  <2>3. i2cPc' <= 28 /\ ~(i2cPc' >= 5)
    BY <1>1
  <2>2. ~(i2cPc' > Len(I2cCode)' - 2 /\ ~i2cNative' /\ i2cTx'.kind = "read")
    <3> SUFFICES ASSUME ~i2cNative', i2cTx'.kind = "read" PROVE ~(i2cPc' > Len(I2cCode)' - 2)
      OBVIOUS
    <3>1. I2cCode' = I2cProgram(FALSE, t)
      <4>1. I2cCode' = I2cPrograms[i2cNative'][t]
        BY <1>2 DEF I2cCode
      <4>2. i2cNative' = FALSE
        BY <1>7 DEF I2cTypeOK
      <4>3. I2cPrograms[FALSE][t] = I2cProgram(FALSE, t)
        BY DEF I2cPrograms
      <4> QED BY <4>1, <4>2, <4>3, Zenon
    <3>2. Len(I2cProgram(FALSE, t)) = 120
      BY <1>2, I2cCodeLen
    <3>3. Len(I2cCode)' = 120
      BY <3>1, <3>2
    <3> QED BY <1>1, <3>3
  <2> QED BY <1>1, <2>1, <2>2, <2>3 DEF I2cTxOK
<1>13. i2cNative' => I2cMessageAt'
  <2>1. i2cPc' \notin 3..(IF i2cTx'.kind = "read" THEN 5 ELSE 4)
    BY <1>1
  <2>2. i2cPc' \notin (IF i2cTx'.kind = "read" THEN 2..5 ELSE 2..4)
    BY <1>1
  <2>3. i2cPc' \in {1, 4, 5} /\ i2cPc' \in 1..(IF i2cTx'.kind = "read" THEN 6 ELSE 5)
    BY <1>1
  <2> QED BY <1>9, <2>1, <2>2, <2>3 DEF I2cMessageAt
<1>14. ~i2cNative' => I2cStarting(0)'
  BY <1>1, <1>5 DEF I2cStarting, i2cLines
<1>15. ~i2cNative' => (I2cOtherAt' /\ I2cReadAt' /\ I2cWriteAt')
  BY <1>14 DEF I2cOtherAt, I2cReadAt, I2cWriteAt
<1>16. i2cTx' # I2cIdle
  BY <1>2, <1>3
<1> QED BY <1>7, <1>8, <1>9, <1>11, <1>12, <1>13, <1>15, <1>16 DEF I2cInv

LEMMA I2cGoInv ==
  ASSUME I2cInv, I2cGo
  PROVE  I2cInv'
<1>1. I2cTypeOK /\ i2cTx # I2cIdle
  BY DEF I2cInv, I2cGo
<1>2. CASE ~i2cNative
  BY <1>1, <1>2, I2cLineInv
<1>3. CASE i2cNative
  BY <1>1, <1>3, I2cKinds, I2cNativeRead, I2cNativeWrite, I2cNativeOther
<1> QED BY <1>2, <1>3

\* After its last step: the lines are high again, and what was written is what was asked for.
LEMMA I2cLast ==
  ASSUME I2cInv, i2cTx # I2cIdle, i2cPc = Len(I2cCode) + 1
  PROVE  /\ ~i2cFlag /\ (~i2cNative => i2cScl = 1 /\ i2cSda = 1)
         /\ i2cPc >= I2cDone /\ i2cPc > Len(I2cCode) /\ Len(I2cCode) \in Nat
<1>1. I2cTypeOK /\ i2cTx \in I2cTransactions /\ i2cNative \in BOOLEAN
  BY I2cKinds DEF I2cInv, I2cTypeOK
<1>2. i2cTx.kind \in {"read", "write"} /\ (i2cTx.kind = "read" => i2cTx.address = I2cAddress)
  BY <1>1, I2cKinds
<1>3. PICK t \in I2cTransactions : t = i2cTx
  BY <1>1
<1>4. CASE i2cNative
  <2>1. I2cCode = I2cProgram(TRUE, t)
    BY <1>1, <1>3, <1>4, I2cCodeIs
  <2>2. Len(I2cCode) = IF i2cTx.kind = "read" THEN 5 ELSE 4
    BY <1>2, <1>3, <2>1, I2cNativeCode
  <2>3. i2cPc = IF i2cTx.kind = "read" THEN 6 ELSE 5
    BY <2>2
  <2>4. I2cMessageAt
    BY <1>4 DEF I2cInv
  <2>5. ~i2cFlag
    BY <2>3, <2>4 DEF I2cMessageAt
  <2>6. i2cPc >= I2cDone
    BY <1>4, <2>3 DEF I2cDone
  <2> QED BY <1>4, <2>2, <2>3, <2>5, <2>6
<1>5. CASE ~i2cNative
  <2>1. I2cCode = I2cProgram(FALSE, t)
    BY <1>1, <1>3, <1>5, I2cCodeIs
  <2>2. Len(I2cCode) = IF i2cTx.kind = "read" THEN 120 ELSE 91
    BY <1>3, <2>1, I2cCodeLen
  <2>3. i2cPc = IF i2cTx.kind = "read" THEN 121 ELSE 92
    BY <2>2
  <2>4. i2cPc >= I2cDone /\ ~i2cFlag
    BY <1>5, <2>3 DEF I2cDone, I2cInv
  <2>5. CASE i2cTx.kind = "read"
    <3>1. I2cReadAt
      BY <1>2, <1>5, <2>5 DEF I2cInv
    <3>2. i2cPc = 121
      BY <2>3, <2>5
    <3>3. ASSUME NEW b \in {2, 31, 60, 64}, NEW k \in 1..29, i2cPc = b + k PROVE FALSE
      BY <3>2, <3>3
    <3>4. \A b \in {2, 31, 60, 64} : \A v, state, line : ~I2cSending(b, v, state) /\ ~I2cAcked(b, state, line)
      <4>1. ASSUME NEW b \in {2, 31, 60, 64}, NEW v, NEW state, I2cSending(b, v, state) PROVE FALSE
        <5>1. PICK k \in 1..26 : i2cPc = b + k
          BY <4>1 DEF I2cSending
        <5>2. k \in 1..29
          OBVIOUS
        <5> QED BY <3>3, <5>1, <5>2
      <4>2. ASSUME NEW b \in {2, 31, 60, 64}, NEW state, NEW line, I2cAcked(b, state, line) PROVE FALSE
        <5>1. PICK k \in 27..29 : i2cPc = b + k
          BY <4>2 DEF I2cAcked
        <5>2. k \in 1..29
          OBVIOUS
        <5> QED BY <3>3, <5>1, <5>2
      <4> QED BY <4>1, <4>2
    <3>5. ~I2cStarting(0) /\ ~I2cStarting(62) /\ ~I2cStopping(60) /\ ~I2cStopping(118)
      BY <3>2 DEF I2cStarting, I2cStopping
    <3>6. ~I2cReading(93)
      <4>1. ASSUME NEW k \in 2..24, i2cPc = 93 + 1 + k PROVE FALSE
        BY <3>2, <4>1
      <4> QED BY <3>2, <4>1 DEF I2cReading
    <3>7. I2cStopped(120)
      BY <3>1, <3>4, <3>5, <3>6 DEF I2cReadAt
    <3> QED BY <2>2, <2>3, <2>4, <3>7 DEF I2cStopped
  <2>6. CASE i2cTx.kind = "write"
    <3>1. I2cOtherAt \/ I2cWriteAt
      BY <1>2, <1>5, <2>6 DEF I2cInv
    <3>2. i2cPc = 92
      BY <2>3, <2>6
    <3>3. ASSUME NEW b \in {2, 31, 60}, NEW k \in 1..29, i2cPc = b + k PROVE FALSE
      BY <3>2, <3>3
    <3>4. \A b \in {2, 31, 60} : \A v, state, line : ~I2cSending(b, v, state) /\ ~I2cAcked(b, state, line)
      <4>1. ASSUME NEW b \in {2, 31, 60}, NEW v, NEW state, I2cSending(b, v, state) PROVE FALSE
        <5>1. PICK k \in 1..26 : i2cPc = b + k
          BY <4>1 DEF I2cSending
        <5>2. k \in 1..29
          OBVIOUS
        <5> QED BY <3>3, <5>1, <5>2
      <4>2. ASSUME NEW b \in {2, 31, 60}, NEW state, NEW line, I2cAcked(b, state, line) PROVE FALSE
        <5>1. PICK k \in 27..29 : i2cPc = b + k
          BY <4>2 DEF I2cAcked
        <5>2. k \in 1..29
          OBVIOUS
        <5> QED BY <3>3, <5>1, <5>2
      <4> QED BY <4>1, <4>2
    <3>5. ~I2cStarting(0) /\ ~I2cStopping(89) /\ ~I2cRefused(2)
      <4>1. ~I2cRefused(2)
        <5>1. ASSUME NEW k \in 27..29, i2cPc = 2 + k PROVE FALSE
          BY <3>2, <5>1
        <5> QED BY <5>1 DEF I2cRefused
      <4> QED BY <3>2, <4>1 DEF I2cStarting, I2cStopping
    <3>7. I2cStopped(91)
      BY <3>1, <3>4, <3>5 DEF I2cOtherAt, I2cWriteAt
    <3> QED BY <2>2, <2>3, <2>4, <3>7 DEF I2cStopped
  <2> QED BY <1>2, <2>5, <2>6
<1> QED BY <1>4, <1>5

LEMMA I2cEndInv ==
  ASSUME I2cInv, I2cEnd
  PROVE  I2cInv'
<1>1. /\ i2cTx # I2cIdle /\ i2cPc = Len(I2cCode) + 1 /\ i2cTx' = I2cIdle /\ i2cPc' = 1
      /\ i2cShadow' = IF i2cTx.kind = "write" /\ i2cTx.address = I2cAddress
                      THEN PatSet(i2cShadow, i2cTx.reg, i2cTx.value) ELSE i2cShadow
      /\ UNCHANGED <<patSensor, patMotion, i2cDevice, i2cLines, i2cNative, i2cGot, i2cAck, i2cShown,
                     i2cTransactions, i2cEvents>>
  BY DEF I2cEnd
<1>2. I2cTypeOK /\ patRaw[PatBank] \in 0..1 /\ PatMotionTold /\ I2cRegs
  BY DEF I2cInv
<1>3. /\ ~i2cFlag /\ (~i2cNative => i2cScl = 1 /\ i2cSda = 1) /\ i2cPc >= I2cDone
  BY <1>1, I2cLast
<1>4. /\ \A a \in {14, PatBank, 142} : patRaw[a] = i2cShadow'[a]
      /\ i2cShadow' \in [{14, PatBank, 142} -> I2cByte]
  <2>1. CASE i2cTx.kind = "write" /\ i2cTx.address = I2cAddress
    <3>1. \A a \in {14, PatBank, 142} : patRaw[a] = PatSet(i2cShadow, i2cTx.reg, i2cTx.value)[a]
      BY <1>1, <1>2, <1>3, <2>1 DEF I2cRegs
    <3>2. PICK r \in {14, PatBank}, v \in I2cByte : r = i2cTx.reg /\ v = i2cTx.value
      BY <1>1, <1>2, <2>1, I2cKinds
    <3>3. i2cShadow' = PatSet(i2cShadow, r, v)
      BY <1>1, <2>1, <3>2
    <3>4. PatSet(i2cShadow, r, v) \in [{14, PatBank, 142} -> I2cByte]
      <4>1. i2cShadow \in [{14, PatBank, 142} -> I2cByte]
        BY <1>2 DEF I2cTypeOK
      <4>2. PatBanked(i2cShadow, r) \in {r, r + 128}
        BY DEF PatBanked
      <4> QED BY <4>1, <4>2 DEF PatSet, PatBank, I2cByte
    <3> QED BY <3>1, <3>2, <3>3, <3>4
  <2>2. CASE ~(i2cTx.kind = "write" /\ i2cTx.address = I2cAddress)
    <3>1. \A a \in {14, PatBank, 142} : patRaw[a] = i2cShadow[a]
      BY <1>2, <2>2 DEF I2cRegs
    <3>2. i2cShadow' = i2cShadow
      BY <1>1, <2>2
    <3> QED BY <1>2, <3>1, <3>2 DEF I2cTypeOK
  <2> QED BY <2>1, <2>2
<1>5. I2cTypeOK'
  BY <1>1, <1>2, <1>4 DEF I2cTypeOK, patSensor, patMotion, i2cDevice, i2cLines
<1>6. patRaw'[PatBank] \in 0..1 /\ PatMotionTold'
  BY <1>1, <1>2 DEF patMotion, PatMotionTold
<1>7. I2cRegs'
  BY <1>1, <1>4 DEF I2cRegs, patMotion
<1>8. ~i2cFlag' /\ (~i2cNative' => i2cScl' = 1 /\ i2cSda' = 1)
  BY <1>1, <1>3 DEF i2cDevice, i2cLines
<1> QED BY <1>1, <1>5, <1>6, <1>7, <1>8 DEF I2cInv

LEMMA I2cSameBus ==
  ASSUME I2cInv, PatTyped', PatKept, UNCHANGED <<i2cDevice, i2cLines, i2cMaster>>,
         patState' \in {"NO_FILAMENT", "PRESENT", "JAM", "AUTO"}, patFilament' \in BOOLEAN,
         i2cEvents' \in Nat
  PROVE  I2cInv'
<1>1. I2cTypeOK /\ I2cRegs
  BY DEF I2cInv
<1>2. I2cTypeOK'
  BY <1>1 DEF I2cTypeOK, PatTyped, i2cDevice, i2cLines, i2cMaster
<1>3. patRaw'[PatBank] \in 0..1 /\ PatMotionTold'
  BY DEF PatTyped
<1>4. UNCHANGED <<i2cLine, i2cState, i2cCount, i2cShift, i2cReg, i2cFlag, i2cScl, i2cSda, i2cNative,
                  i2cTx, i2cPc, i2cGot, i2cAck, i2cShown, i2cShadow>>
  BY DEF i2cDevice, i2cLines, i2cMaster
<1>5. I2cRegs'
  BY <1>1, <1>4 DEF I2cRegs, PatKept, I2cDone
<1>6. UNCHANGED <<I2cTxOK, I2cMessageAt>>
  BY <1>4 DEF I2cTxOK, I2cMessageAt, I2cSent, I2cDone, I2cCode
<1>7. UNCHANGED <<I2cOtherAt, I2cReadAt, I2cWriteAt>>
  BY <1>4 DEF I2cOtherAt, I2cReadAt, I2cWriteAt, I2cStarting, I2cSending, I2cAcked, I2cRefused,
              I2cReading, I2cStopping, I2cStopped
<1> QED BY <1>2, <1>3, <1>4, <1>5, <1>6, <1>7 DEF I2cInv

LEMMA I2cStepInv == I2cInv /\ [I2cNext]_i2cVars => I2cInv'
<1> SUFFICES ASSUME I2cInv, [I2cNext]_i2cVars PROVE I2cInv'
  OBVIOUS
<1>1. I2cTypeOK /\ PatTyped
  BY PatOfInv
<1>2. CASE PatEvent
  <2>1. UNCHANGED <<i2cDevice, i2cLines, i2cMaster>> /\ i2cEvents' = i2cEvents + 1
    BY <1>2 DEF PatEvent
  <2>2. i2cEvents' \in Nat
    BY <1>1, <2>1 DEF I2cTypeOK
  <2> QED BY <1>1, <1>2, <2>1, <2>2, PatEventKeeps, I2cSameBus
<1>3. CASE UNCHANGED i2cVars
  <2>1. UNCHANGED <<patMotion, i2cDevice, i2cLines, i2cMaster>>
        /\ UNCHANGED <<patState, patFilament, i2cEvents>>
    BY <1>3 DEF i2cVars, patSensor
  <2>2. PatTyped' /\ PatKept
    BY <1>1, <2>1, PatStays DEF PatKept, patMotion
  <2>3. /\ patState' \in {"NO_FILAMENT", "PRESENT", "JAM", "AUTO"} /\ patFilament' \in BOOLEAN
        /\ i2cEvents' \in Nat
    BY <1>1, <2>1 DEF I2cTypeOK
  <2> QED BY <2>1, <2>2, <2>3, I2cSameBus
<1> QED BY <1>2, <1>3, I2cBeginInv, I2cGoInv, I2cEndInv DEF I2cNext

LEMMA I2cInvariant == I2cSpec => []I2cInv
BY I2cInitInv, I2cStepInv, PTL DEF I2cSpec

\* The last step of a read is the one after which the byte is whole.
LEMMA I2cInvHonest ==
  ASSUME I2cInv
  PROVE  I2cHonest
<1>1. I2cTypeOK /\ I2cRegs
  BY DEF I2cInv
<1>2. ASSUME i2cTx # I2cIdle, i2cPc > Len(I2cCode), i2cTx.kind = "read"
      PROVE  i2cGot = i2cShown /\ i2cAck = 0
  <2>1. I2cTxOK /\ i2cTx \in I2cTransactions /\ i2cTx.address = I2cAddress
    BY <1>1, <1>2, I2cKinds DEF I2cInv
  <2>2. PICK t \in I2cTransactions : t = i2cTx
    BY <2>1
  <2>3. CASE i2cNative
    <3>1. I2cCode = I2cProgram(TRUE, t)
      BY <1>1, <2>1, <2>2, <2>3, I2cCodeIs DEF I2cTypeOK
    <3>2. Len(I2cCode) = 5
      BY <1>2, <2>2, <3>1, I2cNativeCode
    <3> QED BY <1>1, <1>2, <2>1, <2>3, <3>2 DEF I2cTxOK, I2cTypeOK
  <2>4. CASE ~i2cNative
    <3>1. I2cCode = I2cProgram(FALSE, t)
      BY <1>1, <2>1, <2>2, <2>4, I2cCodeIs DEF I2cTypeOK
    <3>2. Len(I2cCode) = 120
      BY <1>2, <2>2, <3>1, I2cCodeLen
    <3> QED BY <1>1, <1>2, <2>1, <2>4, <3>2 DEF I2cTxOK, I2cTypeOK
  <2> QED BY <2>3, <2>4
<1>3. ASSUME i2cTx = I2cIdle PROVE \A a \in {14, PatBank, 142} : patRaw[a] = i2cShadow[a]
  BY <1>1, <1>3 DEF I2cRegs
<1> QED BY <1>2, <1>3 DEF I2cHonest

-----------------------------------------------------------------------------
(***************************************************************************)
(* The theorems.  (Parts_proofs has the same of all the parts together.)   *)
(***************************************************************************)
\* The five bytes the firmware gets in one transaction with a TMC2130 are the answer to the
\* command before; its standstill timer and its status register agree; DIAG_OUT shows the
\* stall with the polarity GCONF has now (TMC2130.cpp:37-319, SPIPeripheral.cpp:40-57).
THEOREM TmcHonest == TmcSpec => [](TmcAnswered /\ TmcStandstill /\ TmcDiagHonest)
<1>1. TmcInv => TmcAnswered /\ TmcStandstill /\ TmcDiagHonest
  BY TmcInvAnswered DEF TmcInv
<1> QED BY <1>1, TmcInvariant, PTL

\* The end switches of an A4982 tell the truth whatever the sizes of the steps were, and it
\* sleeps as the pin SLEEP_IN says (A4982.cpp:32-216).
THEOREM A4Honest == A4Spec => [](A4Ends /\ A4SleepHonest)
<1>1. A4Inv => A4Ends /\ A4SleepHonest
  BY A4InvEnds DEF A4Inv
<1> QED BY <1>1, A4Invariant, PTL

\* The knob comes to rest at the phase at which it was last turned round, and its button
\* comes up again (RotaryEncoder.cpp:37-213).
THEOREM KnobSettles == InpSpec => []InpSettles
BY InpInvSettles, InpInvariant, PTL

\* So do the other buttons (Button.cpp:30-102, ADC_Buttons.cpp:109-121).
THEOREM ButtonsSettle == BtnSpec => []BtnSettles
<1>1. BtnInv => BtnSettles
  BY DEF BtnInv
<1> QED BY <1>1, BtnInvariant, PTL

\* Both filament sensors tell the printer where the filament is, as long as neither thread
\* began to set one while the other was at it
\* (MMU2.cpp:64-214, IRSensor.cpp:34-158, ADCPeripheral.h:57-96).
THEOREM FilamentHonest == MmuSpec => []MmuHonest
BY MmuInvHonest, MmuInvariant, PTL

\* The firmware may believe the pin of the probe after a move of Z, and of X or Y as long as
\* there is no steel sheet; and an MK2 has none (PINDA.cpp).
THEOREM ProbeHonest == PindaSpec => [](PindaTypeOK /\ PindaHonest)
<1>1. PindaInv => PindaTypeOK /\ PindaHonest
  BY DEF PindaInv
<1> QED BY <1>1, PindaInvariant, PTL

\* Whatever moved in between, a read over the lines or with the TWI hardware hands the
\* firmware the byte the register it asked for was answered with, a write changes the register
\* it names and no other, and a movement that no answer reported is still in the flag of
\* MStatus, unless the extruder moved since with no filament in the sensor:
\* I2CPeripheral.cpp and GetRegVal, SetRegVal, SetYMotion and OnEMotion of PAT9125.cpp.
THEOREM FilamentIsTold == I2cSpec => [](I2cTypeOK /\ I2cHonest /\ PatMotionTold)
<1>1. I2cInv => I2cTypeOK /\ I2cHonest /\ PatMotionTold
  BY I2cInvHonest DEF I2cInv
<1> QED BY <1>1, I2cInvariant, PTL
=============================================================================
