------------------------- MODULE TextView_proofs --------------------------
(***************************************************************************)
(* Theorems about what is shown and what scripts wait for: the character   *)
(* display, the monitor of the serial lines, the telemetry, and the print  *)
(* with its export.  For every size of the display and every text, every   *)
(* set of lines of the firmware, every length of a print.                  *)
(***************************************************************************)
EXTENDS Hd44780, SerialLineMonitor, TelemetryHost, GCodeSniffer, PrintModel, SequenceTheorems, TLAPS

-----------------------------------------------------------------------------
(***************************************************************************)
(* The character display: the lines the scripts read are the memory of it. *)
(***************************************************************************)
\* The memory of the display is well formed.
LcdMemoryOK ==
  /\ lcdStray \/ lcdCursor < LcdRamSize
  /\ lcdRam \in [0..LcdRamSize - 1 -> Lcd8Bit]
  /\ lcdLine \in [LcdLines -> [LcdColumns -> Lcd8Bit]]
  /\ lcdChg \subseteq LcdMarks /\ lcdUsed \subseteq LcdLines
  /\ lcdCursor \in Nat /\ lcdCg \in 0..63
  /\ lcdInCg \in BOOLEAN /\ lcdDL \in BOOLEAN /\ lcdSC \in BOOLEAN /\ lcdID \in BOOLEAN
  /\ lcdStray \in BOOLEAN

\* So is its bus, and what the firmware and the script have under way.
LcdHalves == [n : 0..15, byte : Lcd8Bit, rs : BOOLEAN, dropped : BOOLEAN]
LcdWaits == [text : LcdTexts, line : 0..LcdHeight]
LcdBusOK ==
  /\ lcdLow \in BOOLEAN /\ lcdBusy \in BOOLEAN /\ lcdPins \in Lcd8Bit
  /\ lcdTimer \in BOOLEAN /\ lcdDropped \in BOOLEAN
  /\ (lcdBusy /\ ~lcdTimer) <=> lcdDropped
  /\ lcdTimer => lcdBusy
LcdClientsOK ==
  /\ lcdSync \in {"no", "coming", "yes"} /\ lcdLast \in Lcd8Bit
  /\ lcdHalf \in LcdHalves \cup {LcdNoHalf}
  /\ lcdReset \in 0..4
  /\ lcdBytes \in 0..LcdMaxBytes /\ lcdScripts \in 0..LcdMaxScripts
LcdWaitOK == lcdWait \in LcdWaits \cup {LcdNoWait}

\* A line without a mark was seen by a wait that is over, or the wait that is on looked at it
\* and did not find its text.
LcdLookedAt(i) == /\ lcdWait # LcdNoWait
                  /\ i \in LcdAsked
                  /\ lcdWait.text \notin LcdShown(i)
LcdMarked == \A i \in LcdLines : i \in lcdChg \/ i \in lcdUsed \/ LcdLookedAt(i)

LcdMemoryInv == LcdMemoryOK /\ LcdMirror /\ LcdMarked

\* How far the power-on sequence has brought the display: after the third 3 it is in 8-bit
\* mode, whatever it was in before; and the two halves of a byte, in step.  All of it only if
\* no reset left the display busy without its timer.
LcdPowerOn ==
  lcdSync = "coming" =>
    /\ lcdHalf = LcdNoHalf
    /\ lcdReset \in 1..4
    /\ ~lcdDropped =>
         /\ lcdReset = 3 => lcdDL \/ ~lcdLow \/ lcdPins \div 16 = 3
         /\ lcdReset = 2 => lcdDL \/ (lcdLow /\ lcdPins \div 16 = 3)
         /\ lcdReset = 1 => lcdDL
LcdHalfOfByte ==
  lcdHalf # LcdNoHalf => /\ lcdHalf.n = lcdHalf.byte % 16
                         /\ lcdReset = 0
                         /\ ~lcdHalf.rs => lcdHalf.byte \in LcdCommands
LcdInStep ==
  lcdSync = "yes" =>
    /\ lcdReset = 0
    /\ ~lcdDropped =>
         /\ ~lcdDL
         /\ lcdHalf = LcdNoHalf => ~lcdLow /\ lcdPins = lcdLast
         /\ lcdHalf # LcdNoHalf /\ lcdHalf.dropped => ~lcdLow /\ lcdPins = lcdLast
         /\ lcdHalf # LcdNoHalf /\ ~lcdHalf.dropped =>
              lcdLow /\ lcdPins \div 16 = lcdHalf.byte \div 16
LcdTogether == LcdPowerOn /\ LcdHalfOfByte /\ LcdInStep

LcdInv == LcdMemoryInv /\ LcdBusOK /\ LcdClientsOK /\ LcdWaitOK /\ LcdTogether

-----------------------------------------------------------------------------
\* Where the visible cells are: inside the memory, and no line is outside the marks.
LEMMA LcdCells ==
  /\ LcdWidth \in Nat /\ LcdHeight \in Nat
  /\ \A i \in LcdLines : i \in LcdMarks /\ LcdOffset(i) \in Nat
  /\ \A i \in LcdLines, k \in LcdColumns : k \in Nat /\ LcdOffset(i) + k \in 0..LcdRamSize - 1
BY Hd44780Assumption DEF LcdLines, LcdColumns, LcdOffset, LcdRamSize, LcdMarks

\* A byte in the memory: the visible cell changes with the cell of the memory, and a line that
\* changes is marked.
LEMMA LcdDataStep ==
  ASSUME LcdMemoryInv, LcdWaitOK, NEW v \in Lcd8Bit, LcdData(v), UNCHANGED lcdWait
  PROVE  LcdMemoryInv'
<1> DEFINE hit == {i \in LcdLines : lcdCursor \in LcdOffset(i)..LcdOffset(i) + LcdWidth - 1}
           chg == {i \in hit : lcdLine[i][lcdCursor - LcdOffset(i)] # v}
<1>0. /\ LcdMemoryOK
      /\ LcdMirror
      /\ LcdMarked
  BY DEF LcdMemoryInv
<1>1. /\ lcdRam' = IF lcdCursor < LcdRamSize THEN [lcdRam EXCEPT ![lcdCursor] = v] ELSE lcdRam
      /\ lcdLine' = [i \in LcdLines |->
                      IF i \in hit THEN [lcdLine[i] EXCEPT ![lcdCursor - LcdOffset(i)] = v]
                                   ELSE lcdLine[i]]
      /\ lcdChg' = lcdChg \cup chg
      /\ lcdUsed' = lcdUsed \ chg
      /\ lcdCursor' = IF lcdSC THEN lcdCursor ELSE LcdAdvance(lcdCursor)
      /\ UNCHANGED <<lcdCg, lcdInCg, lcdDL, lcdSC, lcdID, lcdStray>>
  BY DEF LcdData
<1>2. hit \subseteq LcdLines /\ chg \subseteq hit
  OBVIOUS
<1>3. \A i \in hit : lcdCursor - LcdOffset(i) \in LcdColumns
  BY LcdCells, <1>0 DEF LcdColumns, LcdMemoryOK
<1>4. \A i \in LcdLines, k \in LcdColumns :
        lcdLine'[i][k] = IF lcdCursor = LcdOffset(i) + k THEN v ELSE lcdLine[i][k]
  <2> SUFFICES ASSUME NEW i \in LcdLines, NEW k \in LcdColumns
               PROVE  lcdLine'[i][k] = IF lcdCursor = LcdOffset(i) + k THEN v ELSE lcdLine[i][k]
    OBVIOUS
  <2>0. lcdLine[i] \in [LcdColumns -> Lcd8Bit]
    BY <1>0 DEF LcdMemoryOK
  <2>1. lcdCursor = LcdOffset(i) + k => i \in hit
    BY LcdCells DEF LcdColumns
  <2>2. CASE i \in hit
    <3> DEFINE c == lcdCursor - LcdOffset(i)
    <3>1. lcdLine'[i] = [lcdLine[i] EXCEPT ![c] = v]
      BY <1>1, <2>2
    <3>2. lcdLine'[i][k] = IF k = c THEN v ELSE lcdLine[i][k]
      BY <3>1, <2>0
    <3>3. (k = c) <=> lcdCursor = LcdOffset(i) + k
      BY LcdCells, <1>0 DEF LcdMemoryOK
    <3> QED BY <3>2, <3>3
  <2>3. CASE i \notin hit
    BY <1>1, <2>1, <2>3
  <2> QED BY <2>2, <2>3
<1>5. lcdLine' \in [LcdLines -> [LcdColumns -> Lcd8Bit]]
  <2>1. \A i \in LcdLines : lcdLine'[i] \in [LcdColumns -> Lcd8Bit]
    <3> SUFFICES ASSUME NEW i \in LcdLines PROVE lcdLine'[i] \in [LcdColumns -> Lcd8Bit]
      OBVIOUS
    <3>1. lcdLine[i] \in [LcdColumns -> Lcd8Bit]
      BY <1>0 DEF LcdMemoryOK
    <3>2. CASE i \in hit
      <4>1. lcdLine'[i] = [lcdLine[i] EXCEPT ![lcdCursor - LcdOffset(i)] = v]
        BY <1>1, <3>2
      <4> QED BY <3>1, <4>1
    <3>3. CASE i \notin hit
      BY <1>1, <3>1, <3>3
    <3> QED BY <3>2, <3>3
  <2>2. lcdLine' = [i \in LcdLines |-> lcdLine'[i]]
    BY <1>1
  <2> QED BY <2>1, <2>2
<1>6. LcdMemoryOK'
  <2>1. lcdRam' \in [0..LcdRamSize - 1 -> Lcd8Bit]
    BY <1>0, <1>1 DEF LcdMemoryOK
  <2>2. lcdChg' \subseteq LcdMarks /\ lcdUsed' \subseteq LcdLines
    BY <1>0, <1>1, <1>2, LcdCells DEF LcdMemoryOK
  <2>3. lcdStray' = lcdStray /\ lcdCg' = lcdCg /\ lcdInCg' = lcdInCg /\ lcdDL' = lcdDL
        /\ lcdSC' = lcdSC /\ lcdID' = lcdID
    BY <1>1
  <2>4. lcdCursor' \in Nat /\ (lcdCursor < LcdRamSize => lcdCursor' < LcdRamSize)
    <3>1. LcdAdvance(lcdCursor) \in Nat
          /\ (lcdCursor < LcdRamSize => LcdAdvance(lcdCursor) < LcdRamSize)
      BY <1>0 DEF LcdMemoryOK, LcdAdvance, LcdRamSize
    <3> QED BY <1>0, <1>1, <3>1 DEF LcdMemoryOK
  <2> QED BY <1>0, <2>1, <2>2, <2>3, <2>4, <1>5, Zenon DEF LcdMemoryOK
<1>7. LcdMirror'
  <2> SUFFICES ASSUME NEW i \in LcdLines, NEW k \in LcdColumns
               PROVE  lcdLine'[i][k] = lcdRam'[LcdOffset(i) + k]
    BY DEF LcdMirror
  <2> DEFINE a == LcdOffset(i) + k
  <2>0. a \in 0..LcdRamSize - 1
    BY LcdCells
  <2>1. lcdLine[i][k] = lcdRam[a]
    BY <1>0 DEF LcdMirror
  <2>2. lcdLine'[i][k] = IF lcdCursor = a THEN v ELSE lcdLine[i][k]
    BY <1>4
  <2>3. lcdRam'[a] = IF lcdCursor = a THEN v ELSE lcdRam[a]
    <3> HIDE DEF a
    <3>1. lcdRam \in [0..LcdRamSize - 1 -> Lcd8Bit] /\ lcdCursor \in Nat
      BY <1>0 DEF LcdMemoryOK
    <3> QED BY <1>1, <2>0, <3>1 DEF LcdRamSize
  <2> QED BY <2>1, <2>2, <2>3
<1>8. LcdMarked'
  <2> SUFFICES ASSUME NEW i \in LcdLines, i \notin lcdChg', i \notin lcdUsed'
               PROVE  LcdLookedAt(i)'
    BY DEF LcdMarked
  <2>1. i \notin lcdChg /\ i \notin chg /\ i \notin lcdUsed
    BY <1>1
  <2>2. LcdLookedAt(i)
    BY <1>0, <2>1 DEF LcdMarked
  <2>3. \A k \in LcdColumns : lcdLine'[i][k] = lcdLine[i][k]
    <3> SUFFICES ASSUME NEW k \in LcdColumns, lcdCursor = LcdOffset(i) + k
                 PROVE  lcdLine[i][k] = v
      BY <1>4
    <3>1. i \in hit /\ lcdCursor - LcdOffset(i) = k
      BY LcdCells DEF LcdColumns
    <3> QED BY <2>1, <3>1
  <2>4. LcdShown(i)' = LcdShown(i)
    BY <2>3 DEF LcdShown
  <2>5. LcdAsked' = LcdAsked
    BY DEF LcdAsked
  <2> QED BY <2>2, <2>4, <2>5 DEF LcdLookedAt
<1> QED BY <1>6, <1>7, <1>8 DEF LcdMemoryInv

\* Whatever leaves the memory, or marks everything it blanks, keeps what is true of it.
LEMMA LcdLinesKept ==
  ASSUME LcdMemoryInv, LcdMemoryOK', lcdRam' = lcdRam, lcdLine' = lcdLine, lcdChg' = lcdChg,
         lcdUsed' = lcdUsed, lcdWait' = lcdWait
  PROVE  LcdMemoryInv'
<1>1. LcdMirror'
  BY DEF LcdMemoryInv, LcdMirror
<1>2. LcdMarked'
  BY DEF LcdMemoryInv, LcdMarked, LcdLookedAt, LcdAsked, LcdShown
<1> QED BY <1>1, <1>2 DEF LcdMemoryInv

LEMMA LcdClearStep ==
  ASSUME LcdMemoryInv, LcdClear
  PROVE  LcdMemoryInv'
<1>1. /\ lcdRam' = LcdBlankRam
      /\ lcdLine' = LcdBlankLines
      /\ lcdChg' = LcdMarks
      /\ lcdUsed' = {}
      /\ lcdCursor' = 0
      /\ lcdCg' = 0
      /\ lcdInCg' = FALSE
      /\ lcdStray' = FALSE
      /\ lcdDL' = lcdDL
      /\ lcdSC' = lcdSC
      /\ lcdID' = lcdID
  BY DEF LcdClear, LcdHome
<1>2. lcdRam' \in [0..LcdRamSize - 1 -> Lcd8Bit] /\ lcdLine' \in [LcdLines -> [LcdColumns -> Lcd8Bit]]
  BY <1>1 DEF LcdBlankRam, LcdBlankLines, LcdBlank, Lcd8Bit
<1>3. lcdCursor' < LcdRamSize /\ lcdCursor' \in Nat /\ lcdCg' \in 0..63
  BY <1>1 DEF LcdRamSize
<1>4. lcdInCg' \in BOOLEAN /\ lcdStray' \in BOOLEAN /\ lcdChg' \subseteq LcdMarks
      /\ lcdUsed' \subseteq LcdLines
  BY <1>1, Zenon
<1>5. LcdMemoryOK'
  BY <1>1, <1>2, <1>3, <1>4, Zenon DEF LcdMemoryOK, LcdMemoryInv
<1>6. LcdMirror'
  BY <1>1, LcdCells DEF LcdMirror, LcdBlankRam, LcdBlankLines
<1>7. LcdMarked'
  BY <1>1, LcdCells DEF LcdMarked
<1> QED BY <1>5, <1>6, <1>7 DEF LcdMemoryInv

LEMMA LcdBitIsBit == \A v, b : LcdBit(v, b) \in BOOLEAN
BY DEF LcdBit

\* A command never changes the visible cells, except the one that clears them.
LEMMA LcdCommandStep ==
  ASSUME LcdMemoryInv, NEW v \in Lcd8Bit, LcdCommand(v), UNCHANGED lcdWait
  PROVE  LcdMemoryInv'
<1>0. LcdMemoryOK
  BY DEF LcdMemoryInv
<1>1. CASE v >= 128 /\ lcdCursor' = v % 128 /\ lcdInCg' = FALSE /\ lcdStray' = (v % 128 >= LcdRamSize)
           /\ UNCHANGED <<lcdRam, lcdLine, lcdChg, lcdCg, lcdDL, lcdSC, lcdID, lcdUsed>>
  <2>1. v % 128 \in Nat /\ (v % 128 < LcdRamSize \/ v % 128 >= LcdRamSize)
    BY DEF Lcd8Bit, LcdRamSize
  <2>2. (v % 128 >= LcdRamSize) \in BOOLEAN
    BY SMT
  <2>3. lcdCursor' \in Nat /\ lcdInCg' \in BOOLEAN /\ lcdStray' \in BOOLEAN
        /\ (lcdStray' \/ lcdCursor' < LcdRamSize)
    BY <1>1, <2>1, <2>2, Zenon
  <2>4. LcdMemoryOK'
    BY <1>0, <1>1, <2>3, Zenon DEF LcdMemoryOK
  <2> QED BY <1>1, <2>4, LcdLinesKept
<1>2. CASE v \in 64..127 /\ lcdCg' = v % 64 /\ lcdInCg' = TRUE
           /\ UNCHANGED <<lcdRam, lcdLine, lcdChg, lcdCursor, lcdDL, lcdSC, lcdID, lcdStray, lcdUsed>>
  <2>1. lcdCg' \in 0..63
    BY <1>2
  <2>2. LcdMemoryOK'
    BY <1>0, <1>2, <2>1, Zenon DEF LcdMemoryOK
  <2> QED BY <1>2, <2>2, LcdLinesKept
<1>3. CASE lcdDL' = LcdBit(v, 16)
           /\ UNCHANGED <<lcdRam, lcdLine, lcdChg, lcdCursor, lcdCg, lcdInCg, lcdSC, lcdID, lcdStray, lcdUsed>>
  <2>2. LcdMemoryOK'
    BY <1>0, <1>3, LcdBitIsBit, Zenon DEF LcdMemoryOK
  <2> QED BY <1>3, <2>2, LcdLinesKept
<1>4. CASE lcdSC' = LcdBit(v, 8)
           /\ UNCHANGED <<lcdRam, lcdLine, lcdChg, lcdCursor, lcdCg, lcdInCg, lcdDL, lcdID, lcdStray, lcdUsed>>
  <2>2. LcdMemoryOK'
    BY <1>0, <1>4, LcdBitIsBit, Zenon DEF LcdMemoryOK
  <2> QED BY <1>4, <2>2, LcdLinesKept
<1>5. CASE UNCHANGED lcdMemory
  <2>2. LcdMemoryOK'
    BY <1>0, <1>5, Zenon DEF LcdMemoryOK, lcdMemory
  <2> QED BY <1>5, <2>2, LcdLinesKept DEF lcdMemory
<1>6. CASE lcdID' = LcdBit(v, 2)
           /\ UNCHANGED <<lcdRam, lcdLine, lcdChg, lcdCursor, lcdCg, lcdInCg, lcdDL, lcdSC, lcdStray, lcdUsed>>
  <2>2. LcdMemoryOK'
    BY <1>0, <1>6, LcdBitIsBit, Zenon DEF LcdMemoryOK
  <2> QED BY <1>6, <2>2, LcdLinesKept
<1>7. CASE LcdHome /\ UNCHANGED <<lcdRam, lcdLine, lcdChg, lcdDL, lcdSC, lcdID, lcdUsed>>
  <2>1. lcdCursor' < LcdRamSize /\ lcdCursor' \in Nat /\ lcdCg' \in 0..63
    BY <1>7 DEF LcdHome, LcdRamSize
  <2>2. lcdInCg' \in BOOLEAN /\ lcdStray' \in BOOLEAN
    BY <1>7, Zenon DEF LcdHome
  <2>3. LcdMemoryOK'
    BY <1>0, <1>7, <2>1, <2>2, Zenon DEF LcdMemoryOK
  <2> QED BY <1>7, <2>3, LcdLinesKept
<1>8. CASE LcdClear
  BY <1>8, LcdClearStep
<1> QED BY <1>1, <1>2, <1>3, <1>4, <1>5, <1>6, <1>7, <1>8 DEF LcdCommand

LEMMA LcdGlyphStep ==
  ASSUME LcdMemoryInv, LcdGlyph, UNCHANGED lcdWait
  PROVE  LcdMemoryInv'
<1>1. lcdCg' \in 0..63
  BY DEF LcdGlyph, LcdAdvanceCg, LcdMemoryInv, LcdMemoryOK
<1>2. LcdMemoryOK'
  BY <1>1, Zenon DEF LcdGlyph, LcdMemoryInv, LcdMemoryOK
<1> QED BY <1>2, LcdLinesKept DEF LcdGlyph

\* The nibble that the pins would hold after a pulse.
LcdNibbleIn(n) == IF lcdDL THEN n * 16 ELSE IF lcdLow THEN (lcdPins \div 16) * 16 + n
                  ELSE n * 16 + (lcdPins % 16)

LEMMA LcdNibbleInOK ==
  ASSUME LcdBusOK, NEW n \in 0..15
  PROVE  LcdNibbleIn(n) \in Lcd8Bit
BY DEF LcdBusOK, LcdNibbleIn, Lcd8Bit

LEMMA LcdPulseStep ==
  ASSUME LcdMemoryInv, LcdBusOK, LcdWaitOK, NEW n \in 0..15, NEW rs \in BOOLEAN, LcdPulse(n, rs),
         UNCHANGED <<lcdWait, lcdDropped>>
  PROVE  LcdMemoryInv' /\ LcdBusOK'
<1>1. CASE lcdBusy
  <2>1. UNCHANGED <<lcdMemory, lcdLow, lcdBusy, lcdTimer, lcdPins>>
    BY <1>1 DEF LcdPulse
  <2>2. LcdMemoryOK'
    BY <2>1, Zenon DEF LcdMemoryOK, lcdMemory, LcdMemoryInv
  <2>3. LcdMemoryInv'
    BY <2>1, <2>2, LcdLinesKept DEF lcdMemory
  <2> QED BY <2>1, <2>3, Zenon DEF LcdBusOK
<1>2. CASE ~lcdBusy
  <2>1. lcdPins' = LcdNibbleIn(n)
    BY <1>2 DEF LcdPulse, LcdNibbleIn
  <2>2. lcdPins' \in Lcd8Bit
    BY <2>1, LcdNibbleInOK
  <2>3. CASE ~lcdDL /\ ~lcdLow
    <3>1. lcdLow' = TRUE /\ UNCHANGED <<lcdMemory, lcdBusy, lcdTimer>>
      BY <1>2, <2>3, Zenon DEF LcdPulse
    <3>2. LcdMemoryOK'
      BY <3>1, Zenon DEF LcdMemoryOK, lcdMemory, LcdMemoryInv
    <3>3. LcdMemoryInv'
      BY <3>1, <3>2, LcdLinesKept DEF lcdMemory
    <3> QED BY <2>2, <3>1, <3>3, Zenon DEF LcdBusOK
  <2>4. CASE ~(~lcdDL /\ ~lcdLow)
    <3>1. /\ IF rs THEN IF lcdInCg THEN LcdGlyph ELSE LcdData(lcdPins')
                   ELSE LcdCommand(lcdPins')
          /\ lcdLow' = LcdNextLow
          /\ lcdBusy' = TRUE /\ lcdTimer' = TRUE
      BY <1>2, <2>4, Zenon DEF LcdPulse
    <3>2. LcdMemoryInv'
      BY <2>2, <3>1, LcdGlyphStep, LcdDataStep, LcdCommandStep
    <3>3. LcdNextLow \in BOOLEAN
      BY Zenon DEF LcdBusOK, LcdNextLow
    <3>4. ~lcdDropped'
      BY <1>2, Zenon DEF LcdBusOK
    <3> QED BY <2>2, <3>1, <3>2, <3>3, <3>4, Zenon DEF LcdBusOK
  <2> QED BY <2>3, <2>4
<1> QED BY <1>1, <1>2

-----------------------------------------------------------------------------
\* What a pulse does to the mode of the display and to the half it expects: only a Function set
\* changes the mode.
LEMMA LcdCommandMode ==
  ASSUME NEW v \in Lcd8Bit, LcdCommand(v)
  PROVE  /\ v \notin 32..63 => lcdDL' = lcdDL
         /\ v \in 32..63 => (lcdDL' <=> LcdBit(v, 16))
BY SMT DEF LcdCommand, LcdClear, LcdHome, lcdMemory, Lcd8Bit

LEMMA LcdPulseMode ==
  ASSUME NEW n, NEW rs \in BOOLEAN, LcdPulse(n, rs), ~lcdBusy, lcdPins' \in Lcd8Bit
  PROVE  /\ lcdPins' = LcdNibbleIn(n)
         /\ ~lcdDL /\ ~lcdLow => lcdLow' /\ (lcdDL' <=> lcdDL)
         /\ lcdDL \/ lcdLow =>
              /\ lcdLow' <=> (lcdDL /\ lcdDL' /\ lcdLow)
              /\ rs \/ lcdPins' \notin 32..63 => (lcdDL' <=> lcdDL)
              /\ ~rs /\ lcdPins' \in 32..63 => (lcdDL' <=> LcdBit(lcdPins', 16))
<1>1. lcdPins' = LcdNibbleIn(n)
  BY DEF LcdPulse, LcdNibbleIn
<1>2. ASSUME ~lcdDL, ~lcdLow
      PROVE  lcdLow' /\ (lcdDL' <=> lcdDL)
  <2>1. lcdLow' = TRUE /\ UNCHANGED <<lcdMemory, lcdBusy, lcdTimer>>
    BY <1>2, Zenon DEF LcdPulse
  <2> QED BY <2>1, Zenon DEF lcdMemory
<1>3. ASSUME lcdDL \/ lcdLow
      PROVE  /\ lcdLow' <=> (lcdDL /\ lcdDL' /\ lcdLow)
             /\ rs \/ lcdPins' \notin 32..63 => (lcdDL' <=> lcdDL)
             /\ ~rs /\ lcdPins' \in 32..63 => (lcdDL' <=> LcdBit(lcdPins', 16))
  <2>1. /\ IF rs THEN IF lcdInCg THEN LcdGlyph ELSE LcdData(lcdPins')
                 ELSE LcdCommand(lcdPins')
        /\ lcdLow' = LcdNextLow
    BY <1>3, Zenon DEF LcdPulse
  <2>2. lcdLow' <=> (lcdDL /\ lcdDL' /\ lcdLow)
    BY <2>1, Zenon DEF LcdNextLow
  <2>3. CASE rs
    <3>1. lcdDL' = lcdDL
      BY <2>1, <2>3, Zenon DEF LcdGlyph, LcdData
    <3> QED BY <2>2, <2>3, <3>1
  <2>4. CASE ~rs
    BY <2>1, <2>2, <2>4, LcdCommandMode
  <2> QED BY <2>3, <2>4
<1> QED BY <1>1, <1>2, <1>3

LEMMA LcdPulseBusy ==
  ASSUME NEW n, NEW rs, LcdPulse(n, rs), lcdBusy
  PROVE  lcdPins' = lcdPins /\ (lcdLow' <=> lcdLow) /\ (lcdDL' <=> lcdDL)
<1>1. UNCHANGED <<lcdMemory, lcdLow, lcdBusy, lcdTimer, lcdPins>>
  BY DEF LcdPulse
<1> QED BY <1>1, Zenon DEF lcdMemory

\* The bit of the mode, of the commands that are sent and of the nibbles of the sequence.
LEMMA LcdModeBits ==
  /\ \A v \in 48..63 : LcdBit(v, 16)
  /\ \A v \in 32..47 : ~LcdBit(v, 16)
BY DEF LcdBit

-----------------------------------------------------------------------------
LEMMA LcdFirstHalfStep ==
  ASSUME LcdInv, NEW rs \in BOOLEAN, NEW b \in IF rs THEN LcdChars ELSE LcdCommands,
         LcdFirstHalf(b, rs)
  PROVE  LcdInv'
<1>1. /\ lcdReset = 0 /\ lcdHalf = LcdNoHalf /\ lcdBytes < LcdMaxBytes
      /\ lcdBytes' = lcdBytes + 1
      /\ lcdHalf' = [n |-> b % 16, byte |-> b, rs |-> rs, dropped |-> lcdBusy]
      /\ LcdPulse(b \div 16, rs)
      /\ UNCHANGED <<lcdReset, lcdWait, lcdScripts, lcdSync, lcdDropped, lcdLast>>
  BY DEF LcdFirstHalf, Lcd4BitFirmware
<1>2. b \in Lcd8Bit /\ b \div 16 \in 0..15 /\ b % 16 \in 0..15
  BY Hd44780Assumption DEF Lcd8Bit
<1>3. LcdMemoryInv' /\ LcdBusOK'
  BY <1>1, <1>2, LcdPulseStep DEF LcdInv
<1>4. lcdHalf' \in LcdHalves /\ lcdHalf' # LcdNoHalf
  <2>1. lcdBusy \in BOOLEAN
    BY DEF LcdInv, LcdBusOK
  <2>2. lcdHalf'.n # 16
    BY <1>1, <1>2
  <2> QED BY <1>1, <1>2, <2>1, <2>2 DEF LcdHalves, LcdNoHalf
<1>5. LcdClientsOK' /\ LcdWaitOK'
  BY <1>1, <1>4, Hd44780Assumption DEF LcdInv, LcdClientsOK, LcdWaitOK, LcdNoHalf
<1>6. lcdHalf'.n = b % 16 /\ lcdHalf'.byte = b /\ (lcdHalf'.rs <=> rs)
      /\ (lcdHalf'.dropped <=> lcdBusy)
  BY <1>1, Zenon
<1>7. LcdPowerOn' /\ LcdHalfOfByte'
  <2>1. lcdSync # "coming"
    BY <1>1 DEF LcdInv, LcdTogether, LcdPowerOn
  <2> QED BY <1>1, <1>6, <2>1 DEF LcdPowerOn, LcdHalfOfByte
<1>8. LcdInStep'
  <2> SUFFICES ASSUME lcdSync = "yes", ~lcdDropped
               PROVE  /\ ~lcdDL'
                      /\ lcdBusy => ~lcdLow' /\ lcdPins' = lcdLast
                      /\ ~lcdBusy => lcdLow' /\ lcdPins' \div 16 = b \div 16
    BY <1>1, <1>4, <1>6 DEF LcdInStep, LcdInv, LcdTogether
  <2>1. ~lcdDL /\ ~lcdLow /\ lcdPins = lcdLast
    BY <1>1 DEF LcdInv, LcdTogether, LcdInStep
  <2>2. CASE lcdBusy
    BY <1>1, <2>1, <2>2, LcdPulseBusy
  <2>3. CASE ~lcdBusy
    <3>1. lcdPins' = LcdNibbleIn(b \div 16) /\ lcdLow' /\ ~lcdDL'
      BY <1>1, <1>3, <2>1, <2>3, LcdPulseMode DEF LcdBusOK
    <3>2. lcdPins' = (b \div 16) * 16 + (lcdPins % 16) /\ lcdPins \in 0..255
      BY <2>1, <3>1 DEF LcdNibbleIn, LcdInv, LcdBusOK, Lcd8Bit
    <3> QED BY <2>3, <3>1, <3>2, <1>2
  <2> QED BY <2>2, <2>3
<1> QED BY <1>3, <1>5, <1>7, <1>8 DEF LcdInv, LcdTogether

LEMMA LcdSecondHalfStep ==
  ASSUME LcdInv, LcdSecondHalf
  PROVE  LcdInv'
<1>1. /\ lcdHalf # LcdNoHalf /\ lcdHalf' = LcdNoHalf
      /\ LcdPulse(lcdHalf.n, lcdHalf.rs)
      /\ lcdSync' = IF lcdHalf.dropped = lcdBusy THEN lcdSync ELSE "no"
      /\ lcdLast' = IF lcdHalf.dropped THEN lcdLast ELSE lcdHalf.byte
      /\ UNCHANGED <<lcdReset, lcdWait, lcdBytes, lcdScripts, lcdDropped>>
  BY DEF LcdSecondHalf
<1>2. /\ lcdHalf.n \in 0..15 /\ lcdHalf.byte \in Lcd8Bit /\ lcdHalf.rs \in BOOLEAN
      /\ lcdHalf.dropped \in BOOLEAN
  BY <1>1 DEF LcdInv, LcdClientsOK, LcdHalves
<1>3. LcdMemoryInv' /\ LcdBusOK'
  BY <1>1, <1>2, LcdPulseStep DEF LcdInv
<1>4. LcdClientsOK' /\ LcdWaitOK'
  BY <1>1, <1>2 DEF LcdInv, LcdClientsOK, LcdWaitOK
<1>5. LcdPowerOn' /\ LcdHalfOfByte'
  <2>1. lcdSync # "coming"
    BY <1>1 DEF LcdInv, LcdTogether, LcdPowerOn
  <2> QED BY <1>1, <2>1 DEF LcdPowerOn, LcdHalfOfByte
<1>6. LcdInStep'
  <2> SUFFICES ASSUME lcdSync' = "yes", ~lcdDropped
               PROVE  ~lcdDL' /\ ~lcdLow' /\ lcdPins' = lcdLast'
    BY <1>1, <1>2 DEF LcdInStep, LcdInv, LcdTogether
  <2>1. (lcdHalf.dropped <=> lcdBusy) /\ lcdSync = "yes"
    BY <1>1, <1>2
  <2>2. /\ lcdReset = 0 /\ ~lcdDL
        /\ lcdHalf.dropped => ~lcdLow /\ lcdPins = lcdLast
        /\ ~lcdHalf.dropped => lcdLow /\ lcdPins \div 16 = lcdHalf.byte \div 16
    BY <1>1, <2>1 DEF LcdInv, LcdTogether, LcdInStep
  <2>3. CASE lcdBusy
    BY <1>1, <2>1, <2>2, <2>3, LcdPulseBusy
  <2>4. CASE ~lcdBusy
    <3>1. /\ lcdPins' = LcdNibbleIn(lcdHalf.n)
          /\ ~lcdLow'
          /\ lcdHalf.rs \/ lcdPins' \notin 32..63 => ~lcdDL'
          /\ ~lcdHalf.rs /\ lcdPins' \in 32..63 => (lcdDL' <=> LcdBit(lcdPins', 16))
      BY <1>1, <1>2, <1>3, <2>1, <2>2, <2>4, LcdPulseMode DEF LcdBusOK
    <3>2. lcdPins' = (lcdPins \div 16) * 16 + lcdHalf.n
      BY <2>1, <2>2, <2>4, <3>1 DEF LcdNibbleIn
    <3>3. /\ lcdHalf.n = lcdHalf.byte % 16
          /\ ~lcdHalf.rs => lcdHalf.byte \in LcdCommands
      BY <1>1 DEF LcdInv, LcdTogether, LcdHalfOfByte
    <3>4. lcdPins' = lcdHalf.byte
      <4>1. lcdPins \div 16 = lcdHalf.byte \div 16
        BY <2>1, <2>2, <2>4
      <4> QED BY <1>2, <3>2, <3>3, <4>1 DEF Lcd8Bit
    <3>5. ~lcdDL'
      <4>1. ~lcdHalf.rs => lcdPins' \notin 48..63
        BY <3>3, <3>4, Hd44780Assumption
      <4> QED BY <1>2, <3>1, <3>4, <4>1, LcdModeBits DEF Lcd8Bit
    <3> QED BY <1>1, <2>1, <2>2, <2>4, <3>1, <3>4, <3>5
  <2> QED BY <2>3, <2>4
<1> QED BY <1>3, <1>4, <1>5, <1>6 DEF LcdInv, LcdTogether

LEMMA LcdMemoryKept ==
  ASSUME LcdMemoryInv, UNCHANGED lcdMemory, UNCHANGED lcdWait
  PROVE  LcdMemoryInv'
<1>1. LcdMemoryOK'
  BY Zenon DEF LcdMemoryOK, lcdMemory, LcdMemoryInv
<1> QED BY <1>1, LcdLinesKept DEF lcdMemory

LEMMA LcdStartResetStep ==
  ASSUME LcdInv, LcdStartReset
  PROVE  LcdInv'
<1>1. /\ lcdBytes < LcdMaxBytes /\ lcdBytes' = lcdBytes + 1
      /\ lcdTimer' = FALSE /\ lcdDropped' = (lcdDropped \/ lcdTimer)
      /\ lcdReset' = 4 /\ lcdHalf' = LcdNoHalf /\ lcdSync' = "coming"
      /\ UNCHANGED <<lcdMemory, lcdLow, lcdBusy, lcdPins, lcdLast, lcdWait, lcdScripts>>
  BY DEF LcdStartReset
<1>2. LcdMemoryInv'
  BY <1>1, LcdMemoryKept DEF LcdInv
<1>3. lcdTimer' \in BOOLEAN /\ lcdDropped' \in BOOLEAN /\ ~lcdTimer'
      /\ (lcdDropped' <=> lcdDropped \/ lcdTimer)
  BY <1>1, Zenon
<1>4. LcdBusOK'
  BY <1>1, <1>3, Zenon DEF LcdInv, LcdBusOK
<1>5. LcdClientsOK' /\ LcdWaitOK'
  BY <1>1, Hd44780Assumption DEF LcdInv, LcdClientsOK, LcdWaitOK
\* Either the display is ready, or it is dead.
<1>6. LcdTogether'
  BY <1>1 DEF LcdTogether, LcdPowerOn, LcdHalfOfByte, LcdInStep
<1> QED BY <1>2, <1>4, <1>5, <1>6 DEF LcdInv

\* The sequence: three times 3 ends in 8-bit mode whatever came before, and the 2 leaves it.
LEMMA LcdResetNibbleStep ==
  ASSUME LcdInv, LcdResetNibble
  PROVE  LcdInv'
<1> DEFINE n == LcdResetSequence[5 - lcdReset]
<1>1. /\ lcdReset > 0 /\ ~lcdTimer
      /\ lcdReset' = lcdReset - 1
      /\ LcdPulse(n, FALSE)
      /\ lcdLast' = lcdPins'
      /\ lcdSync' = IF lcdReset = 1 /\ lcdSync = "coming" THEN "yes" ELSE lcdSync
      /\ UNCHANGED <<lcdHalf, lcdWait, lcdBytes, lcdScripts, lcdDropped>>
  BY DEF LcdResetNibble
<1>2. lcdReset \in 1..4
  BY <1>1 DEF LcdInv, LcdClientsOK
<1>3. n = (IF lcdReset = 1 THEN 2 ELSE 3)
  BY <1>2 DEF LcdResetSequence
<1> HIDE DEF n
<1>4. n \in 0..15
  BY <1>3
<1>5. LcdMemoryInv' /\ LcdBusOK'
  BY <1>1, <1>4, LcdPulseStep DEF LcdInv
<1>6. LcdClientsOK' /\ LcdWaitOK'
  <2>1. lcdReset' \in 0..4
    BY <1>1, <1>2
  <2>2. lcdSync' \in {"no", "coming", "yes"}
    BY <1>1 DEF LcdInv, LcdClientsOK
  <2> QED BY <1>1, <1>5, <2>1, <2>2 DEF LcdInv, LcdClientsOK, LcdWaitOK, LcdBusOK
<1>7. LcdHalfOfByte'
  BY <1>1, <1>2 DEF LcdInv, LcdTogether, LcdHalfOfByte
\* A display that a reset left busy takes none of it, and the two facts of a live one are void.
<1>8. CASE lcdDropped
  <2>1. lcdSync = "coming" => lcdReset \in 1..4 /\ lcdHalf = LcdNoHalf
    BY DEF LcdInv, LcdTogether, LcdPowerOn
  <2>2. lcdSync # "yes"
    BY <1>2 DEF LcdInv, LcdTogether, LcdInStep
  <2>3. LcdPowerOn'
    BY <1>1, <1>2, <1>8, <2>1 DEF LcdPowerOn
  <2>4. LcdInStep'
    BY <1>1, <1>8, <2>2 DEF LcdInStep
  <2> QED BY <1>5, <1>6, <1>7, <2>3, <2>4 DEF LcdInv, LcdTogether
<1> SUFFICES ASSUME ~lcdDropped PROVE LcdInv'
  BY <1>8
<1>9. ~lcdBusy
  BY <1>1 DEF LcdInv, LcdBusOK
<1>10. /\ lcdPins' = LcdNibbleIn(n)
       /\ ~lcdDL /\ ~lcdLow => lcdLow' /\ ~lcdDL'
       /\ lcdDL \/ lcdLow =>
            /\ lcdLow' <=> (lcdDL /\ lcdDL' /\ lcdLow)
            /\ lcdPins' \notin 32..63 => (lcdDL' <=> lcdDL)
            /\ lcdPins' \in 32..63 => (lcdDL' <=> LcdBit(lcdPins', 16))
  BY <1>1, <1>5, <1>9, LcdPulseMode DEF LcdBusOK
<1>11. lcdPins \in 0..255
  BY DEF LcdInv, LcdBusOK, Lcd8Bit
<1>12. lcdDL => lcdPins' = n * 16
  BY <1>10 DEF LcdNibbleIn
<1>13. ~lcdDL /\ lcdLow => lcdPins' = (lcdPins \div 16) * 16 + n
  BY <1>10 DEF LcdNibbleIn
<1>14. ~lcdDL /\ ~lcdLow => lcdPins' = n * 16 + (lcdPins % 16)
  BY <1>10 DEF LcdNibbleIn
<1>15. lcdSync = "coming" =>
         /\ lcdHalf = LcdNoHalf
         /\ lcdReset = 3 => lcdDL \/ ~lcdLow \/ lcdPins \div 16 = 3
         /\ lcdReset = 2 => lcdDL \/ (lcdLow /\ lcdPins \div 16 = 3)
         /\ lcdReset = 1 => lcdDL
  BY DEF LcdInv, LcdTogether, LcdPowerOn
\* A 3 in 8-bit mode, or as the low half of a 3, is the Function set of 8-bit mode.
<1>16. ASSUME lcdReset # 1, lcdDL \/ (lcdLow /\ lcdPins \div 16 = 3)
       PROVE  lcdDL'
  <2>1. n = 3
    BY <1>3, <1>16
  <2>2. lcdPins' \in 48..63
    BY <1>12, <1>13, <1>16, <2>1
  <2>3. lcdDL' <=> LcdBit(lcdPins', 16)
    BY <1>10, <1>16, <2>2
  <2> QED BY <2>2, <2>3, LcdModeBits
<1>17. LcdPowerOn'
  <2> SUFFICES ASSUME lcdSync' = "coming"
               PROVE  LcdPowerOn'
    BY DEF LcdPowerOn
  <2>1. lcdSync = "coming" /\ lcdReset # 1
    BY <1>1
  <2>2. lcdHalf' = LcdNoHalf /\ lcdReset' \in 1..4
    BY <1>1, <1>2, <1>15, <2>1
  <2>3. lcdReset' = 3 => lcdDL' \/ ~lcdLow' \/ lcdPins' \div 16 = 3
    <3>1. CASE ~lcdDL /\ ~lcdLow
      BY <1>3, <1>11, <1>14, <2>1, <3>1
    <3>2. CASE lcdDL \/ lcdLow
      BY <1>10, <1>16, <2>1, <3>2
    <3> QED BY <3>1, <3>2
  <2>4. lcdReset' = 2 => lcdDL' \/ (lcdLow' /\ lcdPins' \div 16 = 3)
    <3> SUFFICES ASSUME lcdReset = 3 PROVE lcdDL' \/ (lcdLow' /\ lcdPins' \div 16 = 3)
      BY <1>1, <1>2
    <3>1. CASE lcdDL
      BY <1>16, <2>1, <3>1
    <3>2. CASE ~lcdDL /\ ~lcdLow
      BY <1>3, <1>10, <1>11, <1>14, <2>1, <3>2
    <3>3. CASE ~lcdDL /\ lcdLow
      BY <1>15, <1>16, <2>1, <3>3
    <3> QED BY <3>1, <3>2, <3>3
  <2>5. lcdReset' = 1 => lcdDL'
    <3> SUFFICES ASSUME lcdReset = 2 PROVE lcdDL'
      BY <1>1, <1>2
    <3> QED BY <1>15, <1>16, <2>1
  <2> QED BY <2>2, <2>3, <2>4, <2>5 DEF LcdPowerOn
<1>18. LcdInStep'
  <2> SUFFICES ASSUME lcdSync' = "yes"
               PROVE  LcdInStep'
    BY DEF LcdInStep
  <2>1. lcdSync # "yes"
    BY <1>2 DEF LcdInv, LcdTogether, LcdInStep
  <2>2. lcdSync = "coming" /\ lcdReset = 1
    BY <1>1, <2>1
  <2>3. lcdDL /\ lcdHalf = LcdNoHalf
    BY <1>15, <2>2
  <2>4. lcdPins' = 32
    BY <1>3, <1>12, <2>2, <2>3
  <2>5. ~lcdDL' /\ ~lcdLow'
    BY <1>10, <2>3, <2>4, LcdModeBits
  <2> QED BY <1>1, <2>2, <2>3, <2>5 DEF LcdInStep
<1> QED BY <1>5, <1>6, <1>7, <1>17, <1>18 DEF LcdInv, LcdTogether

LEMMA LcdBusyTimeoutStep ==
  ASSUME LcdInv, LcdBusyTimeout
  PROVE  LcdInv'
<1>1. /\ lcdTimer /\ lcdTimer' = FALSE /\ lcdBusy' = FALSE
      /\ UNCHANGED <<lcdMemory, lcdLow, lcdPins, lcdSync, lcdDropped, lcdLast, lcdHalf, lcdReset,
                     lcdWait, lcdBytes, lcdScripts>>
  BY DEF LcdBusyTimeout
<1>2. LcdMemoryInv'
  BY <1>1, LcdMemoryKept DEF LcdInv
<1>3. LcdBusOK' /\ LcdClientsOK' /\ LcdWaitOK'
  BY <1>1, Zenon DEF LcdInv, LcdBusOK, LcdClientsOK, LcdWaitOK
<1>4. LcdTogether'
  BY <1>1, Zenon DEF LcdInv, LcdTogether, LcdPowerOn, LcdHalfOfByte, LcdInStep, lcdMemory
<1> QED BY <1>2, <1>3, <1>4 DEF LcdInv

LEMMA LcdDesyncStep ==
  ASSUME LcdInv, LcdDesync
  PROVE  LcdInv'
<1>1. /\ lcdScripts < LcdMaxScripts /\ lcdScripts' = lcdScripts + 1
      /\ lcdLow' = ~lcdLow /\ lcdSync' = "no"
      /\ UNCHANGED <<lcdMemory, lcdBusy, lcdTimer, lcdPins, lcdDropped, lcdLast, lcdHalf, lcdReset,
                     lcdWait, lcdBytes>>
  BY DEF LcdDesync
<1>2. LcdMemoryInv'
  BY <1>1, LcdMemoryKept DEF LcdInv
<1>3. LcdBusOK' /\ LcdWaitOK'
  BY <1>1, Zenon DEF LcdInv, LcdBusOK, LcdWaitOK
<1>4. LcdClientsOK'
  BY <1>1, Hd44780Assumption DEF LcdInv, LcdClientsOK
<1>5. LcdTogether'
  BY <1>1 DEF LcdInv, LcdTogether, LcdPowerOn, LcdHalfOfByte, LcdInStep
<1> QED BY <1>2, <1>3, <1>4, <1>5 DEF LcdInv

-----------------------------------------------------------------------------
\* The steps of the script that waits touch the marks and nothing else of the display.
LEMMA LcdBusKept ==
  ASSUME LcdInv, lcdDL' = lcdDL, UNCHANGED <<lcdBus, lcdHalf, lcdReset, lcdBytes>>
  PROVE  LcdBusOK' /\ LcdTogether' /\ (lcdScripts' \in 0..LcdMaxScripts => LcdClientsOK')
<1>1. LcdBusOK'
  BY Zenon DEF LcdInv, LcdBusOK, lcdBus
<1>2. LcdTogether'
  BY Zenon DEF LcdInv, LcdTogether, LcdPowerOn, LcdHalfOfByte, LcdInStep, lcdBus
<1>3. lcdScripts' \in 0..LcdMaxScripts => LcdClientsOK'
  BY Zenon DEF LcdInv, LcdClientsOK, lcdBus
<1> QED BY <1>1, <1>2, <1>3

LEMMA LcdStartWaitStep ==
  ASSUME LcdInv, NEW t \in LcdTexts, NEW line \in 0..LcdHeight, LcdStartWait(t, line)
  PROVE  LcdInv'
<1>1. /\ lcdWait = LcdNoWait /\ lcdScripts < LcdMaxScripts
      /\ lcdScripts' = lcdScripts + 1
      /\ lcdWait' = [text |-> t, line |-> line]
      /\ UNCHANGED <<lcdMemory, lcdBus, lcdHalf, lcdReset, lcdBytes>>
  BY DEF LcdStartWait
<1>2. lcdScripts' \in 0..LcdMaxScripts
  BY <1>1, Hd44780Assumption DEF LcdInv, LcdClientsOK
<1>3. LcdBusOK' /\ LcdTogether' /\ LcdClientsOK'
  <2>1. lcdDL' = lcdDL
    BY <1>1 DEF lcdMemory
  <2> QED BY <1>1, <1>2, <2>1, LcdBusKept
<1>4. LcdWaitOK'
  BY <1>1 DEF LcdWaitOK, LcdWaits
<1>5. LcdMemoryInv'
  <2>1. LcdMemoryOK'
    BY <1>1, Zenon DEF LcdMemoryOK, lcdMemory, LcdMemoryInv, LcdInv
  <2>2. LcdMirror'
    BY <1>1 DEF LcdMirror, lcdMemory, LcdMemoryInv, LcdInv
  <2>3. \A i \in LcdLines : i \in lcdChg \/ i \in lcdUsed
    BY <1>1 DEF LcdInv, LcdMemoryInv, LcdMarked, LcdLookedAt
  <2>4. LcdMarked'
    BY <1>1, <2>3 DEF LcdMarked, lcdMemory
  <2> QED BY <2>1, <2>2, <2>4 DEF LcdMemoryInv
<1> QED BY <1>3, <1>4, <1>5 DEF LcdInv

LEMMA LcdAskedMarks ==
  ASSUME LcdWaitOK, lcdWait # LcdNoWait
  PROVE  LcdAsked \subseteq LcdMarks
BY Hd44780Assumption DEF LcdWaitOK, LcdWaits, LcdAsked, LcdMarks

\* The lines of a wait that ends are used up, unless they are marked.
LEMMA LcdEndWaitStep ==
  ASSUME LcdInv, lcdWait # LcdNoWait, LcdEndWait,
         UNCHANGED <<lcdRam, lcdLine, lcdCursor, lcdCg, lcdInCg, lcdDL, lcdSC, lcdID, lcdStray>>,
         lcdChg' \subseteq LcdMarks, \A i \in LcdMarks \ LcdAsked : i \in lcdChg => i \in lcdChg'
  PROVE  LcdMemoryInv' /\ LcdWaitOK'
<1>1. lcdWait' = LcdNoWait /\ lcdUsed' = lcdUsed \cup ((LcdAsked \cap LcdLines) \ lcdChg')
  BY DEF LcdEndWait
<1>2. lcdUsed' \subseteq LcdLines
  BY <1>1 DEF LcdInv, LcdMemoryInv, LcdMemoryOK
<1>3. LcdMemoryOK'
  BY <1>2, Zenon DEF LcdInv, LcdMemoryInv, LcdMemoryOK
<1>4. LcdMirror'
  BY DEF LcdInv, LcdMemoryInv, LcdMirror
<1>5. LcdMarked'
  <2> SUFFICES ASSUME NEW i \in LcdLines, i \notin lcdChg' PROVE i \in lcdUsed'
    BY DEF LcdMarked
  <2>1. i \in LcdMarks
    BY LcdCells
  <2>2. CASE i \in LcdAsked
    BY <1>1, <2>2
  <2>3. CASE i \notin LcdAsked
    <3>1. i \notin lcdChg
      BY <2>1, <2>3
    <3> QED BY <1>1, <2>3, <3>1 DEF LcdInv, LcdMemoryInv, LcdMarked, LcdLookedAt
  <2> QED BY <2>2, <2>3
<1> QED BY <1>1, <1>3, <1>4, <1>5 DEF LcdMemoryInv, LcdWaitOK

LEMMA LcdPollStep ==
  ASSUME LcdInv, LcdPoll
  PROVE  LcdInv'
<1>1. /\ lcdWait # LcdNoWait
      /\ lcdChg' = (lcdChg \ LcdAsked) \cup (LcdAsked \ lcdChg)
      /\ IF \E i \in LcdAsked \cap LcdLines : lcdWait.text \in LcdShown(i)
         THEN LcdEndWait ELSE UNCHANGED <<lcdWait, lcdUsed>>
      /\ UNCHANGED <<lcdRam, lcdLine, lcdCursor, lcdCg, lcdInCg, lcdDL, lcdSC, lcdID, lcdStray>>
      /\ UNCHANGED <<lcdBus, lcdHalf, lcdReset, lcdBytes, lcdScripts>>
  BY DEF LcdPoll
<1>2. LcdBusOK' /\ LcdTogether' /\ LcdClientsOK'
  BY <1>1, LcdBusKept DEF LcdInv, LcdClientsOK
<1>3. lcdChg' \subseteq LcdMarks /\ \A i \in LcdMarks \ LcdAsked : i \in lcdChg => i \in lcdChg'
  BY <1>1, LcdAskedMarks DEF LcdInv, LcdMemoryInv, LcdMemoryOK
<1>4. CASE \E i \in LcdAsked \cap LcdLines : lcdWait.text \in LcdShown(i)
  BY <1>1, <1>2, <1>3, <1>4, LcdEndWaitStep DEF LcdInv
<1>5. CASE ~\E i \in LcdAsked \cap LcdLines : lcdWait.text \in LcdShown(i)
  <2>1. lcdWait' = lcdWait /\ lcdUsed' = lcdUsed
    BY <1>1, <1>5
  <2>2. LcdMemoryOK'
    BY <1>1, <1>3, <2>1, Zenon DEF LcdInv, LcdMemoryInv, LcdMemoryOK
  <2>3. LcdMirror'
    BY <1>1 DEF LcdInv, LcdMemoryInv, LcdMirror
  <2>4. \A i : LcdShown(i)' = LcdShown(i)
    BY <1>1 DEF LcdShown
  <2>5. LcdAsked' = LcdAsked
    BY <2>1 DEF LcdAsked
  <2>6. LcdMarked'
    <3> SUFFICES ASSUME NEW i \in LcdLines, i \notin lcdChg', i \notin lcdUsed'
                 PROVE  LcdLookedAt(i)'
      BY DEF LcdMarked
    <3>1. CASE i \in LcdAsked
      BY <1>1, <1>5, <2>1, <2>4, <2>5, <3>1 DEF LcdLookedAt
    <3>2. CASE i \notin LcdAsked
      BY <1>1, <2>1, <2>4, <2>5, <3>2 DEF LcdInv, LcdMemoryInv, LcdMarked, LcdLookedAt
    <3> QED BY <3>1, <3>2
  <2> QED BY <1>2, <2>1, <2>2, <2>3, <2>6 DEF LcdInv, LcdMemoryInv, LcdWaitOK
<1> QED BY <1>4, <1>5

LEMMA LcdWaitTimeoutStep ==
  ASSUME LcdInv, LcdWaitTimeout
  PROVE  LcdInv'
<1>1. /\ lcdWait # LcdNoWait /\ LcdEndWait
      /\ UNCHANGED <<lcdRam, lcdLine, lcdChg, lcdCursor, lcdCg, lcdInCg, lcdDL, lcdSC, lcdID,
                     lcdStray>>
      /\ UNCHANGED <<lcdBus, lcdHalf, lcdReset, lcdBytes, lcdScripts>>
  BY DEF LcdWaitTimeout
<1>2. LcdBusOK' /\ LcdTogether' /\ LcdClientsOK'
  BY <1>1, LcdBusKept DEF LcdInv, LcdClientsOK
<1>3. LcdMemoryInv' /\ LcdWaitOK'
  BY <1>1, LcdEndWaitStep DEF LcdInv, LcdMemoryInv, LcdMemoryOK
<1> QED BY <1>2, <1>3 DEF LcdInv

LEMMA LcdInitInv == LcdInit => LcdInv
<1> SUFFICES ASSUME LcdInit PROVE LcdInv
  OBVIOUS
<1>1. /\ lcdRam = LcdBlankRam /\ lcdLine = LcdBlankLines /\ lcdChg = LcdMarks
      /\ lcdCursor = 0 /\ lcdCg = 0
      /\ lcdPins = 0 /\ lcdLast = 0
      /\ lcdHalf = LcdNoHalf /\ lcdReset = 4 /\ lcdWait = LcdNoWait
      /\ lcdSync = "coming" /\ lcdUsed = {}
      /\ lcdBytes = 0 /\ lcdScripts = 0
  BY DEF LcdInit
<1>2. /\ lcdInCg \in BOOLEAN /\ lcdDL \in BOOLEAN /\ lcdSC \in BOOLEAN /\ lcdID \in BOOLEAN
      /\ lcdLow \in BOOLEAN /\ lcdStray \in BOOLEAN
      /\ lcdBusy \in BOOLEAN /\ lcdTimer \in BOOLEAN /\ lcdDropped \in BOOLEAN
      /\ ~lcdBusy /\ ~lcdTimer /\ ~lcdDropped
  BY Zenon DEF LcdInit
<1>3. lcdRam \in [0..LcdRamSize - 1 -> Lcd8Bit] /\ lcdLine \in [LcdLines -> [LcdColumns -> Lcd8Bit]]
  BY <1>1 DEF LcdBlankRam, LcdBlankLines, LcdBlank, Lcd8Bit
<1>4. lcdCursor < LcdRamSize /\ lcdCursor \in Nat /\ lcdCg \in 0..63 /\ lcdChg \subseteq LcdMarks
      /\ lcdUsed \subseteq LcdLines
  BY <1>1 DEF LcdRamSize
<1>5. LcdMemoryOK
  BY <1>2, <1>3, <1>4, Zenon DEF LcdMemoryOK
<1>6. LcdMirror
  BY <1>1, LcdCells DEF LcdMirror, LcdBlankRam, LcdBlankLines
<1>7. LcdMarked
  BY <1>1, LcdCells DEF LcdMarked
<1>8. LcdBusOK
  BY <1>1, <1>2 DEF LcdBusOK, Lcd8Bit
<1>9. LcdClientsOK /\ LcdWaitOK
  BY <1>1, Hd44780Assumption DEF LcdClientsOK, LcdWaitOK, Lcd8Bit
<1>10. LcdTogether
  BY <1>1 DEF LcdTogether, LcdPowerOn, LcdHalfOfByte, LcdInStep
<1> QED BY <1>5, <1>6, <1>7, <1>8, <1>9, <1>10 DEF LcdInv, LcdMemoryInv

LEMMA LcdUnchangedStep ==
  ASSUME LcdInv, UNCHANGED lcdVars
  PROVE  LcdInv'
<1>1. LcdMemoryInv'
  BY LcdMemoryKept DEF LcdInv, lcdVars
<1>2. LcdBusOK' /\ LcdClientsOK' /\ LcdWaitOK' /\ LcdTogether'
  BY LcdBusKept DEF LcdInv, lcdVars, lcdMemory, LcdClientsOK, LcdWaitOK
<1> QED BY <1>1, <1>2 DEF LcdInv

LEMMA LcdStepInv == LcdInv /\ [LcdNext]_lcdVars => LcdInv'
<1> SUFFICES ASSUME LcdInv, [LcdNext]_lcdVars PROVE LcdInv'
  OBVIOUS
<1>1. CASE \E b \in LcdCommands : LcdFirstHalf(b, FALSE)
  BY <1>1, LcdFirstHalfStep
<1>2. CASE \E b \in LcdChars : LcdFirstHalf(b, TRUE)
  BY <1>2, LcdFirstHalfStep
<1>3. CASE LcdSecondHalf
  BY <1>3, LcdSecondHalfStep
<1>4. CASE LcdStartReset
  BY <1>4, LcdStartResetStep
<1>5. CASE LcdResetNibble
  BY <1>5, LcdResetNibbleStep
<1>6. CASE LcdBusyTimeout
  BY <1>6, LcdBusyTimeoutStep
<1>7. CASE LcdDesync
  BY <1>7, LcdDesyncStep
<1>8. CASE \E t \in LcdTexts, line \in 0..LcdHeight : LcdStartWait(t, line)
  BY <1>8, LcdStartWaitStep
<1>9. CASE LcdPoll
  BY <1>9, LcdPollStep
<1>10. CASE LcdWaitTimeout
  BY <1>10, LcdWaitTimeoutStep
<1>11. CASE UNCHANGED lcdVars
  BY <1>11, LcdUnchangedStep
<1> QED BY <1>1, <1>2, <1>3, <1>4, <1>5, <1>6, <1>7, <1>8, <1>9, <1>10, <1>11 DEF LcdNext

LEMMA LcdInvariant == LcdSpec => []LcdInv
BY LcdInitInv, LcdStepInv, PTL DEF LcdSpec

LEMMA LcdInvTypeOK == LcdInv => LcdTypeOK
<1> SUFFICES ASSUME LcdInv PROVE LcdTypeOK
  OBVIOUS
<1>1. {lcdInCg, lcdDL, lcdSC, lcdID, lcdLow, lcdBusy, lcdTimer, lcdDropped, lcdStray}
        \subseteq BOOLEAN
  BY Zenon DEF LcdInv, LcdMemoryInv, LcdMemoryOK, LcdBusOK
<1> QED BY <1>1, Zenon DEF LcdInv, LcdMemoryInv, LcdMemoryOK, LcdBusOK, LcdClientsOK, LcdWaitOK,
             LcdTypeOK, LcdHalves, LcdWaits

LEMMA LcdInvInSync == LcdInv => LcdInSync
<1> SUFFICES ASSUME LcdInv PROVE LcdInSync
  OBVIOUS
<1>1. (lcdBusy /\ ~lcdTimer <=> lcdDropped) /\ (lcdTimer => lcdBusy)
  BY Zenon DEF LcdInv, LcdBusOK
<1>2. ASSUME lcdSync = "yes", ~lcdDropped
      PROVE  /\ ~lcdDL
             /\ lcdHalf # LcdNoHalf /\ ~lcdHalf.dropped <=> lcdLow
             /\ lcdHalf = LcdNoHalf => lcdPins = lcdLast
  BY <1>2 DEF LcdInv, LcdTogether, LcdInStep
<1> QED BY <1>1, <1>2, Zenon DEF LcdInSync

LEMMA LcdInvWaitFinds == LcdInv => LcdWaitFinds
<1> SUFFICES ASSUME LcdInv, lcdWait # LcdNoWait, LcdAsked \cap lcdChg = {},
                    NEW i \in LcdAsked \cap LcdLines, lcdWait.text \in LcdShown(i)
             PROVE  i \in lcdUsed
  BY DEF LcdWaitFinds
<1> QED BY DEF LcdInv, LcdMemoryInv, LcdMarked, LcdLookedAt

-----------------------------------------------------------------------------
(***************************************************************************)
(* The monitor of the serial lines.                                        *)
(***************************************************************************)
MonTypeOf(id) == CASE id = "WaitForLine" -> "Full" [] id = "WaitForContains" -> "Contains"
                   [] OTHER -> "MustBe"
MonOwed(r) == r.arg \in monGivenUp.texts \/ (r.id = "SendGCode" /\ monGivenUp.code)
MonPrefix(code, n) == [k \in 1..n |-> <<code, k - 1>>]

\* The types, with the counters tied to the lines the firmware may print.
MonCounted ==
  /\ monLineCt \in Nat /\ monLineCt <= monLines /\ monLines \in 0..MonMaxLines
  /\ monSeen \in Seq(MonLines) /\ Len(monSeen) <= monLines
  /\ monRequests \in 0..MonMaxRequests
MonFields ==
  /\ monType \in MonTypes /\ monMatch \in MonTexts \cup {MonNoText}
  /\ monMatched \in BOOLEAN
  /\ monCode \in MonTexts \cup {MonNoText} /\ monSent \in 0..MonCodeLength - 1
  /\ monXOn \in BOOLEAN /\ monTurn \in {"avr", "script"}
  /\ monRequest \in MonRequest \cup {MonNoRequest}
  /\ monGivenUp \in [texts : SUBSET MonTexts, code : BOOLEAN]

\* A wait that is on is the one that is polled, or one that was given up.
MonWaitHeld ==
  monType # "None" =>
    \/ monMatch \in monGivenUp.texts
    \/ monRequest # MonNoRequest /\ monRequest.id \in MonWaits /\ monRequest.arg = monMatch
\* So is a G-code that is not sent to its end; and no wait comes before it.
MonCodeHeld ==
  monCode # MonNoText =>
    \/ monGivenUp.code
    \/ /\ monRequest # MonNoRequest /\ monRequest.id = "SendGCode"
       /\ monType = "None" \/ monMatch # monRequest.arg
\* What the client knows of a wait that owes nothing to an earlier one: the last line that came,
\* which is the only one that NextLineMustBe has seen.
MonWaitKnown ==
  monRequest # MonNoRequest /\ monRequest.id \in MonWaits /\ ~MonOwed(monRequest) =>
    /\ monType = MonTypeOf(monRequest.id) /\ monMatch = monRequest.arg
    /\ monTurn = "avr" => ~monMatched
    /\ monMatched => monSeen # <<>> /\ MonMatches(monSeen[Len(monSeen)])
    /\ monType = "MustBe" =>
         /\ monLineCt = Len(monSeen)
         /\ monTurn = "avr" => monLineCt = 0
         /\ monLineCt \in {0, 1}
         /\ monLineCt = 1 => (monMatched <=> monSeen[1] = monMatch)
\* And of a G-code: how much of it is sent.
MonCodeKnown ==
  monRequest # MonNoRequest /\ monRequest.id = "SendGCode" /\ ~MonOwed(monRequest) =>
    monCode = monRequest.arg /\ monOut = MonPrefix(monCode, monSent)

MonClient == MonWaitHeld /\ MonCodeHeld /\ MonWaitKnown /\ MonCodeKnown
MonInv == MonCounted /\ MonFields /\ MonClient /\ MonHonest

\* A character more.
LEMMA MonPrefixGrows ==
  ASSUME NEW code, NEW n \in Nat
  PROVE  Append(MonPrefix(code, n), <<code, n>>) = MonPrefix(code, n + 1)
<1> DEFINE p == MonPrefix(code, n)  q == Append(p, <<code, n>>)
<1>1. p \in Seq({<<code, k - 1>> : k \in 1..n + 1}) /\ Len(p) = n
  <2>1. p \in [1..n -> {<<code, k - 1>> : k \in 1..n + 1}]
    BY DEF MonPrefix
  <2>2. DOMAIN p = 1..n
    BY DEF MonPrefix
  <2> DEFINE S == {<<code, k - 1>> : k \in 1..n + 1}
  <2> HIDE DEF p, S
  <2>3. p \in Seq(S)
    BY <2>1, SeqDef DEF S
  <2>4. Len(p) \in Nat /\ 1..Len(p) = 1..n
    BY <2>2, <2>3
  <2> QED BY <2>3, <2>4 DEF S
<1>2. /\ q = [k \in 1..n + 1 |-> IF k = n + 1 THEN <<code, n>> ELSE p[k]]
  BY <1>1
<1>3. \A k \in 1..n + 1 : (IF k = n + 1 THEN <<code, n>> ELSE p[k]) = <<code, k - 1>>
  BY DEF MonPrefix
<1> QED BY <1>2, <1>3 DEF MonPrefix

LEMMA MonPrefixEmpty == \A code : MonPrefix(code, 0) = << >>
BY DEF MonPrefix

LEMMA MonRequestIs ==
  /\ MonNoRequest \notin MonRequest
  /\ \A r \in MonRequest : r.id \in MonActions /\ r.arg \in MonTexts /\ r.arg # MonNoText
BY SerialLineMonitorAssumption DEF MonRequest, MonNoRequest, MonActions, MonWaits

LEMMA MonInitInv == MonInit => MonInv
<1> SUFFICES ASSUME MonInit PROVE MonInv
  OBVIOUS
<1>1. monMatched \in BOOLEAN /\ monXOn \in BOOLEAN
  BY Zenon DEF MonInit
<1>2. monGivenUp \in [texts : SUBSET MonTexts, code : BOOLEAN]
  <2>1. monGivenUp = [texts |-> {}, code |-> FALSE] /\ FALSE \in BOOLEAN
    BY Zenon DEF MonInit
  <2> QED BY <2>1
<1>3. MonCounted
  BY SerialLineMonitorAssumption DEF MonInit, MonCounted
<1>4. MonFields
  BY <1>1, <1>2, SerialLineMonitorAssumption DEF MonInit, MonFields, MonTypes
<1>5. MonClient /\ MonHonest
  BY DEF MonInit, MonClient, MonWaitHeld, MonCodeHeld, MonWaitKnown, MonCodeKnown, MonHonest
<1> QED BY <1>3, <1>4, <1>5 DEF MonInv

-----------------------------------------------------------------------------
\* A line of the firmware: it reaches a wait in the turn before the poll.
LEMMA MonNewLineStep ==
  ASSUME MonInv, NEW line \in MonLines, MonNewLine(line)
  PROVE  MonInv'
<1>1. /\ monTurn = "avr" /\ monTurn' = "script"
      /\ monLines < MonMaxLines /\ monLines' = monLines + 1
      /\ IF monType = "None" THEN UNCHANGED <<monLineCt, monMatched>>
         ELSE monLineCt' = monLineCt + 1 /\ monMatched' = MonMatches(line)
      /\ monSeen' = IF monRequest = MonNoRequest THEN monSeen ELSE Append(monSeen, line)
      /\ UNCHANGED <<monType, monMatch, monCode, monSent, monXOn, monRequest, monOut, monEnded,
                     monGivenUp, monRequests>>
  BY DEF MonNewLine, MonAvr
<1>2. MonMatches(line) \in BOOLEAN
  <2>0. (<<monMatch, line>> \in MonPartOf) \in BOOLEAN /\ (line = monMatch) \in BOOLEAN
    OBVIOUS
  <2>1. CASE monType = "Contains"
    BY <2>0, <2>1, Zenon DEF MonMatches
  <2>2. CASE monType # "Contains"
    BY <2>0, <2>2, Zenon DEF MonMatches
  <2> QED BY <2>1, <2>2
<1>3. monMatched' \in BOOLEAN
  BY <1>1, <1>2, Zenon DEF MonInv, MonFields
<1>4. MonCounted'
  <2>1. monSeen \in Seq(MonLines) /\ Len(monSeen) <= monLines
    BY DEF MonInv, MonCounted
  <2>2. monSeen' \in Seq(MonLines) /\ Len(monSeen') <= monLines + 1
    BY <1>1, <2>1 DEF MonInv, MonCounted
  <2> QED BY <1>1, <2>2, SerialLineMonitorAssumption DEF MonInv, MonCounted
<1>5. MonFields'
  BY <1>1, <1>3 DEF MonInv, MonFields
<1>6. MonWaitHeld' /\ MonCodeHeld' /\ MonCodeKnown' /\ MonHonest'
  BY <1>1 DEF MonInv, MonClient, MonWaitHeld, MonCodeHeld, MonCodeKnown, MonHonest, MonOwed
<1>7. MonWaitKnown'
  <2> SUFFICES ASSUME monRequest # MonNoRequest, monRequest.id \in MonWaits, ~MonOwed(monRequest)
               PROVE  MonWaitKnown'
    BY <1>1 DEF MonWaitKnown, MonOwed
  <2>1. /\ monType = MonTypeOf(monRequest.id) /\ monMatch = monRequest.arg
        /\ monType = "MustBe" => monLineCt = Len(monSeen) /\ monLineCt = 0
    BY <1>1 DEF MonInv, MonClient, MonWaitKnown
  <2>2. monType # "None"
    BY <2>1 DEF MonTypeOf
  <2>3. monLineCt' = monLineCt + 1 /\ (monMatched' <=> MonMatches(line))
    BY <1>1, <2>2, Zenon
  <2>4. /\ Len(monSeen') = Len(monSeen) + 1 /\ monSeen'[Len(monSeen')] = line
        /\ monSeen' # <<>>
    BY <1>1 DEF MonInv, MonCounted
  <2>5. \A l : MonMatches(l)' <=> MonMatches(l)
    BY <1>1 DEF MonMatches
  <2>6. monMatched' => monSeen' # <<>> /\ MonMatches(monSeen[Len(monSeen)])'
    BY <2>3, <2>4, <2>5
  <2>7. monType = "MustBe" =>
          /\ monLineCt' = 1 /\ Len(monSeen') = 1
          /\ monMatched' <=> monSeen'[1] = monMatch
    BY <2>1, <2>3, <2>4 DEF MonMatches
  <2> QED BY <1>1, <2>1, <2>6, <2>7 DEF MonWaitKnown
<1> QED BY <1>4, <1>5, <1>6, <1>7 DEF MonInv, MonClient

LEMMA MonFlowStep ==
  ASSUME MonInv, MonFlow
  PROVE  MonInv'
<1>1. /\ monTurn = "avr" /\ monTurn' = "script" /\ monXOn' \in BOOLEAN
      /\ UNCHANGED <<monType, monMatch, monMatched, monLineCt, monCode, monSent>>
      /\ UNCHANGED <<monRequest, monSeen, monOut, monEnded, monGivenUp, monLines, monRequests>>
  BY DEF MonFlow, MonAvr, monClient, monHistory
<1>2. MonCounted' /\ MonFields'
  BY <1>1 DEF MonInv, MonCounted, MonFields
<1>3. MonWaitHeld' /\ MonCodeHeld' /\ MonCodeKnown' /\ MonHonest'
  BY <1>1 DEF MonInv, MonClient, MonWaitHeld, MonCodeHeld, MonCodeKnown, MonHonest, MonOwed
<1>4. MonWaitKnown'
  BY <1>1 DEF MonInv, MonClient, MonWaitKnown, MonOwed, MonMatches
<1> QED BY <1>2, <1>3, <1>4 DEF MonInv, MonClient

-----------------------------------------------------------------------------
\* What is known of the request r before it is polled: it is the current one, or new.
MonAsked(r, seen, out) ==
  /\ r \in MonRequest
  /\ \/ monRequest = r /\ seen = monSeen /\ out = monOut
     \/ monRequest = MonNoRequest /\ seen = <<>> /\ out = <<>>

\* The answer, and its honesty, put together.
LEMMA MonEndHonest ==
  ASSUME MonInv, NEW r \in MonRequest, NEW status, MonEnd(r, status), monGivenUp' = monGivenUp,
         ~MonOwed(r) =>
           /\ r.id = "SendGCode" => monOut' = MonPrefix(r.arg, MonCodeLength)
           /\ r.id = "WaitForLine" => monSeen' # <<>> /\ monSeen'[Len(monSeen')] = r.arg
           /\ r.id = "WaitForContains" =>
                monSeen' # <<>> /\ <<r.arg, monSeen'[Len(monSeen')]>> \in MonPartOf
           /\ r.id = "NextLineMustBe" =>
                monSeen' # <<>> /\ (status = "Finished" <=> monSeen'[1] = r.arg)
  PROVE  MonHonest' /\ monRequest' = MonNoRequest
<1>1. /\ monEnded' = [request |-> r, status |-> status, seen |-> monSeen', out |-> monOut',
                      owed |-> r.arg \in monGivenUp.texts
                                 \/ (r.id = "SendGCode" /\ monGivenUp.code)]
      /\ monRequest' = MonNoRequest
  BY DEF MonEnd
<1>2. /\ monEnded'.request = r /\ monEnded'.status = status /\ monEnded'.seen = monSeen'
      /\ monEnded'.out = monOut' /\ (monEnded'.owed <=> MonOwed(r))
  BY <1>1, Zenon DEF MonOwed
<1>3. r.id \in {"SendGCode", "WaitForLine", "WaitForContains", "NextLineMustBe"}
  BY DEF MonRequest, MonActions, MonWaits
<1>4. SUFFICES ASSUME ~MonOwed(r)
               PROVE  CASE r.id = "SendGCode" -> monOut' = [k \in 1..MonCodeLength |-> <<r.arg, k - 1>>]
                        [] r.id = "WaitForLine" -> monSeen' # <<>> /\ monSeen'[Len(monSeen')] = r.arg
                        [] r.id = "WaitForContains" ->
                             monSeen' # <<>> /\ <<r.arg, monSeen'[Len(monSeen')]>> \in MonPartOf
                        [] OTHER -> /\ monSeen' # <<>>
                                    /\ (status = "Finished") = (monSeen'[1] = r.arg)
  BY <1>1, <1>2, Zenon DEF MonHonest
<1> QED BY <1>3, <1>4 DEF MonPrefix

LEMMA MonAgainStep ==
  ASSUME MonInv, NEW r, NEW seen, NEW out, MonAsked(r, seen, out), MonAgain(r, out),
         monSeen' = seen, monGivenUp' = monGivenUp, monTurn = "script", monTurn' = "avr"
  PROVE  /\ MonClient' /\ MonHonest'
         /\ monType' \in MonTypes /\ monMatch' \in MonTexts \cup {MonNoText}
         /\ monMatched' \in BOOLEAN /\ monRequest' \in MonRequest \cup {MonNoRequest}
         /\ UNCHANGED <<monCode, monSent, monLineCt>>
<1>1. /\ monType # "None" /\ monMatch = r.arg /\ monOut' = out
      /\ UNCHANGED <<monLineCt, monCode, monSent>>
  BY DEF MonAgain
<1>2. r \in MonRequest /\ r # MonNoRequest /\ r.id \in MonActions
  BY MonRequestIs DEF MonAsked
<1>3. \/ MonOwed(r)
      \/ monRequest = r /\ seen = monSeen /\ out = monOut /\ r.id \in MonWaits
  BY <1>1, MonRequestIs DEF MonInv, MonClient, MonWaitHeld, MonAsked, MonOwed
<1>4. ~MonOwed(r) =>
        /\ monType = MonTypeOf(r.id) /\ r.id \in MonWaits
        /\ monMatched => monSeen # <<>> /\ MonMatches(monSeen[Len(monSeen)])
        /\ monType = "MustBe" =>
             /\ monLineCt = Len(monSeen)
             /\ monLineCt \in {0, 1}
             /\ monLineCt = 1 => (monMatched <=> monSeen[1] = monMatch)
  BY <1>2, <1>3 DEF MonInv, MonClient, MonWaitKnown
<1>5. monRequest = MonNoRequest \/ monRequest = r
  BY DEF MonAsked
<1>6. MonCodeHeld /\ MonWaitHeld
  BY DEF MonInv, MonClient
<1>7. monCode # MonNoText => monGivenUp.code
  BY <1>1, <1>5, <1>6 DEF MonCodeHeld
<1>8. monType \in MonTypes /\ monMatch \in MonTexts \cup {MonNoText} /\ monMatched \in BOOLEAN
  BY DEF MonInv, MonFields
<1>9. ASSUME MonReset, NEW status, MonEnd(r, status),
             ~MonOwed(r) => (status = "Finished" <=> monMatched)
                             /\ (~monMatched => r.id = "NextLineMustBe" /\ monLineCt > 0)
      PROVE  /\ MonClient' /\ MonHonest'
             /\ monType' \in MonTypes /\ monMatch' \in MonTexts \cup {MonNoText}
             /\ monMatched' \in BOOLEAN /\ monRequest' \in MonRequest \cup {MonNoRequest}
  <2>1. monMatch' = MonNoText /\ monType' = "None" /\ monMatched' \in BOOLEAN
    BY <1>9, Zenon DEF MonReset
  <2>2. ASSUME ~MonOwed(r)
        PROVE  /\ r.id # "SendGCode"
               /\ r.id = "WaitForLine" => monSeen' # <<>> /\ monSeen'[Len(monSeen')] = r.arg
               /\ r.id = "WaitForContains" =>
                    monSeen' # <<>> /\ <<r.arg, monSeen'[Len(monSeen')]>> \in MonPartOf
               /\ r.id = "NextLineMustBe" =>
                    monSeen' # <<>> /\ (status = "Finished" <=> monSeen'[1] = r.arg)
    <3>1. monSeen' = monSeen /\ r.id \in MonWaits /\ monType = MonTypeOf(r.id)
      BY <1>3, <1>4, <2>2
    <3>2. r.id # "SendGCode"
      BY <3>1 DEF MonWaits
    <3>3. CASE r.id = "WaitForLine"
      <4>1. monType = "Full" /\ monMatched
        BY <1>9, <2>2, <3>1, <3>3 DEF MonTypeOf
      <4> QED BY <1>1, <1>4, <2>2, <3>1, <3>3, <4>1 DEF MonMatches
    <3>4. CASE r.id = "WaitForContains"
      <4>1. monType = "Contains" /\ monMatched
        BY <1>9, <2>2, <3>1, <3>4 DEF MonTypeOf
      <4> QED BY <1>1, <1>4, <2>2, <3>1, <3>4, <4>1 DEF MonMatches
    <3>5. CASE r.id = "NextLineMustBe"
      <4>1. monType = "MustBe"
        BY <3>1, <3>5 DEF MonTypeOf
      <4>2. monSeen \in Seq(MonLines)
        BY DEF MonInv, MonCounted
      <4>3. monSeen # <<>> /\ monLineCt = 1
        <5>1. monMatched => monSeen # <<>>
          BY <1>4, <2>2
        <5>2. monLineCt = Len(monSeen) /\ monLineCt \in {0, 1}
          BY <1>4, <2>2, <4>1
        <5>3. ~monMatched => monLineCt > 0
          BY <1>9, <2>2
        <5> QED BY <4>2, <5>1, <5>2, <5>3
      <4>4. monMatched <=> monSeen[1] = r.arg
        BY <1>1, <1>4, <2>2, <4>1, <4>3
      <4> QED BY <1>9, <2>2, <3>1, <3>5, <4>3, <4>4
    <3> QED BY <3>1, <3>2, <3>3, <3>4, <3>5 DEF MonWaits
  <2>3. MonHonest' /\ monRequest' = MonNoRequest
    BY <1>2, <1>9, <2>2, MonEndHonest
  <2>4. MonWaitHeld' /\ MonWaitKnown' /\ MonCodeKnown'
    BY <2>1, <2>3 DEF MonWaitHeld, MonWaitKnown, MonCodeKnown
  <2>5. MonCodeHeld'
    BY <1>1, <1>7 DEF MonCodeHeld
  <2> QED BY <2>1, <2>3, <2>4, <2>5 DEF MonClient, MonTypes
<1>10. CASE monLineCt > 0 /\ ~monMatched /\ r.id = "NextLineMustBe" /\ MonReset /\ MonEnd(r,
   "Timeout")
  <2>1. "Timeout" # "Finished"
    OBVIOUS
  <2> QED BY <1>1, <1>9, <1>10, <2>1
<1>11. CASE monMatched /\ MonReset /\ MonEnd(r, "Finished")
  BY <1>1, <1>9, <1>11
<1>12. CASE /\ ~monMatched /\ ~(monLineCt > 0 /\ r.id = "NextLineMustBe")
            /\ UNCHANGED <<monMatch, monType, monMatched>> /\ MonWaiting(r)
  <2>1. monRequest' = r /\ monEnded' = monEnded
    BY <1>12 DEF MonWaiting
  <2>2. UNCHANGED <<monMatch, monType>> /\ (monMatched' <=> monMatched) /\ monMatched' \in BOOLEAN
    BY <1>8, <1>12, Zenon
  <2>3. MonHonest'
    BY <2>1 DEF MonInv, MonHonest
  <2>4. MonWaitHeld'
    <3>1. MonOwed(r) => monMatch \in monGivenUp.texts \/ r.id = "SendGCode"
      BY <1>1 DEF MonOwed
    <3>2. monMatch \in monGivenUp.texts \/ r.id \in MonWaits
      BY <1>1, <1>3, <1>5, <1>6 DEF MonWaitHeld
    <3> QED BY <1>1, <1>2, <2>1, <2>2, <3>2 DEF MonWaitHeld
  <2>5. MonCodeHeld'
    BY <1>1, <1>7 DEF MonCodeHeld
  <2>6. MonOwed(monRequest)' <=> MonOwed(r)
    BY <2>1 DEF MonOwed
  <2>7. MonWaitKnown'
    <3> SUFFICES ASSUME ~MonOwed(r), r.id \in MonWaits
                 PROVE  MonWaitKnown'
      BY <2>1, <2>6 DEF MonWaitKnown
    <3>1. monSeen' = monSeen /\ monType = MonTypeOf(r.id)
      BY <1>3, <1>4
    <3>2. ~monMatched'
      BY <1>12, <2>2
    <3>3. monType = "MustBe" => monLineCt = 0 /\ monLineCt = Len(monSeen)
      <4>1. monType = "MustBe" => r.id = "NextLineMustBe"
        BY <3>1 DEF MonTypeOf, MonWaits
      <4> QED BY <1>4, <1>12, <4>1
    <3> QED BY <1>1, <2>1, <2>2, <3>1, <3>2, <3>3 DEF MonWaitKnown
  <2>8. MonCodeKnown'
    BY <1>4, <2>1, <2>6 DEF MonCodeKnown, MonWaits
  <2> QED BY <1>1, <1>2, <1>8, <2>1, <2>2, <2>3, <2>4, <2>5, <2>7, <2>8 DEF MonClient
<1> QED BY <1>1, <1>10, <1>11, <1>12 DEF MonAgain

LEMMA MonBeginStep ==
  ASSUME MonInv, NEW r, NEW seen, NEW out, MonAsked(r, seen, out), MonBegin(r, out),
         monSeen' = seen, monGivenUp' = monGivenUp, monTurn = "script", monTurn' = "avr"
  PROVE  /\ MonClient' /\ MonHonest'
         /\ monType' \in MonTypes /\ monMatch' \in MonTexts \cup {MonNoText}
         /\ monMatched' \in BOOLEAN /\ monRequest' \in MonRequest \cup {MonNoRequest}
         /\ UNCHANGED <<monCode, monSent>> /\ monLineCt' \in {0, monLineCt}
<1>1. /\ monType = "None" \/ monMatch # r.arg
      /\ r.id \in MonWaits
      /\ monMatch' = r.arg
      /\ monType' = MonTypeOf(r.id)
      /\ monLineCt' = IF r.id = "NextLineMustBe" THEN 0 ELSE monLineCt
      /\ monOut' = out /\ monRequest' = r /\ monEnded' = monEnded
      /\ UNCHANGED <<monCode, monSent>>
  BY DEF MonBegin, MonTypeOf, MonWaiting
<1>2. ~monMatched' /\ monMatched' \in BOOLEAN
  BY Zenon DEF MonBegin
<1>3. r \in MonRequest /\ r # MonNoRequest /\ r.arg \in MonTexts
  BY MonRequestIs DEF MonAsked
<1>4. monType' \in {"Full", "Contains",
   "MustBe"} /\ (monType' = "MustBe" => r.id = "NextLineMustBe")
  BY <1>1 DEF MonTypeOf, MonWaits
<1>5. monRequest = MonNoRequest \/ monRequest = r
  BY DEF MonAsked
<1>6. MonHonest'
  BY <1>1 DEF MonInv, MonHonest
<1>7. MonWaitHeld'
  BY <1>1, <1>3 DEF MonWaitHeld
<1>8. MonCodeHeld'
  <2>1. monCode # MonNoText => monGivenUp.code
    BY <1>1, <1>5 DEF MonInv, MonClient, MonCodeHeld, MonWaits
  <2> QED BY <1>1, <2>1 DEF MonCodeHeld
<1>9. MonCodeKnown'
  BY <1>1 DEF MonCodeKnown, MonWaits
<1>10. MonWaitKnown'
  <2> SUFFICES ASSUME ~MonOwed(r)
               PROVE  MonWaitKnown'
    BY <1>1 DEF MonWaitKnown, MonOwed
  <2>1. monRequest = MonNoRequest
    <3> SUFFICES ASSUME monRequest = r PROVE FALSE
      BY <1>5
    <3>1. monType = MonTypeOf(r.id) /\ monMatch = r.arg
      BY <1>1, <1>3 DEF MonInv, MonClient, MonWaitKnown
    <3> QED BY <1>1, <3>1 DEF MonTypeOf
  <2>2. monSeen' = <<>>
    BY <1>3, <2>1, MonRequestIs DEF MonAsked
  <2>3. monType' = "MustBe" => monLineCt' = 0 /\ Len(monSeen') = 0
    BY <1>1, <1>4, <2>2
  <2> QED BY <1>1, <1>2, <2>3 DEF MonWaitKnown
<1> QED BY <1>1, <1>2, <1>3, <1>4, <1>6, <1>7, <1>8, <1>9, <1>10 DEF MonClient, MonTypes

LEMMA MonSendStep ==
  ASSUME MonInv, NEW r, NEW seen, NEW out, MonAsked(r, seen, out), MonSend(r, out),
         monSeen' = seen, monGivenUp' = monGivenUp
  PROVE  /\ MonClient' /\ MonHonest'
         /\ monCode' \in MonTexts \cup {MonNoText} /\ monSent' \in 0..MonCodeLength - 1
         /\ monRequest' \in MonRequest \cup {MonNoRequest}
         /\ UNCHANGED <<monType, monMatch, monMatched, monLineCt>>
<1> DEFINE code == IF monCode = MonNoText THEN r.arg ELSE monCode
           sent == IF monCode = MonNoText THEN 0 ELSE monSent
<1>1. /\ monType = "None" \/ monMatch # r.arg
      /\ r.id = "SendGCode"
      /\ UNCHANGED <<monType, monMatch, monMatched, monLineCt>>
      /\ IF ~monXOn
         THEN monCode' = code /\ monSent' = sent /\ monOut' = out /\ MonWaiting(r)
         ELSE /\ monOut' = Append(out, <<code, sent>>)
              /\ IF sent + 1 < MonCodeLength
                 THEN monCode' = code /\ monSent' = sent + 1 /\ MonWaiting(r)
                 ELSE monCode' = MonNoText /\ monSent' = 0 /\ MonEnd(r, "Finished")
  BY Zenon DEF MonSend
<1>2. r \in MonRequest /\ r # MonNoRequest /\ r.arg \in MonTexts /\ r.arg # MonNoText
  BY MonRequestIs DEF MonAsked
<1>3. monRequest = MonNoRequest \/ monRequest = r
  BY DEF MonAsked
<1>4. code \in MonTexts /\ sent \in 0..MonCodeLength - 1 /\ code # MonNoText
  BY <1>2, SerialLineMonitorAssumption DEF MonInv, MonFields
<1>5. ~MonOwed(r) => code = r.arg /\ out = MonPrefix(code, sent)
  <2> SUFFICES ASSUME ~MonOwed(r) PROVE code = r.arg /\ out = MonPrefix(code, sent)
    OBVIOUS
  <2>1. CASE monRequest = r
    <3>1. monCode = r.arg /\ out = MonPrefix(monCode, monSent)
      BY <1>1, <1>2, <2>1 DEF MonInv, MonClient, MonCodeKnown, MonAsked
    <3> QED BY <1>2, <3>1
  <2>2. CASE monRequest = MonNoRequest
    <3>1. ~monGivenUp.code
      BY <1>1 DEF MonOwed
    <3>2. monCode = MonNoText
      BY <2>2, <3>1 DEF MonInv, MonClient, MonCodeHeld
    <3>3. out = <<>>
      BY <1>2, <2>2 DEF MonAsked
    <3> QED BY <3>2, <3>3, MonPrefixEmpty
  <2> QED BY <1>3, <2>1, <2>2
<1> HIDE DEF code, sent
<1>6. MonWaitKnown' /\ MonWaitHeld'
  <2>1. monRequest' = MonNoRequest \/ monRequest' = r
    BY <1>1 DEF MonWaiting, MonEnd
  <2>2. MonWaitKnown'
    BY <1>1, <2>1 DEF MonWaitKnown, MonWaits
  <2>3. monType # "None" => monMatch \in monGivenUp.texts
    BY <1>1, <1>3 DEF MonInv, MonClient, MonWaitHeld, MonWaits
  <2> QED BY <1>1, <2>2, <2>3 DEF MonWaitHeld
<1>7. ASSUME MonWaiting(r), monCode' = code,
             ~MonOwed(r) => monOut' = MonPrefix(monCode', monSent')
      PROVE  MonCodeHeld' /\ MonCodeKnown' /\ MonHonest' /\ monRequest' = r
  <2>1. monRequest' = r /\ monEnded' = monEnded
    BY <1>7 DEF MonWaiting
  <2>2. MonHonest'
    BY <2>1 DEF MonInv, MonHonest
  <2>3. MonCodeHeld'
    BY <1>1, <1>2, <2>1 DEF MonCodeHeld
  <2>4. MonOwed(monRequest)' <=> MonOwed(r)
    BY <2>1 DEF MonOwed
  <2>5. MonCodeKnown'
    BY <1>5, <1>7, <2>1, <2>4 DEF MonCodeKnown
  <2> QED BY <2>1, <2>2, <2>3, <2>5
<1>8. CASE ~monXOn
  <2>1. monCode' = code /\ monSent' = sent /\ monOut' = out /\ MonWaiting(r)
    BY <1>1, <1>8
  <2> QED BY <1>1, <1>2, <1>4, <1>5, <1>6, <1>7, <2>1 DEF MonClient
<1>9. ~MonOwed(r) => Append(out, <<code, sent>>) = MonPrefix(code, sent + 1)
  <2>1. sent \in Nat
    BY <1>4
  <2> QED BY <1>5, <2>1, MonPrefixGrows
<1>10. CASE monXOn /\ sent + 1 < MonCodeLength
  <2>1. monCode' = code /\ monSent' = sent + 1 /\ monOut' = Append(out, <<code, sent>>)
        /\ MonWaiting(r)
    BY <1>1, <1>10
  <2>2. monSent' \in 0..MonCodeLength - 1
    BY <1>4, <1>10, <2>1, SerialLineMonitorAssumption
  <2> QED BY <1>1, <1>2, <1>4, <1>6, <1>7, <1>9, <2>1, <2>2 DEF MonClient
<1>11. CASE monXOn /\ ~(sent + 1 < MonCodeLength)
  <2>1. monCode' = MonNoText /\ monSent' = 0 /\ monOut' = Append(out, <<code, sent>>)
        /\ MonEnd(r, "Finished")
    BY <1>1, <1>11
  <2>2. sent + 1 = MonCodeLength
    BY <1>4, <1>11, SerialLineMonitorAssumption
  <2>3. ~MonOwed(r) => monOut' = MonPrefix(r.arg, MonCodeLength)
    BY <1>5, <1>9, <2>1, <2>2
  <2>4. MonHonest' /\ monRequest' = MonNoRequest
    BY <1>1, <1>2, <2>1, <2>3, MonEndHonest
  <2>5. MonCodeHeld' /\ MonCodeKnown'
    BY <2>1, <2>4 DEF MonCodeHeld, MonCodeKnown
  <2>6. monSent' \in 0..MonCodeLength - 1
    BY <2>1, SerialLineMonitorAssumption
  <2> QED BY <1>1, <1>6, <2>1, <2>4, <2>5, <2>6 DEF MonClient
<1> QED BY <1>8, <1>10, <1>11

LEMMA MonProcessStep ==
  ASSUME MonInv, NEW r, NEW seen, NEW out, MonAsked(r, seen, out), MonProcess(r, seen, out),
         MonScript, monRequests' \in 0..MonMaxRequests
  PROVE  MonInv'
<1>1. /\ monSeen' = seen /\ monGivenUp' = monGivenUp
      /\ MonAgain(r, out) \/ MonBegin(r, out) \/ MonSend(r, out)
      /\ monTurn = "script" /\ monTurn' = "avr" /\ UNCHANGED <<monXOn, monLines>>
  BY DEF MonProcess, MonScript
<1>2. /\ MonClient' /\ MonHonest'
      /\ monType' \in MonTypes /\ monMatch' \in MonTexts \cup {MonNoText}
      /\ monMatched' \in BOOLEAN /\ monRequest' \in MonRequest \cup {MonNoRequest}
      /\ monCode' \in MonTexts \cup {MonNoText} /\ monSent' \in 0..MonCodeLength - 1
      /\ monLineCt' \in {0, monLineCt}
  <2>1. /\ monType \in MonTypes /\ monMatch \in MonTexts \cup {MonNoText}
        /\ monMatched \in BOOLEAN
        /\ monCode \in MonTexts \cup {MonNoText} /\ monSent \in 0..MonCodeLength - 1
    BY DEF MonInv, MonFields
  <2>2. CASE MonAgain(r, out)
    BY <1>1, <2>1, <2>2, MonAgainStep
  <2>3. CASE MonBegin(r, out)
    BY <1>1, <2>1, <2>3, MonBeginStep
  <2>4. CASE MonSend(r, out)
    BY <1>1, <2>1, <2>4, MonSendStep
  <2> QED BY <1>1, <2>2, <2>3, <2>4
<1>3. MonCounted'
  <2>1. seen \in Seq(MonLines) /\ Len(seen) <= monLines
    <3>1. CASE seen = monSeen
      BY <3>1 DEF MonInv, MonCounted
    <3>2. CASE seen = <<>>
      BY <3>2 DEF MonInv, MonCounted
    <3> QED BY <3>1, <3>2 DEF MonAsked
  <2> QED BY <1>1, <1>2, <2>1 DEF MonInv, MonCounted
<1>4. MonFields'
  BY <1>1, <1>2, Zenon DEF MonInv, MonFields
<1> QED BY <1>2, <1>3, <1>4 DEF MonInv

LEMMA MonGiveUpStep ==
  ASSUME MonInv, MonGiveUp
  PROVE  MonInv'
<1>1. /\ monTurn' = "avr" /\ UNCHANGED <<monXOn, monLines>>
      /\ monRequest # MonNoRequest /\ monRequest' = MonNoRequest
      /\ monGivenUp' = IF monRequest.id = "SendGCode" THEN [monGivenUp EXCEPT !.code = TRUE]
                       ELSE [monGivenUp EXCEPT !.texts = @ \cup {monRequest.arg}]
      /\ UNCHANGED <<monType, monMatch, monMatched, monLineCt, monCode, monSent>>
      /\ UNCHANGED <<monSeen, monOut, monEnded, monRequests>>
  BY DEF MonGiveUp, MonScript, monClient
<1>2. monRequest \in MonRequest /\ monGivenUp \in [texts : SUBSET MonTexts, code : BOOLEAN]
  BY <1>1 DEF MonInv, MonFields
<1>3. /\ monGivenUp' \in [texts : SUBSET MonTexts, code : BOOLEAN]
      /\ monGivenUp.texts \subseteq monGivenUp'.texts
      /\ monGivenUp.code => monGivenUp'.code
      /\ monRequest.id = "SendGCode" => monGivenUp'.code
      /\ monRequest.id # "SendGCode" => monRequest.arg \in monGivenUp'.texts
  <2>1. CASE monRequest.id = "SendGCode"
    <3>1. TRUE \in BOOLEAN
      OBVIOUS
    <3>2. monGivenUp' = [monGivenUp EXCEPT !.code = TRUE]
      BY <1>1, <2>1
    <3>3. monGivenUp' = [texts |-> monGivenUp.texts, code |-> TRUE]
      BY <1>2, <3>2, Zenon
    <3>4. monGivenUp'.texts = monGivenUp.texts /\ monGivenUp'.code = TRUE
      BY <3>3, Zenon
    <3>5. monGivenUp' \in [texts : SUBSET MonTexts, code : BOOLEAN]
      BY <1>2, <3>1, <3>3
    <3> QED BY <2>1, <3>4, <3>5, Zenon
  <2>2. CASE monRequest.id # "SendGCode"
    <3>1. monGivenUp' = [monGivenUp EXCEPT !.texts = @ \cup {monRequest.arg}]
      BY <1>1, <2>2
    <3>2. monRequest.arg \in MonTexts
      BY <1>2, MonRequestIs
    <3> QED BY <1>2, <2>2, <3>1, <3>2
  <2> QED BY <2>1, <2>2
<1>4. MonCounted' /\ MonHonest'
  BY <1>1 DEF MonInv, MonCounted, MonHonest
<1>5. MonFields'
  BY <1>1, <1>3, Zenon DEF MonInv, MonFields
<1>6. MonWaitHeld'
  BY <1>1, <1>3 DEF MonInv, MonClient, MonWaitHeld, MonWaits
<1>7. MonCodeHeld'
  BY <1>1, <1>3 DEF MonInv, MonClient, MonCodeHeld
<1>8. MonWaitKnown' /\ MonCodeKnown'
  BY <1>1 DEF MonWaitKnown, MonCodeKnown
<1> QED BY <1>4, <1>5, <1>6, <1>7, <1>8 DEF MonInv, MonClient

LEMMA MonStepInv == MonInv /\ [MonNext]_monVars => MonInv'
<1> SUFFICES ASSUME MonInv, [MonNext]_monVars PROVE MonInv'
  OBVIOUS
<1>1. CASE \E line \in MonLines : MonNewLine(line)
  BY <1>1, MonNewLineStep
<1>2. CASE MonFlow
  BY <1>2, MonFlowStep
<1>3. CASE MonPoll
  <2>1. MonScript /\ MonProcess(monRequest, monSeen, monOut) /\ monRequests' = monRequests
        /\ monRequest # MonNoRequest
    BY <1>3 DEF MonPoll
  <2>2. monRequest \in MonRequest /\ monRequests' \in 0..MonMaxRequests
    BY <2>1 DEF MonInv, MonFields, MonCounted
  <2>3. MonAsked(monRequest, monSeen, monOut)
    BY <2>2 DEF MonAsked
  <2> QED BY <2>1, <2>2, <2>3, MonProcessStep
<1>4. CASE MonGiveUp
  BY <1>4, MonGiveUpStep
<1>5. CASE MonOther
  <2>1. /\ monTurn' = "avr" /\ monRequest = MonNoRequest /\ UNCHANGED <<monXOn, monLines>>
        /\ UNCHANGED <<monType, monMatch, monMatched, monLineCt, monCode, monSent>>
        /\ UNCHANGED <<monRequest, monSeen, monOut, monEnded, monGivenUp, monRequests>>
    BY <1>5 DEF MonOther, MonScript, monClient, monHistory
  <2>2. MonCounted' /\ MonHonest'
    BY <2>1 DEF MonInv, MonCounted, MonHonest
  <2>3. MonFields'
    BY <2>1 DEF MonInv, MonFields
  <2>4. MonClient'
    BY <2>1 DEF MonInv, MonClient, MonWaitHeld, MonCodeHeld, MonWaitKnown, MonCodeKnown
  <2> QED BY <2>2, <2>3, <2>4 DEF MonInv
<1>6. ASSUME NEW r \in MonRequest, MonFirstPoll(r)
      PROVE  MonInv'
  <2>1. /\ MonScript /\ monRequest = MonNoRequest /\ monRequests < MonMaxRequests
        /\ monRequests' = monRequests + 1
        /\ MonProcess(r, <<>>, <<>>)
    BY <1>6 DEF MonFirstPoll
  <2>2. monRequests' \in 0..MonMaxRequests
    BY <2>1, SerialLineMonitorAssumption DEF MonInv, MonCounted
  <2>3. MonAsked(r, <<>>, <<>>)
    BY <2>1 DEF MonAsked
  <2> QED BY <2>1, <2>2, <2>3, MonProcessStep
<1>7. CASE UNCHANGED monVars
  <2>1. /\ UNCHANGED <<monType, monMatch, monMatched, monLineCt, monCode, monSent, monXOn, monTurn,
                       monLines>>
        /\ UNCHANGED <<monRequest, monSeen, monOut, monEnded, monGivenUp, monRequests>>
    BY <1>7 DEF monVars, monClient, monHistory
  <2>2. MonCounted' /\ MonFields' /\ MonHonest'
    BY <2>1 DEF MonInv, MonCounted, MonFields, MonHonest
  <2>3. MonClient'
    BY <2>1 DEF MonInv, MonClient, MonWaitHeld, MonCodeHeld, MonWaitKnown, MonCodeKnown, MonOwed,
                MonMatches
  <2> QED BY <2>2, <2>3 DEF MonInv
<1> QED BY <1>1, <1>2, <1>3, <1>4, <1>5, <1>6, <1>7 DEF MonNext

LEMMA MonInvariant == MonSpec => []MonInv
BY MonInitInv, MonStepInv, PTL DEF MonSpec

LEMMA MonInvTypeOK == MonInv => MonTypeOK
BY SerialLineMonitorAssumption DEF MonInv, MonCounted, MonFields, MonTypeOK

-----------------------------------------------------------------------------
(***************************************************************************)
(* The telemetry.                                                          *)
(***************************************************************************)
\* The client holds the signal and the value of the line that is polled, or of one that was
\* given up or not equal.
TelHolder ==
  telCurrent # TelNoSignal =>
    \/ telOwed
    \/ telRequest # TelNoRequest /\ telRequest.name = telCurrent /\ telRequest.arg = telMatch

TelInv == TelTypeOK /\ TelHolder /\ TelHonest

LEMMA TelHoldsIsBoolean ==
  ASSUME NEW id, NEW v \in Nat, NEW a \in Nat
  PROVE  TelHolds(id, v, a) \in BOOLEAN
<1>1. (v < a) \in BOOLEAN /\ (v > a) \in BOOLEAN /\ (v = a) \in BOOLEAN
  BY SMT
<1>2. "WaitForLT" # "WaitForGT"
  OBVIOUS
<1>3. CASE id = "WaitForLT"
  BY <1>1, <1>3, Zenon DEF TelHolds
<1>4. CASE id = "WaitForGT"
  BY <1>1, <1>2, <1>4, Zenon DEF TelHolds
<1>5. CASE id # "WaitForLT" /\ id # "WaitForGT"
  BY <1>1, <1>5, Zenon DEF TelHolds
<1> QED BY <1>3, <1>4, <1>5

LEMMA TelInitInv == TelInit => TelInv
<1> SUFFICES ASSUME TelInit PROVE TelInv
  OBVIOUS
<1>1. telOwed \in BOOLEAN
  BY Zenon DEF TelInit
<1>2. TelTypeOK
  BY <1>1, TelemetryHostAssumption DEF TelInit, TelTypeOK, TelValues
<1> QED BY <1>2 DEF TelInit, TelInv, TelHolder, TelHonest

\* One poll for the line r: the answer is about r's own signal and value, unless the client
\* still holds those of an earlier line.
LEMMA TelProcessStep ==
  ASSUME TelInv, NEW r \in TelRequest, TelProcess(r),
         telRequest = TelNoRequest \/ r = telRequest
  PROVE  /\ telCurrent' \in TelSignals \cup {TelNoSignal} /\ telMatch' \in TelValues
         /\ telRequest' \in TelRequest \cup {TelNoRequest}
         /\ telOwed' \in BOOLEAN /\ telValue' = telValue
         /\ TelHolder' /\ TelHonest'
<1>1. r.name \in TelSignals \cup {TelUnknown} /\ r.arg \in TelValues
  BY DEF TelRequest
<1>2. /\ telValue \in [TelSignals -> TelValues]
      /\ telCurrent \in TelSignals \cup {TelNoSignal} /\ telMatch \in TelValues
      /\ telOwed \in BOOLEAN
  BY DEF TelInv, TelTypeOK
<1>3. ~telOwed /\ telCurrent # TelNoSignal => r.name = telCurrent /\ r.arg = telMatch
  BY DEF TelInv, TelHolder
<1>4. CASE TelUnknownName(r)
  <2>1. /\ telCurrent = TelNoSignal /\ r.name = TelUnknown
        /\ telEnded' = [request |-> r, status |-> "Error", owed |-> telOwed, values |-> telValue]
        /\ telRequest' = TelNoRequest
        /\ telCurrent' = telCurrent /\ telMatch' = telMatch /\ telOwed' = telOwed
        /\ telValue' = telValue
    BY <1>4 DEF TelUnknownName, TelEnd, TelProcess
  <2>2. TelHonest'
    BY <2>1 DEF TelHonest
  <2> QED BY <1>2, <2>1, <2>2 DEF TelHolder
<1>5. CASE TelCompare(r)
  <2> DEFINE signal == IF telCurrent = TelNoSignal THEN r.name ELSE telCurrent
             match == IF telCurrent = TelNoSignal THEN r.arg ELSE telMatch
             holds == TelHolds(r.id, telValue[signal], match)
  <2>1. /\ telCurrent # TelNoSignal \/ r.name # TelUnknown
        /\ telMatch' = match
        /\ IF holds
           THEN telCurrent' = TelNoSignal /\ TelEnd(r, "Finished") /\ telOwed' = FALSE
           ELSE /\ telCurrent' = signal
                /\ IF r.id = "IsEqual" THEN TelEnd(r, "Timeout") /\ telOwed' = TRUE
                   ELSE telRequest' = r /\ UNCHANGED <<telEnded, telOwed>>
        /\ telValue' = telValue
    BY <1>5, Zenon DEF TelCompare, TelProcess
  <2>2. signal \in TelSignals \cup {TelNoSignal} /\ match \in TelValues
    BY <1>1, <1>2, <2>1
  <2>3. ~telOwed => signal = r.name /\ match = r.arg /\ r.name # TelUnknown
    BY <1>1, <1>2, <1>3, <2>1, TelemetryHostAssumption
  <2>4. ASSUME NEW s, telEnded' = [request |-> r, status |-> s, owed |-> telOwed,
                                   values |-> telValue],
               s \in {"Finished", "Timeout"}, (s = "Finished") <=> holds
        PROVE  TelHonest'
    <3> DEFINE e == telEnded'
    <3>1. e.request = r /\ e.status = s /\ e.owed = telOwed /\ e.values = telValue
      BY <2>4
    <3>2. SUFFICES ASSUME ~telOwed
                   PROVE  /\ r.name # TelUnknown
                          /\ s # "Error"
                          /\ (s = "Finished") = TelHolds(r.id, telValue[r.name], r.arg)
      BY <3>1, Zenon DEF TelHonest
    <3>3. (s = "Finished") <=> TelHolds(r.id, telValue[r.name], r.arg)
      BY <2>3, <2>4, <3>2
    <3>4. TelHolds(r.id, telValue[r.name], r.arg) \in BOOLEAN
      <4>1. r.name \in TelSignals
        BY <1>1, <2>3, <3>2
      <4> QED BY <1>1, <1>2, <4>1, TelHoldsIsBoolean, TelemetryHostAssumption DEF TelValues
    <3> QED BY <2>3, <2>4, <3>2, <3>3, <3>4
  <2> HIDE DEF holds
  <2>5. CASE holds
    <3>1. /\ telCurrent' = TelNoSignal /\ telRequest' = TelNoRequest /\ telOwed' = FALSE
          /\ telEnded' = [request |-> r, status |-> "Finished", owed |-> telOwed,
                          values |-> telValue]
      BY <2>1, <2>5, Zenon DEF TelEnd
    <3>2. TelHonest'
      BY <2>4, <2>5, <3>1
    <3>3. telOwed' \in BOOLEAN
      BY <3>1, Zenon
    <3> QED BY <2>1, <2>2, <3>1, <3>2, <3>3 DEF TelHolder
  <2>6. CASE ~holds /\ r.id = "IsEqual"
    <3>1. /\ telCurrent' = signal /\ telRequest' = TelNoRequest /\ telOwed' = TRUE
          /\ telEnded' = [request |-> r, status |-> "Timeout", owed |-> telOwed,
                          values |-> telValue]
      BY <2>1, <2>6, Zenon DEF TelEnd
    <3>2. TelHonest'
      BY <2>4, <2>6, <3>1
    <3>3. telOwed' \in BOOLEAN
      BY <3>1, Zenon
    <3> QED BY <2>1, <2>2, <3>1, <3>2, <3>3 DEF TelHolder
  <2>7. CASE ~holds /\ r.id # "IsEqual"
    <3>1. telCurrent' = signal /\ telRequest' = r /\ telEnded' = telEnded /\ telOwed' = telOwed
      BY <2>1, <2>7, Zenon
    <3>2. TelHonest'
      BY <3>1 DEF TelInv, TelHonest
    <3>3. r # TelNoRequest
      BY DEF TelRequest, TelNoRequest, TelActions
    <3>4. TelHolder'
      BY <2>1, <2>3, <3>1, <3>3 DEF TelHolder
    <3> QED BY <1>2, <2>1, <2>2, <3>1, <3>2, <3>4
  <2> QED BY <2>5, <2>6, <2>7
<1> QED BY <1>4, <1>5 DEF TelProcess

LEMMA TelStepInv == TelInv /\ [TelNext]_telVars => TelInv'
<1> SUFFICES ASSUME TelInv, [TelNext]_telVars PROVE TelInv'
  OBVIOUS
<1>1. CASE TelSignalChanges
  BY <1>1 DEF TelSignalChanges, TelInv, TelTypeOK, TelHolder, TelHonest
<1>2. CASE TelPoll
  <2>1. telRequest \in TelRequest /\ TelProcess(telRequest) /\ telRequests' = telRequests
    BY <1>2 DEF TelPoll, TelInv, TelTypeOK
  <2> QED BY <2>1, TelProcessStep DEF TelInv, TelTypeOK
<1>3. CASE TelGiveUp
  <2>1. /\ telRequest' = TelNoRequest /\ telOwed' = TRUE
        /\ UNCHANGED <<telValue, telCurrent, telMatch, telEnded, telRequests>>
    BY <1>3 DEF TelGiveUp
  <2>2. telOwed' \in BOOLEAN
    BY <2>1, Zenon
  <2> QED BY <2>1, <2>2 DEF TelInv, TelTypeOK, TelHolder, TelHonest
<1>4. ASSUME NEW r \in TelRequest, TelFirstPoll(r)
      PROVE  TelInv'
  <2>1. /\ telRequest = TelNoRequest /\ telRequests < TelMaxRequests
        /\ telRequests' = telRequests + 1
        /\ TelProcess(r)
    BY <1>4 DEF TelFirstPoll
  <2>2. telRequests' \in 0..TelMaxRequests
    BY <2>1, TelemetryHostAssumption DEF TelInv, TelTypeOK
  <2> QED BY <2>1, <2>2, TelProcessStep DEF TelInv, TelTypeOK
<1>5. CASE UNCHANGED telVars
  BY <1>5, Zenon DEF telVars, TelInv, TelTypeOK, TelHolder, TelHonest
<1> QED BY <1>1, <1>2, <1>3, <1>4, <1>5 DEF TelNext

LEMMA TelInvariant == TelSpec => []TelInv
BY TelInitInv, TelStepInv, PTL DEF TelSpec

-----------------------------------------------------------------------------
(***************************************************************************)
(* The print.                                                              *)
(***************************************************************************)
\* The segments follow each other; all but the last are counted.
PrintLen == Len(printSegs)
PrintStrung ==
  /\ PrintLen = 0 => printVerts = 0
  /\ \A i \in 1..PrintLen :
       /\ printSegs[i].start = IF i = 1 THEN 0 ELSE printSegs[i - 1].start + printSegs[i - 1].count
       /\ i < PrintLen => printSegs[i].count > 0
  /\ PrintLen > 0 =>
       /\ printSegs[PrintLen].start < printVerts
       /\ printSegs[PrintLen].count # Open =>
            printSegs[PrintLen].start + printSegs[PrintLen].count = printVerts
PrintIsOpen == PrintLen > 0 /\ printSegs[PrintLen].count = Open

\* Where the AVR thread is tells whether it extrudes, how much of the path is left, and that the
\* strip it begins is at the end.
PrintAtWork ==
  /\ printPc \in {"start", "started"} => ~printExtruding
  /\ printPc \in {"vertex", "end", "segment", "strip"} => printExtruding
  /\ printPc = "end" => printPath > 0
  /\ printPc = "segment" => printAt <= printPath
  /\ printPc = "strip" => printAt < printPath /\ printTStart = printTris
PrintOpenIs ==
  PrintIsOpen <=> printPc = "started" \/ (printExtruding /\ printPc \notin {"segment", "strip"})
PrintStripsFollow == Follow(printStrips, printTris) /\ (printStrips = <<>> => printTris = 0)

PrintCore == printPc # "dead" /\ PrintStrung /\ PrintAtWork /\ PrintOpenIs /\ PrintStripsFollow
PrintFields ==
  /\ printPc \in {"idle", "first", "step", "start", "started", "vertex", "end", "segment", "strip", "dead"}
  /\ printFirst \in BOOLEAN /\ printExtruding \in BOOLEAN /\ printClear \in BOOLEAN
  /\ printClearing \in BOOLEAN /\ printTorn \in BOOLEAN
  /\ printVerts \in Nat /\ printPath \in Nat /\ printAt \in Nat /\ printTStart \in Nat
  /\ printTris \in Nat
  /\ printSegs \in Seq([start : Nat, count : Nat])
  /\ \A i \in 1..PrintLen : printSegs[i].start <= printVerts
  /\ printStrips \in Seq([start : Nat, count : Int])
PrintInv == PrintFields /\ (~printTorn => PrintCore)

LEMMA PrintSegsTyped ==
  ASSUME PrintFields
  PROVE  /\ PrintLen \in Nat /\ (printSegs = <<>> <=> PrintLen = 0)
         /\ \A i \in 1..PrintLen :
              /\ printSegs[i] \in [start : Nat, count : Nat]
              /\ printSegs[i].start \in Nat /\ printSegs[i].count \in Nat
              /\ printSegs[i].start <= printVerts
<1> DEFINE R == [start : Nat, count : Nat]
<1>1. /\ printSegs \in Seq(R)
      /\ \A i \in 1..PrintLen : printSegs[i].start <= printVerts
  BY DEF PrintFields
<1>2. \A r \in R : r.start \in Nat /\ r.count \in Nat
  OBVIOUS
<1> HIDE DEF R
<1>3. PrintLen \in Nat /\ (printSegs = <<>> <=> PrintLen = 0)
  BY <1>1, EmptySeq, LenProperties DEF PrintLen
<1>4. \A i \in 1..PrintLen : printSegs[i] \in R
  BY <1>1, ElementOfSeq DEF PrintLen
<1> QED BY <1>1, <1>2, <1>3, <1>4 DEF R

LEMMA PrintInitInv == PrintInit => PrintInv
<1> SUFFICES ASSUME PrintInit PROVE PrintInv
  OBVIOUS
<1>1. /\ printFirst \in BOOLEAN /\ printExtruding \in BOOLEAN /\ printClear \in BOOLEAN
      /\ printClearing \in BOOLEAN /\ printTorn \in BOOLEAN /\ ~printExtruding
  BY Zenon DEF PrintInit
<1>2. /\ printPc = "idle" /\ printVerts = 0 /\ printSegs = <<>> /\ printPath = 0 /\ printAt = 0
      /\ printTStart = 0 /\ printTris = 0 /\ printStrips = <<>>
  BY DEF PrintInit
<1>3. PrintFields
  BY <1>1, <1>2 DEF PrintFields, PrintLen
<1>4. PrintCore
  BY <1>1, <1>2 DEF PrintCore, PrintStrung, PrintLen, PrintAtWork, PrintOpenIs, PrintIsOpen,
                    PrintStripsFollow, Follow
<1> QED BY <1>3, <1>4 DEF PrintInv

\* A step that changes neither the vectors nor whether the last segment is open.
LEMMA PrintDrawnKept ==
  ASSUME PrintStrung, PrintStripsFollow, UNCHANGED <<printLines, printStripVars>>
  PROVE  PrintStrung' /\ PrintStripsFollow' /\ (PrintIsOpen' <=> PrintIsOpen)
BY DEF PrintStrung, PrintStripsFollow, PrintIsOpen, PrintLen, Follow, printLines, printStripVars

LEMMA PrintFieldsKept ==
  ASSUME PrintFields, UNCHANGED printLines,
         printPc' \in {"idle", "first", "step", "start", "started", "vertex", "end", "segment",
            "strip", "dead"},
         printFirst' \in BOOLEAN, printExtruding' \in BOOLEAN, UNCHANGED printGl,
         printPath' \in Nat, printAt' \in Nat, printTStart' \in Nat, UNCHANGED printStripVars
  PROVE  PrintFields' /\ (printTorn' <=> printTorn)
<1>1. /\ printVerts' = printVerts /\ printSegs' = printSegs /\ printTris' = printTris
      /\ printStrips' = printStrips
  BY DEF printLines, printStripVars
<1>2. printClear' = printClear /\ printClearing' = printClearing /\ printTorn' = printTorn
  BY DEF printGl
<1>3. PrintLen' = PrintLen
  BY <1>1 DEF PrintLen
<1>4. /\ printVerts' \in Nat /\ printTris' \in Nat
      /\ printSegs' \in Seq([start : Nat, count : Nat])
      /\ \A i \in 1..PrintLen' : printSegs'[i].start <= printVerts'
      /\ printStrips' \in Seq([start : Nat, count : Int])
  BY <1>1, <1>3 DEF PrintFields
<1> QED BY <1>2, <1>4, Zenon DEF PrintFields

\* What the open segment has for sure: vertices.
LEMMA PrintOpenHasVertices ==
  ASSUME PrintFields, PrintStrung, PrintIsOpen
  PROVE  printVerts > 0 /\ printSegs # <<>>
<1>1. PrintLen \in 1..PrintLen
  BY PrintSegsTyped DEF PrintIsOpen
<1>2. printSegs[PrintLen].start \in Nat
  BY <1>1, PrintSegsTyped
<1> QED BY <1>1, <1>2, PrintSegsTyped DEF PrintFields, PrintStrung, PrintIsOpen

\* The steps that leave the vectors alone.
LEMMA PrintQuietStep ==
  ASSUME PrintInv,
         \/ PrintBegin \/ PrintIgnore \/ PrintStart \/ PrintExtrudes \/ PrintTurn \/ PrintEnd
         \/ PrintSegmentsDone \/ PrintSegment
  PROVE  PrintInv'
<1>0. PrintFields /\ (~printTorn => PrintCore)
  BY DEF PrintInv
<1>1. /\ UNCHANGED <<printLines, printStripVars, printGl>>
      /\ printPc' \in {"idle", "first", "step", "start", "started", "vertex", "end", "segment", "strip", "dead"}
      /\ printPath' \in Nat /\ printAt' \in Nat /\ printTStart' \in Nat
  BY <1>0 DEF PrintFields, PrintBegin, PrintIgnore, PrintStart, PrintExtrudes, PrintTurn, PrintEnd,
          PrintSegmentsDone, PrintSegment, printStep, printStripVars
<1>2. printFirst' \in BOOLEAN /\ printExtruding' \in BOOLEAN
  BY <1>0, Zenon
     DEF PrintFields, PrintBegin, PrintIgnore, PrintStart, PrintExtrudes, PrintTurn, PrintEnd,
          PrintSegmentsDone, PrintSegment
<1>3. PrintFields' /\ (printTorn' <=> printTorn)
  BY <1>0, <1>1, <1>2, PrintFieldsKept
<1>4. SUFFICES ASSUME ~printTorn PROVE PrintCore'
  BY <1>3 DEF PrintInv
<1>5. /\ printPc # "dead" /\ PrintStrung /\ PrintAtWork /\ PrintOpenIs /\ PrintStripsFollow
  BY <1>0, <1>4 DEF PrintCore
<1>6. PrintStrung' /\ PrintStripsFollow' /\ (PrintIsOpen' <=> PrintIsOpen)
  BY <1>1, <1>5, PrintDrawnKept
<1>7. SUFFICES printPc' # "dead" /\ PrintAtWork' /\ PrintOpenIs'
  BY <1>6 DEF PrintCore
<1>8. CASE PrintBegin
  BY <1>5, <1>6, <1>8 DEF PrintBegin, PrintAtWork, PrintOpenIs
<1>9. CASE PrintIgnore
  BY <1>5, <1>6, <1>9 DEF PrintIgnore, PrintAtWork, PrintOpenIs
<1>10. CASE PrintStart
  BY <1>5, <1>6, <1>10 DEF PrintStart, PrintAtWork, PrintOpenIs
<1>11. CASE PrintExtrudes
  <2>1. printPc = "started" /\ printPc' = "idle" /\ printExtruding'
    BY <1>11, Zenon DEF PrintExtrudes
  <2> QED BY <1>5, <1>6, <2>1 DEF PrintAtWork, PrintOpenIs
<1>12. CASE PrintTurn
  <2>1. PrintIsOpen
    BY <1>5, <1>12 DEF PrintTurn, PrintOpenIs
  <2>2. printVerts # 0
    BY <1>0, <1>5, <2>1, PrintOpenHasVertices DEF PrintFields
  <2> QED BY <1>5, <1>6, <1>12, <2>2 DEF PrintTurn, PrintAtWork, PrintOpenIs
<1>13. CASE PrintEnd
  <2>1. /\ printPath \in Nat /\ printPath' = printPath + 1 /\ printPc = "step" /\ printPc' = "end"
        /\ printExtruding /\ printExtruding' = printExtruding
    BY <1>0, <1>13 DEF PrintFields, PrintEnd
  <2>2. printPath' > 0
    BY <2>1
  <2>3. printExtruding'
    BY <2>1, Zenon
  <2> QED BY <1>5, <1>6, <2>1, <2>2, <2>3 DEF PrintAtWork, PrintOpenIs
<1>14. CASE PrintSegmentsDone
  <2>1. printPc = "segment" /\ printPc' = "idle" /\ ~printExtruding'
    BY <1>14, Zenon DEF PrintSegmentsDone
  <2> QED BY <1>5, <1>6, <2>1 DEF PrintAtWork, PrintOpenIs
<1>15. CASE PrintSegment
  <2>1. /\ printPc = "segment" /\ printAt # printPath /\ printPath' = printPath
        /\ (printExtruding' <=> printExtruding) /\ printExtruding
    BY <1>5, <1>15 DEF PrintSegment, PrintAtWork
  <2>2. printAt < printPath /\ printAt \in Nat /\ printPath \in Nat
    BY <1>0, <1>5, <2>1 DEF PrintAtWork, PrintFields
  <2>3. \/ printAt' = printAt + 1 /\ printPc' = "segment"
        \/ printTStart' = printTris /\ printPc' = "strip" /\ printAt' = printAt
    BY <1>15, <2>1, <2>2 DEF PrintSegment
  <2>4. printTris' = printTris
    BY <1>1 DEF printStripVars
  <2> QED BY <1>5, <1>6, <2>1, <2>2, <2>3, <2>4 DEF PrintAtWork, PrintOpenIs
<1> QED BY <1>8, <1>9, <1>10, <1>11, <1>12, <1>13, <1>14, <1>15

\* A new segment starts where the last one ends.
LEMMA PrintStartedStep ==
  ASSUME PrintInv, PrintStarted
  PROVE  PrintInv'
<1> DEFINE n == PrintLen
           new == [start |-> printVerts, count |-> Open]
<1>0. PrintFields /\ (~printTorn => PrintCore)
  BY DEF PrintInv
<1>1. /\ printPc = "start" /\ printPc' = "started"
      /\ printSegs' = Append(printSegs, new)
      /\ printVerts' = printVerts + 1
      /\ UNCHANGED <<printFirst, printExtruding, printStep, printStripVars, printGl>>
  BY DEF PrintStarted
<1>2. /\ printVerts \in Nat /\ printSegs \in Seq([start : Nat, count : Nat]) /\ n \in Nat
      /\ \A i \in 1..n : printSegs[i].start <= printVerts /\ printSegs[i].start \in Nat
                         /\ printSegs[i].count \in Nat
  <2>1. printVerts \in Nat /\ printSegs \in Seq([start : Nat, count : Nat])
    BY <1>0 DEF PrintFields
  <2> QED BY <1>0, <2>1, PrintSegsTyped
<1>3. new \in [start : Nat, count : Nat] /\ new.start = printVerts /\ new.count = 0
  BY <1>2 DEF Open
<1> HIDE DEF new
<1>4. /\ printSegs' \in Seq([start : Nat, count : Nat]) /\ PrintLen' = n + 1
      /\ \A i \in 1..n : printSegs'[i] = printSegs[i]
      /\ printSegs'[n + 1] = new
  BY <1>1, <1>2, <1>3 DEF PrintLen
<1>5. PrintFields'
  <2>1. \A i \in 1..n + 1 : printSegs'[i].start <= printVerts + 1
    <3> SUFFICES ASSUME NEW i \in 1..n + 1 PROVE printSegs'[i].start <= printVerts + 1
      OBVIOUS
    <3>1. CASE i \in 1..n
      <4>1. printSegs'[i].start = printSegs[i].start
        BY <1>4, <3>1
      <4>2. printSegs[i].start \in Nat /\ printSegs[i].start <= printVerts /\ printVerts \in Nat
        BY <1>2, <3>1
      <4> QED BY <4>1, <4>2
    <3>2. CASE i = n + 1
      BY <1>2, <1>3, <1>4, <3>2
    <3> QED BY <1>2, <3>1, <3>2
  <2>2. printVerts' \in Nat /\ printVerts' = printVerts + 1 /\ PrintLen' = n + 1
    BY <1>1, <1>2, <1>4
  <2>3. \A i \in 1..PrintLen' : printSegs'[i].start <= printVerts'
    BY ONLY <2>1, <2>2
  <2> QED BY <2>3, <1>0, <1>1, <1>4, <2>2, Zenon DEF PrintFields, printStep, printStripVars, printGl
<1>6. printTorn' <=> printTorn
  BY <1>1, Zenon DEF printGl
<1>7. SUFFICES ASSUME ~printTorn PROVE PrintCore'
  BY <1>5, <1>6 DEF PrintInv
<1>8. PrintStrung /\ PrintAtWork /\ PrintOpenIs /\ PrintStripsFollow
  BY <1>0, <1>7 DEF PrintCore
<1>9. ~printExtruding /\ ~PrintIsOpen /\ ~printExtruding'
  <2>1. ~printExtruding
    BY <1>1, <1>8 DEF PrintAtWork
  <2>2. ~printExtruding'
    BY <1>1, <2>1, Zenon
  <2>3. ~PrintIsOpen
    BY <1>1, <1>8, <2>1 DEF PrintOpenIs
  <2> QED BY <2>1, <2>2, <2>3
<1>10. n > 0 => printSegs[n].count > 0 /\ printSegs[n].start + printSegs[n].count = printVerts
  BY <1>2, <1>8, <1>9 DEF PrintStrung, PrintIsOpen, Open
<1>11. PrintStrung'
  <2>1. \A i \in 1..n + 1 :
          /\ printSegs'[i].start = IF i = 1 THEN 0 ELSE printSegs'[i - 1].start + printSegs'[i - 1].count
          /\ i < n + 1 => printSegs'[i].count > 0
    <3> SUFFICES ASSUME NEW i \in 1..n + 1
                 PROVE  /\ printSegs'[i].start = IF i = 1 THEN 0 ELSE printSegs'[i - 1].start + printSegs'[i - 1].count
                        /\ i < n + 1 => printSegs'[i].count > 0
      OBVIOUS
    <3>1. CASE i \in 1..n
      <4>1. /\ printSegs[i].start = IF i = 1 THEN 0 ELSE printSegs[i - 1].start + printSegs[i - 1].count
            /\ i < n => printSegs[i].count > 0
        BY <1>8, <3>1 DEF PrintStrung
      <4>2. i # 1 => i - 1 \in 1..n
        BY <1>2, <3>1
      <4>3. /\ printSegs'[i] = printSegs[i]
            /\ i # 1 => printSegs'[i - 1] = printSegs[i - 1]
        BY <1>4, <3>1, <4>2
      <4>4. i = n => printSegs[i].count > 0
        BY <1>2, <1>10, <3>1
      <4>5. i < n \/ i = n
        BY <1>2, <3>1
      <4> QED BY <4>1, <4>3, <4>4, <4>5
    <3>2. CASE i = n + 1
      <4>1. CASE n = 0
        <5>1. printVerts = 0
          BY <1>8, <4>1 DEF PrintStrung
        <5>2. i = 1 /\ printSegs'[i] = new
          BY <1>4, <3>2, <4>1
        <5>3. ~(i < n + 1)
          BY <1>2, <3>2
        <5> QED BY <1>3, <5>1, <5>2, <5>3
      <4>2. CASE n > 0
        <5>1. i - 1 = n /\ i # 1 /\ n \in 1..n /\ ~(i < n + 1)
          BY <1>2, <3>2, <4>2
        <5>2. printSegs'[i - 1] = printSegs[n] /\ printSegs'[i] = new
          BY <1>4, <3>2, <5>1
        <5> QED BY <1>3, <1>10, <4>2, <5>1, <5>2
      <4> QED BY <1>2, <4>1, <4>2
    <3> QED BY <1>2, <3>1, <3>2
  <2>2. printSegs'[n + 1].start < printVerts' /\ printSegs'[n + 1].count = Open
    BY <1>1, <1>2, <1>3, <1>4 DEF Open
  <2>3. PrintLen' = n + 1 /\ n + 1 > 0 /\ n + 1 # 0
    BY <1>2, <1>4
  <2> QED BY <2>1, <2>2, <2>3 DEF PrintStrung
<1>12. PrintIsOpen'
  BY <1>2, <1>3, <1>4 DEF PrintIsOpen, Open
<1>13. PrintAtWork' /\ PrintOpenIs'
  BY <1>1, <1>9, <1>12 DEF PrintAtWork, PrintOpenIs
<1>14. PrintStripsFollow'
  BY <1>1, <1>8 DEF PrintStripsFollow, Follow, printStripVars
<1> QED BY <1>1, <1>11, <1>13, <1>14 DEF PrintCore

LEMMA PrintVertexStep ==
  ASSUME PrintInv, PrintVertex
  PROVE  PrintInv'
<1>0. PrintFields /\ (~printTorn => PrintCore)
  BY DEF PrintInv
<1>1. /\ printPc = "vertex" /\ printPc' = "idle" /\ printVerts' = printVerts + 1
      /\ UNCHANGED <<printFirst, printExtruding, printSegs, printStep, printStripVars, printGl>>
  BY DEF PrintVertex
<1>2. printVerts \in Nat /\ printSegs \in Seq([start : Nat, count : Nat]) /\ PrintLen \in Nat
  BY <1>0 DEF PrintFields, PrintLen
<1>3. PrintLen' = PrintLen
  BY <1>1 DEF PrintLen
<1>4. PrintFields'
  <2>1. \A i \in 1..PrintLen : printSegs[i].start \in Nat /\ printSegs[i].start <= printVerts
    BY <1>0, PrintSegsTyped
  <2>2. \A i \in 1..PrintLen' : printSegs'[i].start <= printVerts'
    BY <1>1, <1>2, <1>3, <2>1
  <2>3. printVerts' \in Nat
    BY <1>1, <1>2
  <2> QED BY <1>0, <1>1, <2>2, <2>3, Zenon DEF PrintFields, printStep, printStripVars, printGl
<1>5. (printTorn' <=> printTorn) /\ (printExtruding' <=> printExtruding)
  BY <1>1, Zenon DEF printGl
<1>6. SUFFICES ASSUME ~printTorn PROVE PrintCore'
  BY <1>4, <1>5 DEF PrintInv
<1>7. PrintStrung /\ PrintAtWork /\ PrintOpenIs /\ PrintStripsFollow
  BY <1>0, <1>6 DEF PrintCore
<1>8. printExtruding /\ PrintIsOpen
  BY <1>1, <1>7 DEF PrintAtWork, PrintOpenIs
<1>9. PrintIsOpen'
  BY <1>1, <1>3, <1>8 DEF PrintIsOpen
<1>10. PrintStrung'
  <2>1. printSegs[PrintLen].start \in Nat /\ PrintLen > 0
    BY <1>0, <1>2, <1>8, PrintSegsTyped DEF PrintIsOpen
  <2> QED BY <1>1, <1>2, <1>3, <1>7, <1>8, <2>1 DEF PrintStrung, PrintIsOpen
<1>11. PrintAtWork' /\ PrintOpenIs'
  BY <1>1, <1>5, <1>8, <1>9 DEF PrintAtWork, PrintOpenIs
<1>12. PrintStripsFollow'
  BY <1>1, <1>7 DEF PrintStripsFollow, Follow, printStripVars
<1> QED BY <1>1, <1>10, <1>11, <1>12 DEF PrintCore

\* The extrusion ends: the open segment gets its count.
LEMMA PrintCountStep ==
  ASSUME PrintInv, PrintCount
  PROVE  PrintInv'
<1> DEFINE n == PrintLen
           counted == [start |-> printSegs[n].start, count |-> printVerts - printSegs[n].start]
<1>0. PrintFields /\ (~printTorn => PrintCore)
  BY DEF PrintInv
<1>1. printPc = "end" /\ UNCHANGED <<printFirst, printExtruding, printVerts, printPath,
   printTStart, printStripVars, printGl>>
  BY DEF PrintCount
<1>2. printVerts \in Nat /\ printSegs \in Seq([start : Nat, count : Nat]) /\ n \in Nat
  BY <1>0 DEF PrintFields, PrintLen
<1>3. (printTorn' <=> printTorn) /\ (printExtruding' <=> printExtruding)
  BY <1>1, Zenon DEF printGl
<1>4. CASE printSegs = <<>>
  <2>1. printPc' = "dead" /\ UNCHANGED <<printSegs, printAt>>
    BY <1>4 DEF PrintCount
  <2>2. PrintFields'
    BY <1>0, <1>1, <2>1, PrintFieldsKept DEF PrintFields, printLines
  <2>3. ~printTorn => PrintIsOpen
    BY <1>0, <1>1 DEF PrintCore, PrintOpenIs, PrintAtWork
  <2>4. ~PrintIsOpen
    BY <1>4 DEF PrintIsOpen, PrintLen
  <2> QED BY <1>3, <2>2, <2>3, <2>4 DEF PrintInv
<1>5. CASE printSegs # <<>>
  <2>1. /\ printSegs' = [printSegs EXCEPT ![Len(printSegs)].count =
                           printVerts - printSegs[Len(printSegs)].start]
        /\ printAt' = 1 /\ printPc' = "segment"
    BY <1>5 DEF PrintCount
  <2>2. n > 0 /\ n \in 1..n
    BY <1>2, <1>5 DEF PrintLen
  <2>3. printSegs[n] \in [start : Nat, count : Nat] /\ printSegs[n].start <= printVerts
    BY <1>0, <2>2, PrintSegsTyped
  <2>4. counted \in [start : Nat, count : Nat] /\ counted.start = printSegs[n].start
        /\ counted.count = printVerts - printSegs[n].start
    BY <1>2, <2>3
  <2>5. printSegs' = [printSegs EXCEPT ![n] = counted]
    <3>1. [printSegs[n] EXCEPT !.count = printVerts - printSegs[n].start] = counted
      BY <2>3
    <3> QED BY <1>2, <2>1, <2>2, <3>1 DEF PrintLen
  <2> HIDE DEF counted
  <2>6. /\ printSegs' \in Seq([start : Nat, count : Nat]) /\ PrintLen' = n
        /\ printSegs'[n] = counted
        /\ \A i \in 1..n : i # n => printSegs'[i] = printSegs[i]
    BY <1>2, <2>2, <2>4, <2>5 DEF PrintLen
  <2>7. PrintFields'
    <3>1. \A i \in 1..PrintLen' : printSegs'[i].start <= printVerts'
      BY <1>0, <1>1, <2>3, <2>4, <2>6 DEF PrintFields
    <3>2. printAt' \in Nat
      BY <2>1
    <3> QED BY <1>0, <1>1, <2>1, <2>6, <3>1, <3>2, Zenon DEF PrintFields, printStripVars, printGl
  <2>8. SUFFICES ASSUME ~printTorn PROVE PrintCore'
    BY <1>3, <2>7 DEF PrintInv
  <2>9. PrintStrung /\ PrintAtWork /\ PrintOpenIs /\ PrintStripsFollow
    BY <1>0, <2>8 DEF PrintCore
  <2>10. printExtruding /\ PrintIsOpen
    BY <1>1, <2>9 DEF PrintAtWork, PrintOpenIs
  <2>11. counted.count > 0
    BY <1>2, <2>2, <2>3, <2>4, <2>9 DEF PrintStrung
  <2>12. PrintStrung'
    <3>1. \A i \in 1..n :
            /\ printSegs'[i].start = IF i = 1 THEN 0 ELSE printSegs'[i - 1].start + printSegs'[i - 1].count
            /\ i < n => printSegs'[i].count > 0
      <4> SUFFICES ASSUME NEW i \in 1..n
                   PROVE  /\ printSegs'[i].start = IF i = 1 THEN 0 ELSE printSegs'[i - 1].start + printSegs'[i - 1].count
                          /\ i < n => printSegs'[i].count > 0
        OBVIOUS
      <4>1. /\ printSegs[i].start = IF i = 1 THEN 0 ELSE printSegs[i - 1].start + printSegs[i - 1].count
            /\ i < n => printSegs[i].count > 0
        BY <2>9 DEF PrintStrung
      <4>2. printSegs'[i].start = printSegs[i].start
        BY <2>4, <2>6
      <4>3. i # 1 => i - 1 \in 1..n /\ i - 1 # n
        BY <1>2
      <4> QED BY <2>6, <4>1, <4>2, <4>3
    <3>2. counted.start + counted.count = printVerts /\ counted.start < printVerts
      BY <1>2, <2>3, <2>4, <2>11
    <3> QED BY <1>1, <2>2, <2>6, <3>1, <3>2 DEF PrintStrung
  <2>13. ~PrintIsOpen'
    BY <2>6, <2>11 DEF PrintIsOpen, Open
  <2>14. PrintAtWork'
    <3>1. printPath > 0
      BY <1>0, <1>1, <2>9, <2>8 DEF PrintAtWork, PrintFields
    <3> QED BY <1>0, <1>1, <1>3, <2>1, <2>10, <3>1 DEF PrintAtWork, PrintFields
  <2>15. PrintOpenIs'
    BY <2>1, <2>13 DEF PrintOpenIs
  <2>16. PrintStripsFollow'
    BY <1>1, <2>9 DEF PrintStripsFollow, Follow, printStripVars
  <2> QED BY <2>1, <2>12, <2>14, <2>15, <2>16 DEF PrintCore
<1> QED BY <1>4, <1>5

\* A strip starts where the last one ends: the triangles did not grow since its start was taken.
LEMMA PrintStripStep ==
  ASSUME PrintInv, PrintStrip
  PROVE  PrintInv'
<1> DEFINE m == Len(printStrips)
           new == [start |-> printTStart, count |-> printTris' - printTStart]
<1>0. PrintFields /\ (~printTorn => PrintCore)
  BY DEF PrintInv
<1>1. /\ printPc = "strip" /\ printPc' = "segment"
      /\ printTris' = printTris + 1
      /\ printStrips' = Append(printStrips, new)
      /\ printAt' = printAt + 1 /\ printTStart' = 0
      /\ UNCHANGED <<printFirst, printExtruding, printLines, printPath, printGl>>
  BY DEF PrintStrip
<1>2. /\ printTris \in Nat /\ printTStart \in Nat /\ printAt \in Nat /\ m \in Nat
      /\ printStrips \in Seq([start : Nat, count : Int])
  BY <1>0 DEF PrintFields
<1>3. new \in [start : Nat,
   count : Int] /\ new.start = printTStart /\ new.count = printTris + 1 - printTStart
  BY <1>1, <1>2
<1>4. /\ printStrips' \in Seq([start : Nat, count : Int]) /\ Len(printStrips') = m + 1
      /\ \A i \in 1..m : printStrips'[i] = printStrips[i]
      /\ printStrips'[m + 1] = new
  BY <1>1, <1>2, <1>3
<1>5. PrintFields'
  <2>1. printTris' \in Nat /\ printAt' \in Nat /\ printTStart' \in Nat
    BY <1>1, <1>2
  <2>2. /\ printVerts' \in Nat /\ printSegs' \in Seq([start : Nat, count : Nat])
        /\ \A i \in 1..PrintLen' : printSegs'[i].start <= printVerts'
    BY <1>0, <1>1 DEF PrintFields, PrintLen, printLines
  <2> QED BY <1>0, <1>1, <1>4, <2>1, <2>2, Zenon DEF PrintFields, printGl
<1>6. (printTorn' <=> printTorn) /\ (printExtruding' <=> printExtruding)
  BY <1>1, Zenon DEF printGl
<1>7. SUFFICES ASSUME ~printTorn PROVE PrintCore'
  BY <1>5, <1>6 DEF PrintInv
<1>8. PrintStrung /\ PrintAtWork /\ PrintOpenIs /\ PrintStripsFollow
  BY <1>0, <1>7 DEF PrintCore
<1>9. PrintStrung' /\ (PrintIsOpen' <=> PrintIsOpen)
  BY <1>1, <1>8 DEF PrintStrung, PrintIsOpen, PrintLen, printLines
<1>10. printExtruding /\ printAt < printPath /\ printTStart = printTris
  BY <1>1, <1>8 DEF PrintAtWork
<1>11. PrintAtWork' /\ PrintOpenIs'
  BY <1>0, <1>1, <1>2, <1>6, <1>8, <1>9, <1>10 DEF PrintAtWork, PrintOpenIs, PrintFields
<1>12. new.start = printTris /\ new.count = 1
  BY <1>2, <1>3, <1>10
<1> HIDE DEF new
<1>13. PrintStripsFollow'
  <2>1. \A i \in 1..m : printStrips[i].start = IF i = 1 THEN 0 ELSE printStrips[i - 1].start + printStrips[i - 1].count
    BY <1>8 DEF PrintStripsFollow, Follow
  <2>2. /\ m > 0 => printStrips[m].start + printStrips[m].count = printTris
        /\ m = 0 => printTris = 0
    BY <1>2, <1>8 DEF PrintStripsFollow, Follow
  <2>3. \A i \in 1..m + 1 : printStrips'[i].start = IF i = 1 THEN 0 ELSE printStrips'[i - 1].start + printStrips'[i - 1].count
    <3> SUFFICES ASSUME NEW i \in 1..m + 1
                 PROVE  printStrips'[i].start = IF i = 1 THEN 0 ELSE printStrips'[i - 1].start + printStrips'[i - 1].count
      OBVIOUS
    <3>1. CASE i \in 1..m
      <4>1. i # 1 => i - 1 \in 1..m
        BY <1>2, <3>1
      <4> QED BY <1>4, <2>1, <3>1, <4>1
    <3>2. CASE i = m + 1
      <4>1. printStrips'[i].start = printTris
        BY <1>4, <1>12, <3>2
      <4>2. CASE m = 0
        BY <2>2, <3>2, <4>1, <4>2
      <4>3. CASE m > 0
        <5>1. i - 1 = m /\ i # 1 /\ m \in 1..m
          BY <1>2, <3>2, <4>3
        <5>2. printStrips'[i - 1] = printStrips[m]
          BY <1>4, <5>1
        <5> QED BY <2>2, <4>1, <4>3, <5>1, <5>2
      <4> QED BY <1>2, <4>2, <4>3
    <3> QED BY <1>2, <3>1, <3>2
  <2>4. printStrips'[m + 1].start + printStrips'[m + 1].count = printTris'
    BY <1>1, <1>4, <1>12
  <2>5. printStrips' # <<>>
    BY <1>2, <1>4
  <2> QED BY <1>4, <2>3, <2>4, <2>5 DEF PrintStripsFollow, Follow
<1> QED BY <1>1, <1>9, <1>11, <1>13 DEF PrintCore

\* A Clear between two steps leaves an empty print; one that falls into a step is torn.
LEMMA PrintClearStep ==
  ASSUME PrintInv, PrintAskClear \/ PrintDoClear \/ PrintCleared
  PROVE  PrintInv'
<1>0. PrintFields /\ (~printTorn => PrintCore)
  BY DEF PrintInv
<1>1. CASE PrintAskClear \/ PrintCleared
  <2>1. /\ UNCHANGED <<printPc, printFirst, printExtruding, printLines, printStep, printStripVars, printTorn>>
        /\ printClear' \in BOOLEAN /\ printClearing' \in BOOLEAN
    BY <1>0, <1>1, Zenon DEF PrintFields, PrintAskClear, PrintCleared
  <2>2. PrintFields'
    <3>1. /\ printVerts' \in Nat /\ printSegs' \in Seq([start : Nat, count : Nat])
          /\ \A i \in 1..PrintLen' : printSegs'[i].start <= printVerts'
      BY <1>0, <2>1 DEF PrintFields, PrintLen, printLines
    <3> QED BY <1>0, <2>1, <3>1, Zenon DEF PrintFields, printStep, printStripVars
  <2>3. PrintCore => PrintCore'
    <3> SUFFICES ASSUME PrintCore PROVE PrintCore'
      OBVIOUS
    <3>1. PrintStrung' /\ PrintStripsFollow' /\ (PrintIsOpen' <=> PrintIsOpen)
      BY <2>1, PrintDrawnKept DEF PrintCore
    <3>2. (printExtruding' <=> printExtruding) /\ printPc' = printPc /\ printAt' = printAt
          /\ printPath' = printPath /\ printTStart' = printTStart /\ printTris' = printTris
      BY <2>1, Zenon DEF printStep, printStripVars
    <3> QED BY <3>1, <3>2 DEF PrintCore, PrintAtWork, PrintOpenIs
  <2>4. printTorn' <=> printTorn
    BY <2>1, Zenon
  <2> QED BY <1>0, <2>2, <2>3, <2>4 DEF PrintInv
<1>2. CASE PrintDoClear
  <2>1. /\ printVerts' = 0 /\ printSegs' = <<>> /\ printPath' = 0 /\ printTris' = 0
        /\ printStrips' = <<>>
        /\ printPc' = (IF printPc = "first" THEN "step" ELSE printPc)
        /\ printTorn' = (printPc # "idle")
        /\ UNCHANGED <<printAt, printTStart, printClear>>
    BY <1>2 DEF PrintDoClear
  <2>2. /\ printFirst' \in BOOLEAN /\ printExtruding' \in BOOLEAN /\ ~printExtruding'
        /\ printClearing' \in BOOLEAN /\ printClear' \in BOOLEAN
    BY <1>0, <1>2, Zenon DEF PrintFields, PrintDoClear
  <2>3. (printPc # "idle") \in BOOLEAN
    OBVIOUS
  <2>4. printTorn' \in BOOLEAN /\ (~printTorn' => printPc = "idle")
    BY <2>1, <2>3, Zenon
  <2>5. PrintFields'
    BY <1>0, <2>1, <2>2, <2>4 DEF PrintFields, PrintLen
  <2>6. ~printTorn' => PrintCore'
    BY <2>1, <2>2, <2>4 DEF PrintCore, PrintStrung, PrintLen, PrintAtWork, PrintOpenIs,
            PrintIsOpen, PrintStripsFollow, Follow
  <2> QED BY <2>5, <2>6 DEF PrintInv
<1> QED BY <1>1, <1>2

LEMMA PrintStepInv == PrintInv /\ [PrintNext]_printVars => PrintInv'
<1> SUFFICES ASSUME PrintInv, [PrintNext]_printVars PROVE PrintInv'
  OBVIOUS
<1>1. CASE UNCHANGED printVars
  <2>1. PrintFields'
    <3>1. /\ printVerts' \in Nat /\ printSegs' \in Seq([start : Nat, count : Nat])
          /\ \A i \in 1..PrintLen' : printSegs'[i].start <= printVerts'
      BY <1>1 DEF PrintInv, PrintFields, PrintLen, printVars, printLines
    <3> QED BY <1>1, <3>1, Zenon
               DEF PrintInv, PrintFields, printVars, printStep, printStripVars, printGl
  <2>2. PrintCore => PrintCore'
    <3> SUFFICES ASSUME PrintCore PROVE PrintCore'
      OBVIOUS
    <3>1. PrintStrung' /\ PrintStripsFollow' /\ (PrintIsOpen' <=> PrintIsOpen)
      BY <1>1, PrintDrawnKept DEF PrintCore, printVars
    <3>2. (printExtruding' <=> printExtruding) /\ printPc' = printPc /\ printAt' = printAt
          /\ printPath' = printPath /\ printTStart' = printTStart /\ printTris' = printTris
      BY <1>1, Zenon DEF printVars, printStep, printStripVars
    <3> QED BY <3>1, <3>2 DEF PrintCore, PrintAtWork, PrintOpenIs
  <2>3. printTorn' <=> printTorn
    BY <1>1, Zenon DEF printVars, printGl
  <2> QED BY <2>1, <2>2, <2>3 DEF PrintInv
<1> QED BY <1>1, PrintQuietStep, PrintStartedStep, PrintVertexStep, PrintCountStep, PrintStripStep,
           PrintClearStep DEF PrintNext

LEMMA PrintInvariant == PrintSpec => []PrintInv
BY PrintInitInv, PrintStepInv, PTL DEF PrintSpec

LEMMA PrintInvTypeOK == PrintInv => PrintTypeOK
<1> SUFFICES ASSUME PrintInv PROVE PrintTypeOK
  OBVIOUS
<1>1. {printFirst, printExtruding, printClear, printClearing, printTorn} \subseteq BOOLEAN
  BY Zenon DEF PrintInv, PrintFields
<1> QED BY <1>1, Zenon DEF PrintInv, PrintFields, PrintTypeOK

LEMMA PrintInvWhole == PrintInv => PrintWhole
<1> SUFFICES ASSUME PrintInv, ~printTorn PROVE PrintWhole
  BY DEF PrintWhole
<1> DEFINE n == PrintLen
           Counted == IF PrintIsOpen THEN [printSegs EXCEPT ![n].count = printVerts - printSegs[n].start]
                      ELSE printSegs
<1>1. /\ printPc # "dead" /\ PrintStrung /\ PrintAtWork /\ PrintOpenIs /\ PrintStripsFollow
      /\ PrintFields
  BY DEF PrintInv, PrintCore
<1>2. printVerts \in Nat /\ printSegs \in Seq([start : Nat, count : Nat]) /\ n \in Nat
  BY <1>1 DEF PrintFields, PrintLen
<1>3. \A i \in 1..n : printSegs[i] \in [start : Nat, count : Nat]
  BY <1>1, PrintSegsTyped
<1>4. /\ Len(Counted) = n
      /\ \A i \in 1..n : /\ Counted[i].start = printSegs[i].start
                         /\ i < n => Counted[i].count = printSegs[i].count
      /\ n > 0 => Counted[n].start + Counted[n].count = printVerts /\ Counted[n].count > 0
      /\ Counted = <<>> <=> n = 0
  <2>1. CASE PrintIsOpen
    <3> DEFINE c == [printSegs[n] EXCEPT !.count = printVerts - printSegs[n].start]
    <3>1. n \in 1..n
      BY <1>2, <2>1 DEF PrintIsOpen
    <3>2. /\ printSegs[n].start \in Nat /\ printSegs[n].start < printVerts
          /\ printSegs[n] \in [start : Nat, count : Nat]
      BY <1>1, <1>3, <3>1 DEF PrintStrung
    <3>3. /\ c.start = printSegs[n].start /\ c.count = printVerts - printSegs[n].start
          /\ c \in [start : Nat, count : Nat]
      BY <1>2, <3>2
    <3>4. Counted = [printSegs EXCEPT ![n] = c]
      BY <2>1
    <3> HIDE DEF c, Counted
    <3>5. Len(Counted) = n /\ Counted[n] = c /\ \A i \in 1..n : i # n => Counted[i] = printSegs[i]
      BY <1>2, <3>1, <3>3, <3>4 DEF PrintLen
    <3>6. Counted \in Seq([start : Nat, count : Nat])
      BY <1>2, <3>1, <3>3, <3>4 DEF PrintLen
    <3>7. Counted = <<>> <=> n = 0
      BY <1>2, <3>1, <3>5, <3>6, EmptySeq, LenProperties
    <3>8. Counted[n].start + Counted[n].count = printVerts /\ Counted[n].count > 0
      BY <1>2, <3>2, <3>3, <3>5
    <3>9. ASSUME NEW i \in 1..n
          PROVE  Counted[i].start = printSegs[i].start /\ (i < n => Counted[i].count = printSegs[i].count)
      <4>1. CASE i = n
        BY <1>2, <3>3, <3>5, <4>1
      <4>2. CASE i # n
        BY <3>5, <4>2
      <4> QED BY <4>1, <4>2
    <3> QED BY <3>5, <3>7, <3>8, <3>9
  <2>2. CASE ~PrintIsOpen
    <3>1. n > 0 => printSegs[n].start + printSegs[n].count = printVerts /\ printSegs[n].count > 0
      BY <1>1, <1>2, <1>3, <2>2 DEF PrintStrung, PrintIsOpen, Open
    <3> QED BY <1>2, <2>2, <3>1 DEF PrintLen
  <2> QED BY <2>1, <2>2
<1> HIDE DEF Counted
<1>5. Follow(Counted, printVerts) /\ \A i \in 1..n : Counted[i].count > 0
  <2>1. \A i \in 1..n : Counted[i].start = IF i = 1 THEN 0 ELSE Counted[i - 1].start + Counted[i - 1].count
    <3> SUFFICES ASSUME NEW i \in 1..n
                 PROVE  Counted[i].start = IF i = 1 THEN 0 ELSE Counted[i - 1].start + Counted[i - 1].count
      OBVIOUS
    <3>1. printSegs[i].start = IF i = 1 THEN 0 ELSE printSegs[i - 1].start + printSegs[i - 1].count
      BY <1>1 DEF PrintStrung
    <3>2. i # 1 => i - 1 \in 1..n /\ i - 1 < n
      BY <1>2
    <3>3. Counted[i].start = printSegs[i].start
      BY <1>4
    <3>4. i # 1 => /\ Counted[i - 1].start = printSegs[i - 1].start
                   /\ Counted[i - 1].count = printSegs[i - 1].count
      BY <1>4, <3>2
    <3> QED BY <3>1, <3>3, <3>4
  <2>2. \A i \in 1..n : Counted[i].count > 0
    <3> SUFFICES ASSUME NEW i \in 1..n PROVE Counted[i].count > 0
      OBVIOUS
    <3>1. CASE i = n
      BY <1>2, <1>4, <3>1
    <3>2. CASE i # n
      <4>1. i < n
        BY <1>2, <3>2
      <4>2. printSegs[i].count > 0
        BY <1>1, <4>1 DEF PrintStrung
      <4> QED BY <1>4, <4>1, <4>2
    <3> QED BY <3>1, <3>2
  <2>3. Counted # <<>> => Counted[n].start + Counted[n].count = printVerts
    BY <1>2, <1>4
  <2> QED BY <1>4, <2>1, <2>2, <2>3 DEF Follow
<1>6. printSegs = <<>> => printVerts = 0
  BY <1>1 DEF PrintStrung, PrintLen
<1> QED BY <1>1, <1>5, <1>6 DEF PrintWhole, PrintOpenIs, PrintIsOpen, PrintLen, PrintStripsFollow,
           Counted

-----------------------------------------------------------------------------
(***************************************************************************)
(* The export of the print.                                                *)
(***************************************************************************)
\* The inductive invariant of the export, while no line waited in vain.  A line that waits has one
\* file to write, which follows from its kind and from the line before it; from its request to the
\* end of the writing the board is held, so the print stands still.
PlyFiles == {"plain", "line", "earlier"}
PlyKinds == {"plain", "file", "other"}
PlyStories == [stray : BOOLEAN, torn : BOOLEAN, wrote : SUBSET PlyFiles, after : PlyKinds,
               done : [kind : PlyKinds, after : PlyKinds, wrote : SUBSET PlyFiles, queue : BOOLEAN]]
PlyMeant == IF plyLine = "file" THEN "line" ELSE IF plyStory.after = "file" THEN "earlier" ELSE "plain"

\* What the last export line left in the pointer.
PlyBase == IF plyStory.after = "file" THEN "earlier" ELSE "none"

\* No export line waits.
PlyNoLine ==
  /\ plyFN = PlyBase \/ (plyFN = "line" /\ plyStory.after = "file")
  /\ plyResult = 0 /\ ~plyLook /\ plyGl \in {"idle", "result"} /\ (plyBusy <=> plyGl = "result")
\* A line waits, and its file is not written.
PlyUnwritten ==
  /\ plyStory.wrote = {} /\ plyResult = 0 /\ plyGl \in {"idle", "result", PlyMeant}
  /\ plyGl # "idle" => plyBusy
  /\ plyBusy /\ plyGl # "result" => plyHeld
  /\ plyLine = "file" => (plyLook \/ (plyBusy /\ plyGl = "idle") => plyFN = "line")
  /\ plyFN = PlyBase \/ (plyFN = "line" /\ plyLine = "file")
\* A line waits, and its file is written.
PlyIsWritten ==
  /\ plyStory.wrote = {PlyMeant} /\ plyGl \in {"written", "result", "idle"}
  /\ plyResult # 0 <=> plyGl # "written"
  /\ plyBusy <=> plyGl # "idle"
  /\ plyLine = "plain" => plyFN = "none"
PlyFields ==
  /\ plyLine \in PlyKinds \cup {"mouse"} /\ plyLook \in BOOLEAN /\ plyHeld \in BOOLEAN /\ plyBusy \in BOOLEAN
  /\ plyFN \in {"none", "line", "earlier"} /\ plyResult \in 0..2
  /\ plyGl \in {"idle", "plain", "line", "earlier", "written", "result"}
  /\ plyStory \in PlyStories
PlyDone ==
  /\ ~plyStory.torn
  /\ plyStory.done.queue => plyStory.done.wrote = {}
  /\ ~plyStory.done.queue /\ plyStory.done.kind = "file" => plyStory.done.wrote = {"line"}
  /\ ~plyStory.done.queue /\ plyStory.done.kind = "plain" =>
       plyStory.done.wrote = IF plyStory.done.after = "file" THEN {"earlier"} ELSE {"plain"}
PlyCore ==
  /\ PlyDone
  /\ plyLine \notin Exports => PlyNoLine
  /\ plyLine \in Exports => PlyUnwritten \/ PlyIsWritten
PlyExportInv == PlyFields /\ (~plyStory.stray => PlyCore)
\* Only the line that queued an action meets it, unless it was left.
PlyQueueInv ==
  /\ plyQueued \in {"none", "queued", "done"} /\ plyLeft \in BOOLEAN
  /\ plyLine # "mouse" /\ plyQueued # "none" => plyLeft
PlyInv == PlyExportInv /\ PlyQueueInv

LEMMA PlyInitInv == PlyInit => PlyInv
<1> SUFFICES ASSUME PlyInit PROVE PlyInv
  OBVIOUS
<1>1. /\ plyLook \in BOOLEAN /\ plyHeld \in BOOLEAN /\ plyBusy \in BOOLEAN
      /\ ~plyLook /\ ~plyHeld /\ ~plyBusy
  BY Zenon DEF PlyInit
<1>2. /\ plyLine = "other" /\ plyFN = "none" /\ plyResult = 0 /\ plyGl = "idle" /\ plyStory = Untold
  BY DEF PlyInit
<1>3. /\ Untold \in PlyStories /\ Untold.done.kind = "other" /\ Untold.after = "other"
      /\ Untold.torn = FALSE /\ Untold.done.queue = FALSE
  <2>1. FALSE \in BOOLEAN /\ {} \in SUBSET PlyFiles /\ "other" \in PlyKinds
    BY DEF PlyKinds
  <2> QED BY <2>1 DEF Untold, PlyStories
<1>4. PlyFields
  BY <1>1, <1>2, <1>3 DEF PlyFields, PlyKinds
<1>5. ~plyStory.torn /\ ~plyStory.done.queue
  BY <1>2, <1>3, Zenon
<1>6. PlyCore
  BY <1>1, <1>2, <1>3, <1>5 DEF PlyCore, PlyDone, PlyNoLine, PlyBase, Exports
<1>7. PlyQueueInv
  BY DEF PlyInit, PlyQueueInv
<1> QED BY <1>4, <1>6, <1>7 DEF PlyInv, PlyExportInv

\* What is told of a story.
LEMMA PlyStoryTyped ==
  ASSUME plyStory \in PlyStories
  PROVE  /\ plyStory.stray \in BOOLEAN /\ plyStory.torn \in BOOLEAN
         /\ plyStory.wrote \in SUBSET PlyFiles /\ plyStory.after \in PlyKinds
         /\ plyStory.done \in [kind : PlyKinds, after : PlyKinds, wrote : SUBSET PlyFiles, queue : BOOLEAN]
BY DEF PlyStories

\* An export that no line waits for ends the story.
LEMMA PlyStrayStep ==
  ASSUME Stray
  PROVE  plyStory' \in PlyStories /\ plyStory'.stray
<1> DEFINE t == [Untold EXCEPT !.stray = TRUE]
<1>1. Untold \in PlyStories
  <2>1. FALSE \in BOOLEAN /\ {} \in SUBSET PlyFiles /\ "other" \in PlyKinds
    BY DEF PlyKinds
  <2> QED BY <2>1 DEF Untold, PlyStories
<1>2. t \in PlyStories /\ t.stray = TRUE
  BY <1>1 DEF PlyStories
<1>3. plyStory' = t
  BY DEF Stray
<1> HIDE DEF t
<1> QED BY <1>2, <1>3, Zenon

\* A step that tells nothing new to a story that ended.
LEMMA PlyToldStep ==
  ASSUME plyStory \in PlyStories, NEW story \in PlyStories, story.stray = plyStory.stray, Tell(story)
  PROVE  /\ plyStory' \in PlyStories
         /\ plyStory'.stray <=> plyStory.stray
         /\ ~plyStory.stray => plyStory' = story
<1>1. CASE plyStory.stray
  <2>1. plyStory' = plyStory
    BY <1>1, Zenon DEF Tell
  <2> QED BY <1>1, <2>1
<1>2. CASE ~plyStory.stray
  <2>1. plyStory' = story
    BY <1>2, Zenon DEF Tell
  <2> QED BY <1>2, <2>1
<1> QED BY <1>1, <1>2

LEMMA PlyParseStep ==
  ASSUME PlyExportInv, NEW kind \in Exports \cup {"mouse"}, PlyParse(kind)
  PROVE  PlyExportInv'
<1> DEFINE story == [plyStory EXCEPT !.wrote = {}]
<1>0. PlyFields /\ (~plyStory.stray => PlyCore) /\ plyStory \in PlyStories
  BY DEF PlyExportInv, PlyFields
<1>1. /\ plyLine = "other" /\ plyLine' = kind /\ kind \in {"plain", "file", "mouse"}
      /\ plyFN' = (IF plyFN = "line" THEN "earlier" ELSE plyFN)
      /\ plyResult' = plyResult /\ plyGl' = plyGl
  BY DEF PlyParse, Exports
<1>2. (plyLook' <=> plyLook) /\ (plyHeld' <=> plyHeld) /\ (plyBusy' <=> plyBusy)
  BY Zenon DEF PlyParse
<1>3. /\ story \in PlyStories /\ story.wrote = {} /\ story.stray = plyStory.stray
      /\ story.torn = plyStory.torn /\ story.after = plyStory.after /\ story.done = plyStory.done
  BY <1>0 DEF PlyStories
<1>4. Tell(story)
  BY DEF PlyParse
<1> HIDE DEF story
<1>5. plyStory' \in PlyStories /\ (plyStory'.stray <=> plyStory.stray) /\ (~plyStory.stray => plyStory' = story)
  BY <1>0, <1>3, <1>4, PlyToldStep
<1>6. PlyFields'
  <2>1. plyLook' \in BOOLEAN /\ plyHeld' \in BOOLEAN /\ plyBusy' \in BOOLEAN
    BY <1>0, Zenon DEF PlyFields, PlyParse
  <2> QED BY <1>0, <1>1, <1>5, <2>1 DEF PlyFields, PlyKinds
<1>7. SUFFICES ASSUME ~plyStory.stray PROVE PlyCore'
  BY <1>5, <1>6 DEF PlyExportInv
<1>8. PlyDone /\ PlyNoLine
  BY <1>0, <1>1, <1>7 DEF PlyCore, Exports
<1>9. plyStory' = story
  BY <1>5, <1>7
<1>10. PlyDone'
  <2>1. ~plyStory'.torn
    BY <1>3, <1>8, <1>9, Zenon DEF PlyDone
  <2> QED BY <1>3, <1>8, <1>9, <2>1 DEF PlyDone
<1>11. PlyUnwritten' /\ PlyNoLine'
  BY <1>1, <1>2, <1>3, <1>8, <1>9 DEF PlyNoLine, PlyUnwritten, PlyMeant, PlyBase
<1> QED BY <1>10, <1>11 DEF PlyCore

\* A line that no export was asked for goes, and leaves nothing behind.
LEMMA PlyNothingAsked ==
  ASSUME PlyFields, PlyCore, plyLine # "other", ~plyLook, ~PlyUnderWay
  PROVE  PlyNoLine /\ plyFN # "line" /\ (plyLine \in Exports => plyStory.wrote = {})
BY DEF PlyCore, PlyUnderWay, PlyNoLine, PlyUnwritten, PlyIsWritten, PlyBase, PlyFields, Exports

\* A line ends with the action in the queue, whatever it asked for.
LEMMA PlyQueueDoneStep ==
  ASSUME PlyExportInv, PlyQueueDone
  PROVE  PlyExportInv'
<1> DEFINE done == [kind |-> plyLine, after |-> plyStory.after, wrote |-> plyStory.wrote, queue |-> TRUE]
           story == [plyStory EXCEPT !.done = done]
<1>0. PlyFields /\ (~plyStory.stray => PlyCore) /\ plyStory \in PlyStories
  BY DEF PlyExportInv, PlyFields
<1>1. /\ plyLine # "other" /\ plyLine' = "other" /\ ~plyLook
      /\ UNCHANGED <<plyFN, plyResult, plyGl>>
  BY DEF PlyQueueDone
<1>2. (plyLook' <=> plyLook) /\ (plyBusy' <=> plyBusy)
      /\ plyLook' \in BOOLEAN /\ plyHeld' \in BOOLEAN /\ plyBusy' \in BOOLEAN
  BY <1>0, Zenon DEF PlyFields, PlyQueueDone
<1>3. plyStory' \in PlyStories => PlyFields'
  BY <1>0, <1>1, <1>2 DEF PlyFields, PlyKinds
<1>4. CASE plyLine \notin Exports
  <2>1. plyStory' = plyStory
    BY <1>4 DEF PlyQueueDone
  <2>2. PlyCore => PlyCore'
    BY <1>1, <1>2, <1>4, <2>1 DEF PlyCore, PlyDone, PlyNoLine, PlyBase, Exports
  <2> QED BY <1>0, <1>3, <2>1, <2>2 DEF PlyExportInv
<1>5. CASE plyLine \in Exports /\ PlyUnderWay
  BY <1>3, <1>5, PlyStrayStep DEF PlyExportInv, PlyQueueDone
<1>6. CASE plyLine \in Exports /\ ~PlyUnderWay
  <2>1. Tell(story)
    BY <1>6 DEF PlyQueueDone
  <2>2. /\ done \in [kind : PlyKinds, after : PlyKinds, wrote : SUBSET PlyFiles, queue : BOOLEAN]
        /\ done.wrote = plyStory.wrote /\ done.queue = TRUE
    BY <1>0, <1>6, PlyStoryTyped DEF PlyKinds, Exports
  <2> HIDE DEF done
  <2>3. /\ story \in PlyStories /\ story.wrote = plyStory.wrote /\ story.stray = plyStory.stray
        /\ story.torn = plyStory.torn /\ story.after = plyStory.after /\ story.done = done
    BY <1>0, <2>2 DEF PlyStories
  <2> HIDE DEF story
  <2>4. plyStory' \in PlyStories /\ (plyStory'.stray <=> plyStory.stray) /\ (~plyStory.stray => plyStory' = story)
    BY <1>0, <2>1, <2>3, PlyToldStep
  <2>5. SUFFICES ASSUME ~plyStory.stray PROVE PlyCore'
    BY <1>3, <2>4 DEF PlyExportInv
  <2>6. PlyCore /\ PlyNoLine /\ plyStory.wrote = {} /\ plyStory' = story
    BY <1>0, <1>1, <1>6, <2>4, <2>5, PlyNothingAsked
  <2>7. ~plyStory'.torn /\ plyStory'.done.queue
    BY <2>2, <2>3, <2>6, Zenon DEF PlyCore, PlyDone
  <2>8. PlyDone'
    BY <2>2, <2>3, <2>6, <2>7 DEF PlyDone
  <2>9. PlyNoLine'
    BY <1>1, <1>2, <2>3, <2>6 DEF PlyNoLine, PlyBase
  <2> QED BY <1>1, <2>8, <2>9 DEF PlyCore, Exports
<1> QED BY <1>4, <1>5, <1>6

\* A line for the mouse queues its action, and the GL thread does it.
LEMMA PlyQueuedSteps ==
  ASSUME PlyExportInv, PlyMouse \/ PlyView
  PROVE  PlyExportInv'
<1>1. UNCHANGED <<plyLine, plyFN, plyResult, plyGl, plyLook, plyHeld, plyBusy, plyStory>>
  BY DEF PlyMouse, PlyView
<1> QED BY <1>1 DEF PlyExportInv, PlyFields, PlyCore, PlyDone, PlyNoLine, PlyUnwritten, PlyIsWritten,
                    PlyMeant, PlyBase

\* The call that collects a result, and the one that sees none.
LEMMA PlyCallStep ==
  ASSUME PlyExportInv, PlyCall
  PROVE  PlyExportInv'
<1> DEFINE done == [kind |-> plyLine, after |-> plyStory.after, wrote |-> plyStory.wrote, queue |-> FALSE]
           story == [plyStory EXCEPT !.after = plyLine, !.done = done]
<1>0. PlyFields /\ (~plyStory.stray => PlyCore) /\ plyStory \in PlyStories
  BY DEF PlyExportInv, PlyFields
<1>1. /\ plyLine \in {"plain", "file"} /\ ~plyLook
      /\ plyFN' = (IF plyLine = "file" THEN "line" ELSE plyFN)
      /\ plyGl' = plyGl
  BY DEF PlyCall, Exports
<1>2. plyBusy' <=> plyBusy
  BY Zenon DEF PlyCall
<1>3. plyBusy' \in BOOLEAN
  BY <1>0, Zenon DEF PlyFields, PlyCall
<1>4. CASE plyResult > 0
  <2>1. /\ plyResult' = 0 /\ plyLine' = "other" /\ plyHeld' = (plyHeld /\ plyResult = 1)
        /\ plyLook' = plyLook /\ Tell(story)
    BY <1>4 DEF PlyCall
  <2>2. /\ done \in [kind : PlyKinds, after : PlyKinds, wrote : SUBSET PlyFiles, queue : BOOLEAN]
        /\ done.kind = plyLine /\ done.after = plyStory.after /\ done.wrote = plyStory.wrote
        /\ done.queue = FALSE
    BY <1>0, <1>1, PlyStoryTyped DEF PlyKinds
  <2> HIDE DEF done
  <2>3. /\ story \in PlyStories /\ story.wrote = plyStory.wrote /\ story.stray = plyStory.stray
        /\ story.torn = plyStory.torn /\ story.after = plyLine /\ story.done = done
    BY <1>0, <1>1, <2>2 DEF PlyStories, PlyFields, PlyKinds
  <2> HIDE DEF story
  <2>4. plyStory' \in PlyStories /\ (plyStory'.stray <=> plyStory.stray) /\ (~plyStory.stray => plyStory' = story)
    BY <1>0, <2>1, <2>3, PlyToldStep
  <2>5. PlyFields'
    <3>1. plyLook' \in BOOLEAN
      BY <1>0, <2>1, Zenon DEF PlyFields
    <3>2. plyHeld' \in BOOLEAN
      <4>1. (plyResult = 1) \in BOOLEAN
        OBVIOUS
      <4> QED BY <1>0, <2>1, <4>1, Zenon DEF PlyFields
    <3> QED BY <1>0, <1>1, <1>3, <2>1, <2>4, <3>1, <3>2 DEF PlyFields, PlyKinds
  <2>6. SUFFICES ASSUME ~plyStory.stray PROVE PlyCore'
    BY <2>4, <2>5 DEF PlyExportInv
  <2>7. PlyDone /\ PlyIsWritten
    BY <1>0, <1>1, <1>4, <2>6 DEF PlyCore, PlyUnwritten, Exports
  <2>8. plyStory' = story
    BY <2>4, <2>6
  <2>9. PlyDone'
    <3>1. ~plyStory'.torn /\ ~plyStory'.done.queue
      BY <2>2, <2>3, <2>7, <2>8, Zenon DEF PlyDone
    <3> QED BY <1>1, <2>2, <2>3, <2>7, <2>8, <3>1 DEF PlyDone, PlyIsWritten, PlyMeant
  <2>10. PlyNoLine'
    <3>1. ~plyLook'
      BY <1>1, <2>1, Zenon
    <3> QED BY <1>0, <1>1, <1>2, <1>4, <2>1, <2>3, <2>7, <2>8, <3>1
               DEF PlyNoLine, PlyIsWritten, PlyFields, PlyBase
  <2> QED BY <2>1, <2>9, <2>10 DEF PlyCore, Exports
<1>5. CASE ~(plyResult > 0)
  <2>1. /\ plyLook' = TRUE /\ plyResult' = plyResult /\ plyLine' = plyLine /\ plyStory' = plyStory
        /\ plyHeld' = plyHeld
    BY <1>5 DEF PlyCall
  <2>2. plyLook' /\ (plyHeld' <=> plyHeld) /\ plyLook' \in BOOLEAN /\ plyHeld' \in BOOLEAN
    BY <1>0, <2>1, Zenon DEF PlyFields
  <2>3. PlyFields'
    BY <1>0, <1>1, <1>3, <2>1, <2>2 DEF PlyFields
  <2>4. SUFFICES ASSUME ~plyStory.stray PROVE PlyCore'
    BY <2>1, <2>3 DEF PlyExportInv
  <2>5. PlyDone /\ (PlyUnwritten \/ PlyIsWritten)
    BY <1>0, <1>1, <2>4 DEF PlyCore, Exports
  <2>6. PlyDone' /\ PlyMeant' = PlyMeant
    BY <2>1, <2>5 DEF PlyDone, PlyMeant
  <2>7. PlyUnwritten => PlyUnwritten'
    BY <1>1, <1>2, <2>1, <2>2, <2>6 DEF PlyUnwritten, PlyBase
  <2>8. PlyIsWritten => PlyIsWritten'
    BY <1>1, <1>2, <2>1, <2>2, <2>6 DEF PlyIsWritten
  <2> QED BY <1>1, <2>1, <2>5, <2>6, <2>7, <2>8 DEF PlyCore, Exports
<1> QED BY <1>4, <1>5

\* The request: it is the first of its line, or the last one is on its way or ended in vain.
LEMMA PlyAskStep ==
  ASSUME PlyExportInv, PlyAsk
  PROVE  PlyExportInv'
<1>0. PlyFields /\ (~plyStory.stray => PlyCore) /\ plyStory \in PlyStories
  BY DEF PlyExportInv, PlyFields
<1>1. /\ plyLine' = plyLine /\ plyFN' = plyFN /\ plyResult' = plyResult /\ plyGl' = plyGl
      /\ plyLook
  BY DEF PlyAsk
<1>2. /\ ~plyLook' /\ plyBusy' /\ plyHeld'
      /\ plyLook' \in BOOLEAN /\ plyBusy' \in BOOLEAN /\ plyHeld' \in BOOLEAN
  BY Zenon DEF PlyAsk
<1>3. CASE ~plyBusy /\ plyResult # 0
  <2>1. plyStory' \in PlyStories /\ plyStory'.stray
    BY <1>3, PlyStrayStep DEF PlyAsk
  <2> QED BY <1>0, <1>1, <1>2, <2>1 DEF PlyExportInv, PlyFields
<1>4. CASE ~(~plyBusy /\ plyResult # 0)
  <2>1. plyStory' = plyStory
    BY <1>4 DEF PlyAsk
  <2>2. PlyFields'
    BY <1>0, <1>1, <1>2, <2>1 DEF PlyFields
  <2>3. SUFFICES ASSUME ~plyStory.stray PROVE PlyCore'
    BY <2>1, <2>2 DEF PlyExportInv
  <2>4. PlyDone /\ plyLine \in Exports /\ (PlyUnwritten \/ PlyIsWritten)
    BY <1>0, <1>1, <2>3 DEF PlyCore, PlyNoLine
  <2>5. PlyDone' /\ PlyMeant' = PlyMeant
    BY <1>1, <2>1, <2>4 DEF PlyDone, PlyMeant
  <2>6. PlyUnwritten => PlyUnwritten'
    BY <1>1, <1>2, <2>1, <2>5 DEF PlyUnwritten, PlyBase
  <2>7. PlyIsWritten => PlyIsWritten'
    BY <1>1, <1>2, <1>4, <2>1, <2>5 DEF PlyIsWritten
  <2> QED BY <1>1, <2>4, <2>5, <2>6, <2>7 DEF PlyCore
<1> QED BY <1>3, <1>4

\* A line that is given up leaves its export behind, if it asked for one.
LEMMA PlyGiveUpStep ==
  ASSUME PlyExportInv, PlyGiveUp
  PROVE  PlyExportInv'
<1>0. PlyFields /\ (~plyStory.stray => PlyCore)
  BY DEF PlyExportInv
<1>1. plyLine # "other" /\ plyLine' = "other" /\ ~plyLook /\ UNCHANGED <<plyFN, plyResult, plyGl>>
  BY DEF PlyGiveUp
<1>2. (plyLook' <=> plyLook) /\ (plyBusy' <=> plyBusy)
      /\ plyLook' \in BOOLEAN /\ plyHeld' \in BOOLEAN /\ plyBusy' \in BOOLEAN
  BY <1>0, Zenon DEF PlyFields, PlyGiveUp
<1>3. plyStory' \in PlyStories => PlyFields'
  BY <1>0, <1>1, <1>2 DEF PlyFields, PlyKinds
<1>4. CASE PlyUnderWay
  BY <1>3, <1>4, PlyStrayStep DEF PlyExportInv, PlyGiveUp
<1>5. CASE ~PlyUnderWay
  <2>1. plyStory' = plyStory
    BY <1>5 DEF PlyGiveUp
  <2>2. PlyCore => PlyNoLine
    BY <1>0, <1>1, <1>5, PlyNothingAsked
  <2>3. PlyCore => PlyCore'
    BY <1>1, <1>2, <2>1, <2>2 DEF PlyCore, PlyDone, PlyNoLine, PlyBase, Exports
  <2> QED BY <1>0, <1>3, <2>1, <2>3 DEF PlyExportInv, PlyFields
<1> QED BY <1>4, <1>5

\* The menu asks for an export that no line waits for, or has to do with the queue alone.
LEMMA PlyMenuStep ==
  ASSUME PlyExportInv, PlyMenu
  PROVE  PlyExportInv'
<1>0. PlyFields
  BY DEF PlyExportInv
<1>1. UNCHANGED <<plyLine, plyLook, plyHeld, plyFN, plyGl>>
  BY DEF PlyMenu
<1>2. CASE UNCHANGED <<plyBusy, plyResult, plyStory>>
  BY <1>1, <1>2 DEF PlyExportInv, PlyFields, PlyCore, PlyDone, PlyNoLine, PlyUnwritten, PlyIsWritten,
                    PlyMeant, PlyBase
<1>3. CASE Stray /\ (plyResult' = 0 \/ plyResult' = plyResult)
  <2>1. plyLook' \in BOOLEAN /\ plyHeld' \in BOOLEAN
    BY <1>0, <1>1, Zenon DEF PlyFields
  <2>2. plyBusy' \in BOOLEAN
    BY <1>0, Zenon DEF PlyMenu, PlyFields
  <2>3. plyStory' \in PlyStories /\ plyStory'.stray
    BY <1>3, PlyStrayStep
  <2> QED BY <1>0, <1>1, <1>3, <2>1, <2>2, <2>3 DEF PlyExportInv, PlyFields
<1> QED BY <1>2, <1>3 DEF PlyMenu

LEMMA PlyOtherStep ==
  ASSUME PlyExportInv, PlyOther
  PROVE  PlyExportInv'
<1>0. PlyFields /\ (~plyStory.stray => PlyCore)
  BY DEF PlyExportInv
<1>1. /\ plyLine = "other" /\ plyLine' = plyLine /\ plyFN' = plyFN /\ plyResult' = plyResult
      /\ plyGl' = plyGl /\ plyStory' = plyStory
  BY DEF PlyOther
<1>2. (plyLook' <=> plyLook) /\ (plyBusy' <=> plyBusy) /\ plyHeld' \in BOOLEAN
      /\ plyLook' \in BOOLEAN /\ plyBusy' \in BOOLEAN
  BY <1>0, Zenon DEF PlyFields, PlyOther
<1>3. PlyFields'
  BY <1>0, <1>1, <1>2 DEF PlyFields
<1>4. PlyCore => PlyCore'
  BY <1>1, <1>2 DEF PlyCore, PlyDone, PlyNoLine, PlyBase, Exports
<1> QED BY <1>0, <1>1, <1>3, <1>4 DEF PlyExportInv

\* The print grows while nothing is written.
LEMMA PlyPrintStep ==
  ASSUME PlyExportInv, PlyPrint
  PROVE  PlyExportInv'
<1> DEFINE torn == plyStory.torn \/ plyGl \in {"plain", "line", "earlier"}
           story == [plyStory EXCEPT !.torn = torn]
<1>0. PlyFields /\ (~plyStory.stray => PlyCore) /\ plyStory \in PlyStories
  BY DEF PlyExportInv, PlyFields
<1>1. /\ ~plyHeld /\ ~plyLook /\ plyLine' = plyLine /\ plyFN' = plyFN /\ plyResult' = plyResult
      /\ plyGl' = plyGl
  BY DEF PlyPrint
<1>2. (plyLook' <=> plyLook) /\ (plyBusy' <=> plyBusy) /\ (plyHeld' <=> plyHeld)
      /\ plyLook' \in BOOLEAN /\ plyBusy' \in BOOLEAN /\ plyHeld' \in BOOLEAN
  BY <1>0, Zenon DEF PlyFields, PlyPrint
<1>3. torn \in BOOLEAN
  OBVIOUS
<1>4. Tell(story)
  BY DEF PlyPrint
<1>5. torn <=> plyStory.torn \/ plyGl \in {"plain", "line", "earlier"}
  OBVIOUS
<1> HIDE DEF torn
<1>6. /\ story \in PlyStories /\ story.wrote = plyStory.wrote /\ story.stray = plyStory.stray
      /\ story.torn = torn /\ story.after = plyStory.after /\ story.done = plyStory.done
  BY <1>0, <1>3 DEF PlyStories
<1> HIDE DEF story
<1>7. plyStory' \in PlyStories /\ (plyStory'.stray <=> plyStory.stray) /\ (~plyStory.stray => plyStory' = story)
  BY <1>0, <1>4, <1>6, PlyToldStep
<1>8. PlyFields'
  BY <1>0, <1>1, <1>2, <1>7 DEF PlyFields
<1>9. SUFFICES ASSUME ~plyStory.stray PROVE PlyCore'
  BY <1>7, <1>8 DEF PlyExportInv
<1>10. PlyCore /\ plyStory' = story
  BY <1>0, <1>7, <1>9
<1>11. plyGl \notin {"plain", "line", "earlier"}
  <2>1. CASE plyLine \notin Exports
    BY <1>10, <2>1 DEF PlyCore, PlyNoLine
  <2>2. CASE plyLine \in Exports
    <3>1. PlyUnwritten => plyGl \notin {"plain", "line", "earlier"}
      BY <1>1 DEF PlyUnwritten
    <3>2. PlyIsWritten => plyGl \notin {"plain", "line", "earlier"}
      BY DEF PlyIsWritten
    <3> QED BY <1>10, <2>2, <3>1, <3>2 DEF PlyCore
  <2> QED BY <2>1, <2>2
<1>12. ~plyStory'.torn
  <2>1. ~torn
    BY <1>5, <1>10, <1>11 DEF PlyCore, PlyDone
  <2> QED BY <1>6, <1>10, <2>1, Zenon
<1>13. PlyDone'
  BY <1>6, <1>10, <1>12 DEF PlyCore, PlyDone
<1>14. PlyMeant' = PlyMeant
  BY <1>1, <1>6, <1>10 DEF PlyMeant
<1>15. PlyNoLine => PlyNoLine'
  BY <1>1, <1>2, <1>6, <1>10 DEF PlyNoLine, PlyBase
<1>16. PlyUnwritten => PlyUnwritten'
  BY <1>1, <1>2, <1>6, <1>10, <1>14 DEF PlyUnwritten, PlyBase
<1>17. PlyIsWritten => PlyIsWritten'
  BY <1>1, <1>2, <1>6, <1>10, <1>14 DEF PlyIsWritten
<1> QED BY <1>1, <1>10, <1>13, <1>15, <1>16, <1>17 DEF PlyCore

\* The GL thread begins an export: of the file that the line means.
LEMMA PlyExportStep ==
  ASSUME PlyExportInv, PlyExport
  PROVE  PlyExportInv'
<1>0. PlyFields /\ (~plyStory.stray => PlyCore)
  BY DEF PlyExportInv
<1>1. /\ plyBusy /\ plyGl = "idle" /\ plyGl' = (IF plyFN = "none" THEN "plain" ELSE plyFN)
      /\ plyLine' = plyLine /\ plyFN' = plyFN /\ plyResult' = plyResult /\ plyStory' = plyStory
  BY DEF PlyExport
<1>2. (plyLook' <=> plyLook) /\ (plyBusy' <=> plyBusy) /\ (plyHeld' <=> plyHeld)
      /\ plyLook' \in BOOLEAN /\ plyBusy' \in BOOLEAN /\ plyHeld' \in BOOLEAN
  BY <1>0, Zenon DEF PlyFields, PlyExport
<1>3. PlyFields'
  BY <1>0, <1>1, <1>2 DEF PlyFields
<1>4. SUFFICES ASSUME ~plyStory.stray PROVE PlyCore'
  BY <1>1, <1>3 DEF PlyExportInv
<1>5. PlyDone /\ plyLine \in Exports /\ PlyUnwritten
  BY <1>0, <1>1, <1>4 DEF PlyCore, PlyNoLine, PlyIsWritten
<1>6. PlyDone' /\ PlyMeant' = PlyMeant
  BY <1>1, <1>5 DEF PlyDone, PlyMeant
<1>7. plyGl' = PlyMeant
  BY <1>0, <1>1, <1>5 DEF PlyUnwritten, PlyMeant, PlyFields, PlyBase, Exports
<1>8. PlyMeant \in {"plain", "line", "earlier"}
  BY DEF PlyMeant
<1>9. PlyUnwritten'
  BY <1>1, <1>2, <1>5, <1>6, <1>7, <1>8 DEF PlyUnwritten, PlyBase
<1> QED BY <1>1, <1>5, <1>6, <1>9 DEF PlyCore

LEMMA PlyWrittenStep ==
  ASSUME PlyExportInv, PlyWritten
  PROVE  PlyExportInv'
<1> DEFINE wrote == plyStory.wrote \cup {plyGl}
           story == [plyStory EXCEPT !.wrote = wrote]
<1>0. PlyFields /\ (~plyStory.stray => PlyCore) /\ plyStory \in PlyStories
  BY DEF PlyExportInv, PlyFields
<1>1. /\ plyGl \in {"plain", "line", "earlier"} /\ plyGl' = "written"
      /\ plyFN' = (IF plyGl = "plain" THEN plyFN ELSE "none")
      /\ plyLine' = plyLine /\ plyResult' = plyResult
  BY DEF PlyWritten
<1>2. (plyLook' <=> plyLook) /\ (plyBusy' <=> plyBusy) /\ (plyHeld' <=> plyHeld)
      /\ plyLook' \in BOOLEAN /\ plyBusy' \in BOOLEAN /\ plyHeld' \in BOOLEAN
  BY <1>0, Zenon DEF PlyFields, PlyWritten
<1>3. wrote \in SUBSET PlyFiles
  BY <1>0, <1>1, PlyStoryTyped DEF PlyFiles
<1>4. Tell(story)
  BY DEF PlyWritten
<1>5. wrote = plyStory.wrote \cup {plyGl}
  OBVIOUS
<1> HIDE DEF wrote
<1>6. /\ story \in PlyStories /\ story.wrote = wrote /\ story.stray = plyStory.stray
      /\ story.torn = plyStory.torn /\ story.after = plyStory.after /\ story.done = plyStory.done
  BY <1>0, <1>3 DEF PlyStories
<1> HIDE DEF story
<1>7. plyStory' \in PlyStories /\ (plyStory'.stray <=> plyStory.stray) /\ (~plyStory.stray => plyStory' = story)
  BY <1>0, <1>4, <1>6, PlyToldStep
<1>8. PlyFields'
  BY <1>0, <1>1, <1>2, <1>7 DEF PlyFields
<1>9. SUFFICES ASSUME ~plyStory.stray PROVE PlyCore'
  BY <1>7, <1>8 DEF PlyExportInv
<1>10. PlyDone /\ plyLine \in Exports /\ PlyUnwritten
  BY <1>0, <1>1, <1>9 DEF PlyCore, PlyNoLine, PlyIsWritten
<1>11. plyStory' = story
  BY <1>7, <1>9
<1>12. plyGl = PlyMeant /\ plyBusy
  BY <1>1, <1>10 DEF PlyUnwritten
<1>13. PlyDone'
  <2>1. ~plyStory'.torn
    BY <1>6, <1>10, <1>11, Zenon DEF PlyDone
  <2> QED BY <1>6, <1>10, <1>11, <2>1 DEF PlyDone
<1>14. PlyMeant' = PlyMeant
  BY <1>1, <1>6, <1>11 DEF PlyMeant
<1>15. plyStory'.wrote = {PlyMeant}
  BY <1>5, <1>6, <1>10, <1>11, <1>12 DEF PlyUnwritten
<1>16. plyLine = "plain" => plyFN' = "none"
  BY <1>1, <1>10, <1>12 DEF PlyUnwritten, PlyMeant, PlyBase
<1>17. PlyIsWritten'
  BY <1>1, <1>2, <1>10, <1>12, <1>14, <1>15, <1>16 DEF PlyIsWritten, PlyUnwritten
<1> QED BY <1>1, <1>10, <1>13, <1>17 DEF PlyCore

\* The result is set, and then the request is taken back.
LEMMA PlyEndSteps ==
  ASSUME PlyExportInv, PlySetResult \/ PlyEnd
  PROVE  PlyExportInv'
<1>0. PlyFields /\ (~plyStory.stray => PlyCore)
  BY DEF PlyExportInv
<1>1. plyLine' = plyLine /\ plyFN' = plyFN /\ plyStory' = plyStory
  BY DEF PlySetResult, PlyEnd
<1>2. (plyLook' <=> plyLook) /\ (plyHeld' <=> plyHeld)
      /\ plyLook' \in BOOLEAN /\ plyBusy' \in BOOLEAN /\ plyHeld' \in BOOLEAN
  <2>1. plyLook' = plyLook /\ plyHeld' = plyHeld /\ (plyBusy' = plyBusy \/ plyBusy' = FALSE)
    BY Zenon DEF PlySetResult, PlyEnd
  <2>2. FALSE \in BOOLEAN
    OBVIOUS
  <2>3. plyBusy' \in BOOLEAN
    BY <1>0, <2>1, <2>2, Zenon DEF PlyFields
  <2> QED BY <1>0, <2>1, <2>3, Zenon DEF PlyFields
<1>3. PlyFields'
  BY <1>0, <1>1, <1>2 DEF PlyFields, PlySetResult, PlyEnd
<1>4. SUFFICES ASSUME ~plyStory.stray PROVE PlyCore'
  BY <1>1, <1>3 DEF PlyExportInv
<1>5. PlyCore
  BY <1>0, <1>4
<1>6. PlyDone' /\ PlyMeant' = PlyMeant
  BY <1>1, <1>5 DEF PlyCore, PlyDone, PlyMeant
<1>7. CASE PlySetResult
  <2>1. plyGl = "written" /\ plyGl' = "result" /\ plyResult' # 0
    BY <1>7 DEF PlySetResult
  <2>2. plyBusy' <=> plyBusy
    BY <1>7, Zenon DEF PlySetResult
  <2>3. plyLine \in Exports /\ PlyIsWritten
    BY <1>5, <2>1 DEF PlyCore, PlyNoLine, PlyUnwritten, PlyMeant
  <2>4. PlyIsWritten'
    BY <1>1, <1>6, <2>1, <2>2, <2>3 DEF PlyIsWritten
  <2> QED BY <1>1, <1>6, <2>3, <2>4 DEF PlyCore
<1>8. CASE PlyEnd
  <2>1. plyGl = "result" /\ plyGl' = "idle" /\ plyResult' = plyResult
    BY <1>8 DEF PlyEnd
  <2>2. ~plyBusy'
    BY <1>8, Zenon DEF PlyEnd
  <2>3. PlyNoLine => PlyNoLine'
    BY <1>1, <1>2, <2>1, <2>2 DEF PlyNoLine, PlyBase
  <2>4. PlyUnwritten => PlyUnwritten'
    BY <1>1, <1>2, <1>6, <2>1, <2>2 DEF PlyUnwritten, PlyBase
  <2>5. PlyIsWritten => PlyIsWritten'
    BY <1>1, <1>6, <2>1, <2>2 DEF PlyIsWritten
  <2> QED BY <1>1, <1>5, <1>6, <2>3, <2>4, <2>5 DEF PlyCore
<1> QED BY <1>7, <1>8

LEMMA PlyQueueStep ==
  ASSUME PlyQueueInv, PlyNext
  PROVE  PlyQueueInv'
<1>1. CASE PlyQueueDone \/ PlyMouse \/ PlyMenu \/ PlyOther \/ PlyGiveUp
  <2>1. plyLeft' \in BOOLEAN
    BY <1>1, Zenon DEF PlyQueueDone, PlyMouse, PlyMenu, PlyOther, PlyGiveUp, PlyQueueInv, PlyQueue
  <2>2. plyQueued' \in {"none", "queued", "done"}
    BY <1>1 DEF PlyQueueDone, PlyMouse, PlyMenu, PlyOther, PlyGiveUp, PlyQueueInv, PlyQueue
  <2>3. CASE PlyQueueDone \/ PlyMouse
    BY <2>1, <2>2, <2>3 DEF PlyQueueDone, PlyMouse, PlyQueueInv
  <2>4. CASE PlyMenu
    <3>1. plyLine' = plyLine
      BY <2>4 DEF PlyMenu
    <3>2. plyQueued' = "none" \/ plyLeft' \/ UNCHANGED PlyQueue
      BY <2>4, Zenon DEF PlyMenu
    <3> QED BY <2>1, <2>2, <3>1, <3>2 DEF PlyQueueInv, PlyQueue
  <2>5. CASE PlyOther
    BY <2>1, <2>2, <2>5 DEF PlyOther, PlyQueueInv, PlyQueue
  <2>6. CASE PlyGiveUp
    <3>1. plyQueued' = plyQueued /\ (plyQueued # "none" => plyLeft')
      BY <2>6, Zenon DEF PlyGiveUp
    <3> QED BY <2>1, <2>2, <3>1 DEF PlyQueueInv
  <2> QED BY <1>1, <2>3, <2>4, <2>5, <2>6
<1>2. CASE PlyView
  BY <1>2 DEF PlyView, PlyQueueInv
<1>3. CASE \E kind \in Exports \cup {"mouse"} : PlyParse(kind)
  BY <1>3 DEF PlyParse, PlyQueueInv, PlyQueue
<1>4. CASE PlyCall
  BY <1>4 DEF PlyCall, PlyQueueInv, PlyQueue, Exports
<1>5. CASE PlyAsk \/ PlyPrint \/ PlyExport \/ PlyWritten \/ PlySetResult \/ PlyEnd
  BY <1>5 DEF PlyAsk, PlyPrint, PlyExport, PlyWritten, PlySetResult, PlyEnd, PlyQueueInv, PlyQueue
<1> QED BY <1>1, <1>2, <1>3, <1>4, <1>5 DEF PlyNext

LEMMA PlyStepInv == PlyInv /\ [PlyNext]_plyVars => PlyInv'
<1> SUFFICES ASSUME PlyInv, [PlyNext]_plyVars PROVE PlyInv'
  OBVIOUS
<1>1. CASE UNCHANGED plyVars
  BY <1>1 DEF plyVars, PlyInv, PlyExportInv, PlyQueueInv, PlyFields, PlyCore, PlyDone, PlyNoLine,
     PlyUnwritten, PlyIsWritten, PlyMeant, PlyBase
<1>2. CASE PlyNext
  <2>1. PlyExportInv'
    BY <1>2, PlyParseStep, PlyQueueDoneStep, PlyQueuedSteps, PlyCallStep, PlyAskStep, PlyGiveUpStep,
       PlyMenuStep, PlyOtherStep, PlyPrintStep, PlyExportStep, PlyWrittenStep, PlyEndSteps
       DEF PlyInv, PlyNext
  <2> QED BY <1>2, <2>1, PlyQueueStep DEF PlyInv
<1> QED BY <1>1, <1>2

LEMMA PlyInvariant == PlySpec => []PlyInv
BY PlyInitInv, PlyStepInv, PTL DEF PlySpec

LEMMA PlyInvTypeOK == PlyInv => PlyTypeOK
<1> SUFFICES ASSUME PlyInv PROVE PlyTypeOK
  OBVIOUS
<1>1. PlyFields /\ plyStory \in PlyStories
  BY DEF PlyInv, PlyExportInv, PlyFields
<1>2. PlyQueueInv
  BY DEF PlyInv
<1> QED BY <1>1, <1>2 DEF PlyFields, PlyQueueInv, PlyStories, PlyTypeOK, PlyKinds, PlyFiles, Exports

LEMMA PlyInvHonest == PlyInv => PlyHonest
BY DEF PlyInv, PlyExportInv, PlyQueueInv, PlyCore, PlyDone, PlyHonest, Exports

-----------------------------------------------------------------------------
(***************************************************************************)
(* The serial output and the codes at the beginning of its lines.          *)
(***************************************************************************)
\* A value that is raised is a part of the line.
LEMMA NumberIs ==
  ASSUME NEW s \in Seq(SnifBytes)
  PROVE  SnifNumber(s) \subseteq Seq(SnifBytes)
<1> SUFFICES ASSUME NEW v \in SnifNumber(s) PROVE v \in Seq(SnifBytes)
  OBVIOUS
<1>1. PICK be \in (1..Len(s)) \X (1..Len(s)) : v = SubSeq(s, be[1], be[2])
  BY DEF SnifNumber
<1>2. be[1] \in 1..Len(s) /\ be[2] \in 1..Len(s)
  BY <1>1
<1>3. be[1] \in Int /\ be[2] \in Int /\ \A i \in be[1]..be[2] : s[i] \in SnifBytes
  BY <1>2
<1> QED BY <1>1, <1>3, SubSeqProperties

\* The line so far, from the text alone: it begins after the newline at n, and with k codes.
SnifInLine(n, k) ==
  /\ n \in 1..Len(snifText) /\ snifText[n] = "newline"
  /\ \A i \in (n + 1)..Len(snifText) : snifText[i] # "newline"
  /\ k \in 0..(Len(snifText) - n)
  /\ \A i \in (n + 1)..(n + k) : snifText[i] = "code"
  /\ n + k < Len(snifText) => snifText[n + k + 1] # "code"
  /\ snifNewLine <=> n + k = Len(snifText)
  /\ snifCapture <=> k > 0 /\ \A i \in (n + 1)..Len(snifText) : snifText[i] # "space"
  /\ snifCapture => snifLine = SubSeq(snifText, n + k + 1, Len(snifText))

SnifNoLine ==
  /\ \A i \in 1..Len(snifText) : snifText[i] # "newline"
  /\ ~snifNewLine /\ ~snifCapture

\* The flags and the line kept are what the text says, until a line without a number ends
\* the program.
SnifInv ==
  /\ snifNewLine \in BOOLEAN /\ snifCapture \in BOOLEAN /\ snifEnded \in BOOLEAN
  /\ snifLine \in Seq(SnifBytes) /\ snifOut \in Seq(SnifBytes)
  /\ snifText \in Seq(SnifBytes) /\ Len(snifText) <= SnifMaxBytes
  /\ ~snifEnded =>
       /\ SnifNoLine \/ \E n, k \in Nat : SnifInLine(n, k)
       /\ ~snifCapture => snifLine = <<>>

LEMMA SnifInvTypeOK == SnifInv => SnifTypeOK
<1> SUFFICES ASSUME SnifInv PROVE SnifTypeOK
  OBVIOUS
<1>1. {snifNewLine, snifCapture, snifEnded} \subseteq BOOLEAN
  BY Zenon DEF SnifInv
<1> QED BY <1>1 DEF SnifInv, SnifTypeOK

\* The line of the property is the line so far.
LEMMA SnifLineIs ==
  ASSUME SnifInv, NEW c \in SnifBytes, NEW n \in Nat, NEW k \in Nat, SnifInLine(n, k)
  PROVE  LET t == Append(snifText, c)
             l == SnifLineOf(t)
         IN  /\ l = SubSeq(snifText, n + 1, Len(snifText))
             /\ l \in Seq(SnifBytes) /\ Len(l) = Len(snifText) - n
             /\ \A i \in 1..Len(l) : l[i] = snifText[n + i]
             /\ "newline" \in ToSet(snifText)
<1> DEFINE t == Append(snifText, c)
           m == Len(snifText)
           Tail1(j) == SubSeq(t, j + 1, Len(t) - 1)
<1>1. /\ snifText \in Seq(SnifBytes) /\ m \in Nat /\ \A i \in 1..m : snifText[i] \in SnifBytes
      /\ n \in 1..m /\ snifText[n] = "newline"
      /\ \A i \in (n + 1)..m : snifText[i] # "newline"
  BY DEF SnifInv, SnifInLine
<1>2. /\ t \in Seq(SnifBytes) /\ Len(t) = m + 1 /\ t[m + 1] = c
      /\ \A i \in 1..m : t[i] = snifText[i]
  BY <1>1
<1> HIDE DEF t
<1>3. ASSUME NEW j \in 1..m
      PROVE  /\ Tail1(j) \in Seq(SnifBytes) /\ Len(Tail1(j)) = m - j
             /\ \A i \in 1..(m - j) : Tail1(j)[i] = snifText[j + i]
  <2>1. /\ j + 1 \in Int /\ Len(t) - 1 = m /\ m \in Int
        /\ \A i \in (j + 1)..m : t[i] \in SnifBytes
    BY <1>1, <1>2
  <2>2. /\ SubSeq(t, j + 1, m) \in Seq(SnifBytes)
        /\ Len(SubSeq(t, j + 1, m)) = IF j + 1 <= m THEN m - (j + 1) + 1 ELSE 0
        /\ \A i \in 1..(m - (j + 1) + 1) : SubSeq(t, j + 1, m)[i] = t[(j + 1) + i - 1]
    BY <2>1, SubSeqProperties
  <2>3. Tail1(j) = SubSeq(t, j + 1, m)
    BY <2>1
  <2>4. ASSUME NEW i \in 1..(m - j)
        PROVE  SubSeq(t, j + 1, m)[i] = snifText[j + i]
    <3>1. i \in 1..(m - (j + 1) + 1) /\ (j + 1) + i - 1 = j + i /\ j + i \in 1..m
      BY <1>1
    <3> QED BY <1>2, <2>2, <3>1
  <2> HIDE DEF Tail1
  <2> QED BY <1>1, <2>2, <2>3, <2>4
<1>4. ASSUME NEW j \in 1..m
      PROVE  ("newline" \notin ToSet(Tail1(j))) <=> \A i \in (j + 1)..m : snifText[i] # "newline"
  <2> DEFINE s == Tail1(j)
  <2>1. ToSet(s) = {s[i] : i \in DOMAIN s}
    BY DEF ToSet
  <2>2. DOMAIN s = 1..(m - j) /\ \A i \in 1..(m - j) : s[i] = snifText[j + i]
    <3> HIDE DEF Tail1
    <3> QED BY <1>3
  <2> HIDE DEF s
  <2>3. \A i \in (j + 1)..m : i - j \in 1..(m - j) /\ j + (i - j) = i
    BY <1>1
  <2>4. \A i \in 1..(m - j) : j + i \in (j + 1)..m
    BY <1>1
  <2>5. ("newline" \notin ToSet(s)) <=> \A i \in 1..(m - j) : snifText[j + i] # "newline"
    BY <2>1, <2>2
  <2> QED BY <2>3, <2>4, <2>5 DEF s
<1> DEFINE EndsLine(j) == t[j] = "newline" /\ "newline" \notin ToSet(Tail1(j))
<1>5. n \in 1..(Len(t) - 1) /\ EndsLine(n)
  BY <1>1, <1>2, <1>4
<1>6. ASSUME NEW j \in 1..(Len(t) - 1), EndsLine(j) PROVE j = n
  <2>1. j \in 1..m /\ snifText[j] = "newline"
    BY <1>1, <1>2, <1>6
  <2>2. \A i \in (j + 1)..m : snifText[i] # "newline"
    BY <1>4, <1>6, <2>1
  <2> QED BY <1>1, <2>1, <2>2
<1>7. SnifLineOf(t) = LET z == CHOOSE j \in 1..(Len(t) - 1) : EndsLine(j) IN Tail1(z)
  BY DEF SnifLineOf
<1> HIDE DEF EndsLine, Tail1
<1>8. (CHOOSE j \in 1..(Len(t) - 1) : EndsLine(j)) = n
  BY <1>5, <1>6
<1>9. SnifLineOf(t) = Tail1(n)
  BY <1>7, <1>8
<1>10. Tail1(n) = SubSeq(snifText, n + 1, m)
  <2>1. /\ SubSeq(snifText, n + 1, m) \in Seq(SnifBytes)
        /\ Len(SubSeq(snifText, n + 1, m)) = IF n + 1 <= m THEN m - (n + 1) + 1 ELSE 0
        /\ \A i \in 1..(m - (n + 1) + 1) : SubSeq(snifText, n + 1, m)[i] = snifText[(n + 1) + i - 1]
    <3>1. n + 1 \in Int /\ m \in Int /\ \A i \in (n + 1)..m : snifText[i] \in SnifBytes
      BY <1>1
    <3> HIDE DEF m
    <3> QED BY <3>1, SubSeqProperties
  <2> DEFINE u == SubSeq(snifText, n + 1, m)
             v == Tail1(n)
  <2>2. u \in Seq(SnifBytes) /\ v \in Seq(SnifBytes) /\ Len(u) = m - n /\ Len(v) = m - n
    BY <1>1, <1>3, <2>1
  <2>3. ASSUME NEW i \in 1..(m - n) PROVE u[i] = v[i]
    <3>1. i \in 1..(m - (n + 1) + 1) /\ (n + 1) + i - 1 = n + i
      BY <1>1
    <3> QED BY <1>1, <1>3, <2>1, <3>1
  <2> HIDE DEF u, v
  <2>4. u = v
    BY <1>1, <2>2, <2>3
  <2> QED BY <2>4 DEF u, v
<1>11. "newline" \in ToSet(snifText)
  BY <1>1 DEF ToSet
<1> QED BY <1>1, <1>3, <1>9, <1>10, <1>11 DEF t

LEMMA SnifInitInv == SnifInit => SnifInv
<1> SUFFICES ASSUME SnifInit PROVE SnifInv
  OBVIOUS
<1>1. /\ snifNewLine = FALSE /\ snifCapture = FALSE /\ snifLine = <<>>
      /\ snifOut = <<>> /\ snifEnded = FALSE /\ snifText = <<>>
  BY DEF SnifInit
<1>2. Len(snifText) = 0 /\ Len(snifLine) = 0 /\ SnifMaxBytes \in Nat
  BY <1>1, GCodeSnifferAssumption
<1>3. SnifNoLine
  BY <1>1, <1>2 DEF SnifNoLine
<1>4. /\ snifNewLine \in BOOLEAN /\ snifCapture \in BOOLEAN /\ snifEnded \in BOOLEAN
  BY <1>1
<1> QED BY <1>1, <1>2, <1>3, <1>4 DEF SnifInv

\* The text with the byte that came.
LEMMA SnifTextGrows ==
  ASSUME SnifInv, NEW c \in SnifBytes, snifText' = Append(snifText, c)
  PROVE  /\ Len(snifText) \in Nat /\ Len(snifText') = Len(snifText) + 1
         /\ snifText' \in Seq(SnifBytes)
         /\ snifText'[Len(snifText) + 1] = c
         /\ \A i \in 1..Len(snifText) : snifText'[i] = snifText[i]
BY DEF SnifInv

\* A newline begins a line.
LEMMA SnifLineBegins ==
  ASSUME SnifInv, snifText' = Append(snifText, "newline"), snifNewLine' = TRUE,
         snifCapture' = FALSE
  PROVE  \E n, k \in Nat : SnifInLine(n, k)'
<1>1. "newline" \in SnifBytes
  BY DEF SnifBytes
<1>2. /\ Len(snifText) \in Nat /\ Len(snifText') = Len(snifText) + 1
      /\ snifText'[Len(snifText) + 1] = "newline"
  BY <1>1, SnifTextGrows
<1>3. PICK n \in Nat : n = Len(snifText')
  BY <1>2
<1>4. snifText'[n] = "newline" /\ n >= 1
  BY <1>2, <1>3
<1>5. SnifInLine(n, 0)'
  BY <1>3, <1>4 DEF SnifInLine
<1> QED BY <1>5

\* What is left after the code, with one byte more.
LEMMA SnifRestGrows ==
  ASSUME NEW t \in Seq(SnifBytes), NEW c \in SnifBytes, NEW j \in 1..(Len(t) + 1)
  PROVE  SubSeq(Append(t, c), j, Len(t) + 1) = Append(SubSeq(t, j, Len(t)), c)
OBVIOUS

LEMMA SnifCodeStep ==
  ASSUME SnifInv, ~snifEnded, Len(snifText) < SnifMaxBytes, NEW c \in SnifBytes,
         snifText' = Append(snifText, c), SnifCode(c)
  PROVE  SnifInv'
<1> DEFINE m == Len(snifText)
<1>1. /\ m \in Nat /\ Len(snifText') = m + 1 /\ snifText' \in Seq(SnifBytes)
      /\ snifText'[m + 1] = c /\ \A i \in 1..m : snifText'[i] = snifText[i]
  BY SnifTextGrows
<1>2. /\ snifNewLine /\ c = "code" /\ snifCapture' = TRUE /\ snifNewLine' = snifNewLine
      /\ snifLine' = snifLine /\ snifOut' = snifOut /\ snifEnded' = snifEnded
  BY DEF SnifCode
<1>3. PICK n \in Nat, k \in Nat : SnifInLine(n, k)
  BY <1>2 DEF SnifInv, SnifNoLine
<1>4. n + k = m /\ n >= 1
  BY <1>2, <1>3 DEF SnifInLine
<1>5. snifLine = <<>>
  <2>1. CASE snifCapture
    BY <1>1, <1>3, <1>4, <2>1 DEF SnifInLine, SnifInv
  <2>2. CASE ~snifCapture
    BY <2>2 DEF SnifInv
  <2> QED BY <2>1, <2>2
<1>6. /\ n \in 1..m /\ snifText[n] = "newline"
      /\ \A i \in (n + 1)..m : snifText[i] # "newline"
      /\ \A i \in (n + 1)..m : snifText[i] = "code"
  BY <1>3, <1>4 DEF SnifInLine
<1>7. snifLine' = SubSeq(snifText', n + (k + 1) + 1, Len(snifText'))
  <2>1. n + (k + 1) + 1 = m + 2
    BY <1>4
  <2>2. SubSeq(snifText', m + 2, m + 1) = <<>>
    BY <1>1
  <2> QED BY <1>1, <1>2, <1>5, <2>1, <2>2
<1> HIDE DEF m
<1>8. \A i \in (n + 1)..(m + 1) : snifText'[i] = "code"
  BY <1>1, <1>2, <1>6
<1>9. SnifInLine(n, k + 1)'
  <2>1. n \in 1..Len(snifText') /\ snifText'[n] = "newline"
    BY <1>1, <1>6
  <2>2. \A i \in (n + 1)..Len(snifText') : snifText'[i] # "newline" /\ snifText'[i] # "space"
    BY <1>1, <1>8
  <2>3. k + 1 \in 0..(Len(snifText') - n) /\ n + (k + 1) = Len(snifText') /\ k + 1 > 0
    BY <1>1, <1>4
  <2>4. \A i \in (n + 1)..(n + (k + 1)) : snifText'[i] = "code"
    BY <1>1, <1>8, <2>3
  <2> QED BY <1>2, <1>7, <2>1, <2>2, <2>3, <2>4 DEF SnifInLine
<1>10. k + 1 \in Nat
  BY <1>3
<1>11. \E a, b \in Nat : SnifInLine(a, b)'
  BY <1>3, <1>9, <1>10
<1>12. snifLine' \in Seq(SnifBytes) /\ snifOut' \in Seq(SnifBytes)
  BY <1>2 DEF SnifInv
<1>13. snifNewLine' \in BOOLEAN /\ snifCapture' \in BOOLEAN /\ snifEnded' \in BOOLEAN
  <2>1. snifNewLine \in BOOLEAN /\ snifEnded \in BOOLEAN
    BY DEF SnifInv
  <2> QED BY <1>2, <2>1, Zenon
<1>14. Len(snifText') <= SnifMaxBytes
  BY <1>1, GCodeSnifferAssumption DEF m
<1> QED BY <1>1, <1>2, <1>11, <1>12, <1>13, <1>14 DEF SnifInv

\* A byte that is no newline and continues no codes leaves the line and its codes.
LEMMA SnifLineGoesOn ==
  ASSUME SnifInv, NEW c \in SnifBytes, snifText' = Append(snifText, c),
         NEW n \in Nat, NEW k \in Nat, SnifInLine(n, k),
         c # "newline", ~(snifNewLine /\ c = "code"),
         snifNewLine' = FALSE, snifCapture' \in BOOLEAN,
         snifCapture' <=> snifCapture /\ c # "space",
         snifCapture' => snifLine' = Append(snifLine, c)
  PROVE  SnifInLine(n, k)'
<1> DEFINE m == Len(snifText)
<1>1. /\ m \in Nat /\ Len(snifText') = m + 1 /\ snifText' \in Seq(SnifBytes)
      /\ snifText'[m + 1] = c /\ \A i \in 1..m : snifText'[i] = snifText[i]
  BY SnifTextGrows
<1>2. /\ n \in 1..m /\ snifText[n] = "newline" /\ k \in 0..(m - n)
      /\ \A i \in (n + 1)..m : snifText[i] # "newline"
      /\ \A i \in (n + 1)..(n + k) : snifText[i] = "code"
      /\ n + k < m => snifText[n + k + 1] # "code"
      /\ snifNewLine <=> n + k = m
      /\ snifCapture <=> k > 0 /\ \A i \in (n + 1)..m : snifText[i] # "space"
      /\ snifCapture => snifLine = SubSeq(snifText, n + k + 1, m)
  BY DEF SnifInLine
<1>3. snifCapture' => snifLine' = SubSeq(snifText', n + k + 1, Len(snifText'))
  <2> SUFFICES ASSUME snifCapture'
               PROVE  snifLine' = SubSeq(snifText', n + k + 1, Len(snifText'))
    OBVIOUS
  <2>1. snifLine = SubSeq(snifText, n + k + 1, m)
    BY <1>2
  <2>2. n + k + 1 \in 1..(m + 1) /\ snifText \in Seq(SnifBytes)
    BY <1>1, <1>2 DEF SnifInv
  <2>3. SubSeq(Append(snifText, c), n + k + 1, m + 1) = Append(SubSeq(snifText, n + k + 1, m), c)
    BY <2>2, SnifRestGrows
  <2> QED BY <1>1, <2>1, <2>3
<1> HIDE DEF m
<1>4. n \in 1..Len(snifText') /\ snifText'[n] = "newline" /\ k \in 0..(Len(snifText') - n)
  BY <1>1, <1>2
<1>5. \A i \in (n + 1)..Len(snifText') : snifText'[i] # "newline"
  BY <1>1, <1>2
<1>6. \A i \in (n + 1)..(n + k) : snifText'[i] = "code"
  BY <1>1, <1>2
<1>7. n + k < Len(snifText') => snifText'[n + k + 1] # "code"
  <2>1. CASE n + k < m
    BY <1>1, <1>2, <2>1
  <2>2. CASE n + k = m
    <3>1. snifNewLine
      BY <1>2, <2>2
    <3> QED BY <1>1, <2>2, <3>1
  <2>3. n + k < m \/ n + k = m
    <3>1. m \in Nat /\ n \in 1..m /\ k \in 0..(m - n)
      BY <1>1, <1>2
    <3> QED BY <3>1
  <2> QED BY <2>1, <2>2, <2>3
<1>8. n + k # Len(snifText')
  BY <1>1, <1>2
<1>9. snifCapture' <=> k > 0 /\ \A i \in (n + 1)..Len(snifText') : snifText'[i] # "space"
  <2>1. (\A i \in (n + 1)..Len(snifText') : snifText'[i] # "space")
          <=> c # "space" /\ \A i \in (n + 1)..m : snifText[i] # "space"
    BY <1>1, <1>2
  <2> QED BY <1>2, <2>1
<1> QED BY <1>3, <1>4, <1>5, <1>6, <1>7, <1>8, <1>9 DEF SnifInLine

LEMMA SnifByteStep ==
  ASSUME SnifInv, ~snifEnded, Len(snifText) < SnifMaxBytes, NEW c \in SnifBytes,
         snifText' = Append(snifText, c), SnifByte(c)
  PROVE  SnifInv'
<1> DEFINE m == Len(snifText)
<1>1. /\ m \in Nat /\ Len(snifText') = m + 1 /\ snifText' \in Seq(SnifBytes)
      /\ snifText'[m + 1] = c /\ \A i \in 1..m : snifText'[i] = snifText[i]
  BY SnifTextGrows
<1>2. /\ ~(snifNewLine /\ c = "code") /\ snifNewLine' = (c = "newline") /\ ~snifCapture
      /\ snifCapture' = snifCapture
      /\ snifLine' = snifLine /\ snifOut' = snifOut /\ snifEnded' = snifEnded
  BY DEF SnifByte
<1>3. ~snifCapture' /\ snifCapture' = FALSE
  <2>1. snifCapture \in BOOLEAN
    BY DEF SnifInv
  <2> QED BY <1>2, <2>1
<1>4. SnifNoLine' \/ \E a, b \in Nat : SnifInLine(a, b)'
  <2>1. CASE c = "newline"
    <3>1. snifNewLine' = TRUE
      BY <1>2, <2>1
    <3> QED BY <1>3, <2>1, <3>1, SnifLineBegins
  <2>2. CASE c # "newline" /\ SnifNoLine
    <3>1. ~snifNewLine'
      BY <1>2, <2>2
    <3> QED BY <1>1, <1>3, <2>2, <3>1 DEF SnifNoLine
  <2>3. CASE c # "newline" /\ \E n, k \in Nat : SnifInLine(n, k)
    <3>1. PICK n \in Nat, k \in Nat : SnifInLine(n, k)
      BY <2>3
    <3>2. snifNewLine' = FALSE
      BY <1>2, <2>3
    <3>3. SnifInLine(n, k)'
      BY <1>2, <1>3, <2>3, <3>1, <3>2, SnifLineGoesOn
    <3> QED BY <3>1, <3>3
  <2> QED BY <2>1, <2>2, <2>3 DEF SnifInv
<1>5. snifLine' \in Seq(SnifBytes) /\ snifOut' \in Seq(SnifBytes) /\ snifLine' = <<>>
  BY <1>2 DEF SnifInv
<1>6. snifNewLine' \in BOOLEAN /\ snifCapture' \in BOOLEAN /\ snifEnded' \in BOOLEAN
  <2>1. snifEnded \in BOOLEAN
    BY DEF SnifInv
  <2> QED BY <1>2, <1>3, <2>1, Zenon
<1>7. Len(snifText') <= SnifMaxBytes
  BY <1>1, GCodeSnifferAssumption
<1> QED BY <1>1, <1>4, <1>5, <1>6, <1>7 DEF SnifInv

LEMMA SnifDigitStep ==
  ASSUME SnifInv, ~snifEnded, Len(snifText) < SnifMaxBytes, NEW c \in SnifBytes,
         snifText' = Append(snifText, c), SnifDigit(c)
  PROVE  SnifInv'
<1> DEFINE m == Len(snifText)
<1>1. /\ m \in Nat /\ Len(snifText') = m + 1 /\ snifText' \in Seq(SnifBytes)
      /\ Len(snifText') <= SnifMaxBytes
  BY SnifTextGrows, GCodeSnifferAssumption
<1>2. ~(snifNewLine /\ c = "code") /\ snifNewLine' = (c = "newline") /\ snifCapture
  BY DEF SnifDigit
<1>3. PICK n \in Nat, k \in Nat : SnifInLine(n, k)
  BY <1>2 DEF SnifInv, SnifNoLine
<1>4. snifNewLine' \in BOOLEAN
  BY <1>2
<1>5. CASE c \notin {"space", "newline"}
  <2>1. /\ snifLine' = Append(snifLine, c) /\ snifCapture' = snifCapture
        /\ snifOut' = snifOut /\ snifEnded' = snifEnded
    BY <1>5 DEF SnifDigit
  <2>2. snifNewLine' = FALSE /\ snifCapture' = TRUE
    <3>1. snifCapture \in BOOLEAN
      BY DEF SnifInv
    <3> QED BY <1>2, <1>5, <2>1, <3>1
  <2>3. SnifInLine(n, k)'
    BY <1>2, <1>3, <1>5, <2>1, <2>2, SnifLineGoesOn
  <2>4. /\ snifLine \in Seq(SnifBytes)
        /\ snifOut \in Seq(SnifBytes) /\ snifEnded \in BOOLEAN
    BY DEF SnifInv
  <2>5. snifLine' \in Seq(SnifBytes)
    BY <2>1, <2>4
  <2>6. \E a, b \in Nat : SnifInLine(a, b)'
    BY <1>3, <2>3
  <2>7. snifEnded' \in BOOLEAN /\ snifCapture' \in BOOLEAN
    BY <2>1, <2>2, <2>4, Zenon
  <2> QED BY <1>1, <1>4, <2>1, <2>2, <2>4, <2>5, <2>6, <2>7 DEF SnifInv
<1>6. CASE c \in {"space", "newline"}
  <2>1. snifCapture' = FALSE
    BY <1>6 DEF SnifDigit
  <2>2. \E a, b \in Nat : SnifInLine(a, b)'
    <3>1. CASE c = "newline"
      <4>1. snifNewLine' = TRUE
        BY <1>2, <3>1
      <4> QED BY <2>1, <3>1, <4>1, SnifLineBegins
    <3>2. CASE c = "space"
      <4>1. snifNewLine' = FALSE /\ c # "newline" /\ c # "code"
        BY <1>2, <3>2
      <4>2. snifCapture' \in BOOLEAN /\ (snifCapture' <=> snifCapture /\ c # "space")
        BY <2>1, <3>2
      <4>3. snifCapture' => snifLine' = Append(snifLine, c)
        BY <2>1
      <4>4. SnifInLine(n, k)'
        BY <1>3, <4>1, <4>2, <4>3, SnifLineGoesOn
      <4> QED BY <1>3, <4>4
    <3> QED BY <1>6, <3>1, <3>2
  <2>3. CASE SnifNumber(snifLine) = {}
    <3>1. snifEnded' = TRUE /\ snifLine' = snifLine /\ snifOut' = snifOut
      BY <1>6, <2>3 DEF SnifDigit
    <3>2. snifLine' \in Seq(SnifBytes) /\ snifOut' \in Seq(SnifBytes)
      BY <3>1 DEF SnifInv
    <3>3. snifEnded' \in BOOLEAN /\ snifCapture' \in BOOLEAN
      BY <2>1, <3>1
    <3> QED BY <1>1, <1>4, <3>1, <3>2, <3>3 DEF SnifInv
  <2>4. CASE SnifNumber(snifLine) # {}
    <3>1. snifEnded' = snifEnded /\ snifLine' = <<>> /\ snifOut' \in SnifNumber(snifLine)
      BY <1>6, <2>4 DEF SnifDigit
    <3>2. snifLine \in Seq(SnifBytes) /\ snifEnded \in BOOLEAN
      BY DEF SnifInv
    <3>3. snifOut' \in Seq(SnifBytes)
      BY <3>1, <3>2, NumberIs
    <3>4. snifEnded' \in BOOLEAN /\ snifCapture' \in BOOLEAN
      BY <2>1, <3>1, <3>2, Zenon
    <3> QED BY <1>1, <1>4, <2>2, <3>1, <3>3, <3>4 DEF SnifInv
  <2> QED BY <2>3, <2>4
<1> QED BY <1>5, <1>6

LEMMA SnifStepInv == SnifInv /\ [SnifNext]_snifVars => SnifInv'
<1> SUFFICES ASSUME SnifInv, [SnifNext]_snifVars PROVE SnifInv'
  OBVIOUS
<1>1. CASE SnifNext
  <2>1. PICK c \in SnifBytes : SnifOnByteIn(c)
    BY <1>1 DEF SnifNext
  <2>2. ~snifEnded /\ Len(snifText) < SnifMaxBytes /\ snifText' = Append(snifText, c)
    BY <2>1 DEF SnifOnByteIn
  <2>3. CASE SnifCode(c)
    BY <2>2, <2>3, SnifCodeStep
  <2>4. CASE SnifByte(c)
    BY <2>2, <2>4, SnifByteStep
  <2>5. CASE SnifDigit(c)
    BY <2>2, <2>5, SnifDigitStep
  <2> QED BY <2>1, <2>3, <2>4, <2>5 DEF SnifOnByteIn
<1>2. CASE UNCHANGED snifVars
  <2>1. /\ snifNewLine' = snifNewLine /\ snifCapture' = snifCapture /\ snifLine' = snifLine
        /\ snifOut' = snifOut /\ snifEnded' = snifEnded /\ snifText' = snifText
    BY <1>2 DEF snifVars
  <2>2. SnifNoLine' <=> SnifNoLine
    BY <2>1 DEF SnifNoLine
  <2>3. ASSUME NEW n \in Nat, NEW k \in Nat PROVE SnifInLine(n, k)' <=> SnifInLine(n, k)
    BY <2>1 DEF SnifInLine
  <2>4. (\E n, k \in Nat : SnifInLine(n, k)) => \E n, k \in Nat : SnifInLine(n, k)'
    BY <2>3
  <2> QED BY <2>1, <2>2, <2>4, Zenon DEF SnifInv
<1> QED BY <1>1, <1>2

LEMMA SnifInvariant == SnifSpec => []SnifInv
BY SnifInitInv, SnifStepInv, PTL DEF SnifSpec

\* The property's line begins with a code exactly while the program captures.
LEMMA FirstIsCaptured ==
  ASSUME SnifInv, NEW c \in SnifBytes, NEW n \in Nat, NEW k \in Nat, SnifInLine(n, k)
  PROVE  LET l == SnifLineOf(Append(snifText, c))
         IN  snifCapture <=> l # <<>> /\ l[1] = "code" /\ "space" \notin ToSet(l)
<1> DEFINE l == SnifLineOf(Append(snifText, c))
           m == Len(snifText)
<1>1. /\ l \in Seq(SnifBytes) /\ Len(l) = m - n /\ m \in Nat
      /\ \A i \in 1..Len(l) : l[i] = snifText[n + i]
  <2>1. /\ l \in Seq(SnifBytes) /\ Len(l) = m - n
        /\ \A i \in 1..Len(l) : l[i] = snifText[n + i]
    BY SnifLineIs
  <2>2. m \in Nat
    BY DEF SnifInv
  <2> QED BY <2>1, <2>2
<1> HIDE DEF l
<1>2. /\ n \in 1..m /\ k \in 0..(m - n)
      /\ \A i \in (n + 1)..(n + k) : snifText[i] = "code"
      /\ n + k < m => snifText[n + k + 1] # "code"
      /\ snifCapture <=> k > 0 /\ \A i \in (n + 1)..m : snifText[i] # "space"
  BY DEF SnifInLine
<1>3. "space" \notin ToSet(l) <=> \A i \in (n + 1)..m : snifText[i] # "space"
  <2> HIDE DEF m
  <2>0. DOMAIN l = 1..Len(l)
    <3>1. l \in Seq(SnifBytes)
      BY <1>1
    <3> QED BY <3>1
  <2>1. ToSet(l) = {l[i] : i \in 1..Len(l)}
    BY ONLY <2>0, Zenon DEF ToSet
  <2>2. "space" \notin ToSet(l) <=> \A i \in 1..(m - n) : snifText[n + i] # "space"
    BY <1>1, <2>1
  <2>3. \A i \in (n + 1)..m : i - n \in 1..(m - n) /\ n + (i - n) = i
    BY <1>1, <1>2
  <2>4. \A i \in 1..(m - n) : n + i \in (n + 1)..m
    BY <1>1, <1>2
  <2> QED BY <2>2, <2>3, <2>4
<1>4. k > 0 <=> l # <<>> /\ l[1] = "code"
  <2>1. CASE k > 0
    <3>1. 1 \in 1..Len(l) /\ n + 1 \in (n + 1)..(n + k)
      BY <1>1, <1>2, <2>1
    <3> QED BY <1>1, <1>2, <2>1, <3>1
  <2>2. CASE k = 0 /\ n < m
    <3>1. 1 \in 1..Len(l) /\ n + k + 1 = n + 1 /\ n + k < m
      BY <1>1, <1>2, <2>2
    <3> QED BY <1>1, <1>2, <2>2, <3>1
  <2>3. CASE k = 0 /\ n = m
    <3>1. l = <<>>
      BY <1>1, <1>2, <2>3
    <3> QED BY <2>3, <3>1
  <2> QED BY <1>2, <2>1, <2>2, <2>3
<1> QED BY <1>2, <1>3, <1>4 DEF l

\* The property's number is the number of the line kept.
LEMMA ExpectedIsKept ==
  ASSUME SnifInv, NEW c \in SnifBytes, NEW n \in Nat, NEW k \in Nat, SnifInLine(n, k), snifCapture
  PROVE  SnifExpected(Append(snifText, c)) = SnifNumber(snifLine)
<1> DEFINE l == SnifLineOf(Append(snifText, c))
           m == Len(snifText)
           Codes(i) == /\ \A j \in 1..i : l[j] = "code"
                       /\ i < Len(l) => l[i + 1] # "code"
<1>1. /\ l = SubSeq(snifText, n + 1, m)
      /\ l \in Seq(SnifBytes) /\ Len(l) = m - n /\ m \in Nat
      /\ \A i \in 1..Len(l) : l[i] = snifText[n + i]
  BY SnifLineIs DEF SnifInv
<1> HIDE DEF l
<1>2. /\ n \in 1..m /\ k \in 0..(m - n)
      /\ \A i \in (n + 1)..(n + k) : snifText[i] = "code"
      /\ n + k < m => snifText[n + k + 1] # "code"
      /\ snifLine = SubSeq(snifText, n + k + 1, m)
  BY DEF SnifInLine
<1>3. k \in 0..Len(l) /\ Codes(k)
  <2>1. \A j \in 1..k : n + j \in (n + 1)..(n + k) /\ j \in 1..Len(l)
    BY <1>1, <1>2
  <2>2. \A j \in 1..k : l[j] = "code"
    BY <1>1, <1>2, <2>1
  <2>3. k < Len(l) => l[k + 1] # "code"
    <3>1. SUFFICES ASSUME k < Len(l) PROVE l[k + 1] # "code"
      OBVIOUS
    <3>2. k + 1 \in 1..Len(l) /\ n + (k + 1) = n + k + 1 /\ n + k < m
      BY <1>1, <1>2, <3>1
    <3> QED BY <1>1, <1>2, <3>2
  <2> QED BY <1>1, <1>2, <2>2, <2>3
<1>4. ASSUME NEW i \in 0..Len(l), Codes(i) PROVE i = k
  <2>1. i < k => FALSE
    <3> SUFFICES ASSUME i < k PROVE FALSE
      OBVIOUS
    <3>1. i < Len(l) /\ i + 1 \in 1..k
      BY <1>3
    <3> QED BY <1>3, <1>4, <3>1
  <2>2. k < i => FALSE
    <3> SUFFICES ASSUME k < i PROVE FALSE
      OBVIOUS
    <3>1. k < Len(l) /\ k + 1 \in 1..i
      BY <1>1, <1>3
    <3> QED BY <1>3, <1>4, <3>1
  <2> QED BY <1>1, <1>3, <2>1, <2>2
<1>5. SnifExpected(Append(snifText, c))
        = LET z == CHOOSE i \in 0..Len(l) : Codes(i) IN SnifNumber(SubSeq(l, z + 1, Len(l)))
  BY DEF SnifExpected, l
<1> HIDE DEF Codes
<1>6. (CHOOSE i \in 0..Len(l) : Codes(i)) = k
  BY <1>3, <1>4
<1>7. SubSeq(l, k + 1, Len(l)) = snifLine
  <2>1. /\ SubSeq(l, k + 1, Len(l)) \in Seq(SnifBytes)
        /\ Len(SubSeq(l, k + 1, Len(l))) = m - n - k
        /\ \A i \in 1..(m - n - k) : SubSeq(l, k + 1, Len(l))[i] = snifText[n + k + i]
    <3>1. /\ k + 1 \in Int /\ Len(l) \in Int /\ \A i \in (k + 1)..Len(l) : l[i] \in SnifBytes
      BY <1>1, <1>2
    <3>2. /\ SubSeq(l, k + 1, Len(l)) \in Seq(SnifBytes)
          /\ Len(SubSeq(l, k + 1, Len(l))) = IF k + 1 <= Len(l) THEN Len(l) - (k + 1) + 1 ELSE 0
          /\ \A i \in 1..(Len(l) - (k + 1) + 1) :
               SubSeq(l, k + 1, Len(l))[i] = l[(k + 1) + i - 1]
      BY <3>1, SubSeqProperties
    <3>3. ASSUME NEW i \in 1..(m - n - k)
          PROVE  SubSeq(l, k + 1, Len(l))[i] = snifText[n + k + i]
      <4>1. /\ i \in 1..(Len(l) - (k + 1) + 1) /\ (k + 1) + i - 1 = k + i
            /\ k + i \in 1..Len(l) /\ n + (k + i) = n + k + i
        BY <1>1, <1>2
      <4> QED BY <1>1, <3>2, <4>1
    <3> QED BY <1>1, <1>2, <3>2, <3>3
  <2>2. /\ snifLine \in Seq(SnifBytes) /\ Len(snifLine) = m - n - k
        /\ \A i \in 1..(m - n - k) : snifLine[i] = snifText[n + k + i]
    <3>1. /\ n + k + 1 \in Int /\ m \in Int /\ \A i \in (n + k + 1)..m : snifText[i] \in SnifBytes
      BY <1>1, <1>2 DEF SnifInv
    <3> HIDE DEF m
    <3>2. /\ snifLine \in Seq(SnifBytes)
          /\ Len(snifLine) = IF n + k + 1 <= m THEN m - (n + k + 1) + 1 ELSE 0
          /\ \A i \in 1..(m - (n + k + 1) + 1) : snifLine[i] = snifText[(n + k + 1) + i - 1]
      BY <1>2, <3>1, SubSeqProperties
    <3>3. ASSUME NEW i \in 1..(m - n - k)
          PROVE  snifLine[i] = snifText[n + k + i]
      <4>1. i \in 1..(m - (n + k + 1) + 1) /\ (n + k + 1) + i - 1 = n + k + i
        BY <1>1, <1>2
      <4> QED BY <3>2, <4>1
    <3> QED BY <1>1, <1>2, <3>2, <3>3
  <2> DEFINE u == SubSeq(l, k + 1, Len(l))
  <2>3. /\ u \in Seq(SnifBytes) /\ Len(u) = m - n - k
        /\ \A i \in 1..(m - n - k) : u[i] = snifText[n + k + i]
    BY <2>1
  <2> HIDE DEF u
  <2>4. u = snifLine
    BY <2>2, <2>3
  <2> QED BY <2>4 DEF u
<1> QED BY <1>5, <1>6, <1>7

\* The step of SnifFaithful.
SnifFaithfulStep ==
  snifText' # snifText =>
    LET t == snifText'
        ends == t[Len(t)] \in {"space", "newline"}
        begun == "newline" \in ToSet(snifText)
        first == begun /\ SnifLineOf(t) # <<>> /\ SnifLineOf(t)[1] = "code"
                   /\ "space" \notin ToSet(SnifLineOf(t))
    IN IF ends /\ first
       THEN IF SnifExpected(t) = {} THEN snifEnded' ELSE snifOut' \in SnifExpected(t) /\ ~snifEnded'
       ELSE UNCHANGED <<snifOut, snifEnded>>

LEMMA SnifStepFaithful == SnifInv /\ [SnifNext]_snifVars => SnifFaithfulStep
<1> SUFFICES ASSUME SnifInv, [SnifNext]_snifVars, snifText' # snifText PROVE SnifFaithfulStep
  BY DEF SnifFaithfulStep
<1>1. SnifNext
  BY DEF snifVars
<1>2. PICK c \in SnifBytes : SnifOnByteIn(c)
  BY <1>1 DEF SnifNext
<1>3. ~snifEnded /\ snifText' = Append(snifText, c) /\ (SnifCode(c) \/ SnifByte(c) \/ SnifDigit(c))
  BY <1>2 DEF SnifOnByteIn
<1>4. snifText'[Len(snifText')] = c
  BY <1>3, SnifTextGrows
<1> DEFINE t == Append(snifText, c)
           first == /\ "newline" \in ToSet(snifText) /\ SnifLineOf(t) # <<>>
                    /\ SnifLineOf(t)[1] = "code" /\ "space" \notin ToSet(SnifLineOf(t))
\* The line begins with a code exactly while the program captures.
<1>5. first <=> snifCapture
  <2>1. CASE SnifNoLine
    <3>1. "newline" \notin ToSet(snifText)
      BY <2>1 DEF SnifNoLine, ToSet, SnifInv
    <3>2. ~snifCapture
      BY <2>1 DEF SnifNoLine
    <3> QED BY <3>1, <3>2
  <2>2. CASE \E n, k \in Nat : SnifInLine(n, k)
    <3>1. PICK n \in Nat, k \in Nat : SnifInLine(n, k)
      BY <2>2
    <3>2. "newline" \in ToSet(snifText)
      BY <3>1, SnifLineIs
    <3>3. snifCapture <=> /\ SnifLineOf(t) # <<>> /\ SnifLineOf(t)[1] = "code"
                          /\ "space" \notin ToSet(SnifLineOf(t))
      BY <3>1, FirstIsCaptured
    <3> QED BY <3>2, <3>3
  <2> QED BY <1>3, <2>1, <2>2 DEF SnifInv
<1> HIDE DEF first
<1>6. CASE c \in {"space", "newline"} /\ first
  <2>1. SnifDigit(c) /\ snifCapture
    <3>1. snifCapture /\ c # "code"
      BY <1>5, <1>6
    <3> QED BY <1>3, <3>1 DEF SnifCode, SnifByte
  <2>2. PICK n \in Nat, k \in Nat : SnifInLine(n, k)
    BY <1>3, <2>1 DEF SnifInv, SnifNoLine
  <2>3. SnifExpected(t) = SnifNumber(snifLine)
    BY <2>1, <2>2, ExpectedIsKept
  <2>4. IF SnifNumber(snifLine) = {} THEN snifEnded'
        ELSE snifOut' \in SnifNumber(snifLine) /\ ~snifEnded'
    <3>1. CASE SnifNumber(snifLine) = {}
      BY <1>6, <2>1, <3>1 DEF SnifDigit
    <3>2. CASE SnifNumber(snifLine) # {}
      <4>1. snifOut' \in SnifNumber(snifLine) /\ snifEnded' = snifEnded
        BY <1>6, <2>1, <3>2 DEF SnifDigit
      <4> QED BY <1>3, <3>2, <4>1
    <3> QED BY <3>1, <3>2
  <2>5. IF SnifExpected(t) = {} THEN snifEnded' ELSE snifOut' \in SnifExpected(t) /\ ~snifEnded'
    BY <2>3, <2>4
  <2> QED BY <1>3, <1>4, <1>6, <2>5 DEF SnifFaithfulStep, first
<1>7. CASE ~(c \in {"space", "newline"} /\ first)
  <2>1. UNCHANGED <<snifOut, snifEnded>>
    <3>1. CASE SnifCode(c)
      BY <3>1 DEF SnifCode
    <3>2. CASE SnifByte(c)
      BY <3>2 DEF SnifByte
    <3>3. CASE SnifDigit(c)
      <4>1. c \notin {"space", "newline"}
        BY <1>5, <1>7, <3>3 DEF SnifDigit
      <4> QED BY <3>3, <4>1 DEF SnifDigit
    <3> QED BY <1>3, <3>1, <3>2, <3>3
  <2> QED BY <1>3, <1>4, <1>7, <2>1 DEF SnifFaithfulStep, first
<1> QED BY <1>6, <1>7

-----------------------------------------------------------------------------
(***************************************************************************)
(* The theorems.                                                          *)
(***************************************************************************)
\* What a script finds is what the window shows, for any size of the display and any bytes.
THEOREM ScriptReadsTheScreen == LcdSpec => [](LcdTypeOK /\ LcdMirror)
<1>1. LcdInv => LcdTypeOK /\ LcdMirror
  BY LcdInvTypeOK DEF LcdInv, LcdMemoryInv
<1> QED BY <1>1, LcdInvariant, PTL

\* The power-on sequence brings the display into step with the firmware from any state but one:
\* a display that was busy when the AVR was reset has lost the timer that clears BUSY, and
\* drops every half from then on; no other step leaves it so (OnBusyTimeout and OnEPin of
\* HD44780.cpp, RunAVR of Board.cpp).
THEOREM PowerOnBringsInStep == LcdSpec => []LcdInSync
BY LcdInvInSync, LcdInvariant, PTL

\* A wait does not sleep while its text is shown on a line that no earlier wait used up.
THEOREM WaitFindsItsText == LcdSpec => []LcdWaitFinds
BY LcdInvWaitFinds, LcdInvariant, PTL

\* A line that waits on the serial lines is answered for itself, by what was printed since it
\* asked (SerialLineMonitor.cpp).
THEOREM MonitorAnswersItsLine == MonSpec => [](MonTypeOK /\ MonHonest)
<1>1. MonInv => MonTypeOK /\ MonHonest
  BY MonInvTypeOK DEF MonInv
<1> QED BY <1>1, MonInvariant, PTL

\* A line that waits for telemetry is answered by the signal and the value it asked for, unless
\* an earlier line left its own behind (TelemetryHost.cpp).
THEOREM TelemetryAnswersItsLine == TelSpec => [](TelTypeOK /\ TelHonest)
<1>1. TelInv => TelTypeOK /\ TelHonest
  BY DEF TelInv
<1> QED BY <1>1, TelInvariant, PTL

\* The sniffer raises the number after the code at the beginning of a line and nothing else,
\* for any output (GCodeSniffer.cpp).
THEOREM SnifferIsFaithful == SnifSpec => []SnifTypeOK /\ SnifFaithful
<1>1. SnifInv /\ [SnifNext]_snifVars => [SnifFaithfulStep]_snifVars
  BY SnifStepFaithful
<1>2. SnifInv => SnifTypeOK
  BY SnifInvTypeOK
<1> QED BY <1>1, <1>2, SnifInvariant, PTL DEF SnifSpec, SnifFaithful, SnifFaithfulStep

\* What the GL thread draws is there and is all there is, for a print of any length and with a
\* Clear at any moment between two steps (GLPrint.cpp).
THEOREM PrintIsWhole == PrintSpec => [](PrintTypeOK /\ PrintWhole)
BY PrintInvTypeOK, PrintInvWhole, PrintInvariant, PTL

\* A line that exports the print and finishes has written its own file, once, while the print
\* stood still, unless an export was asked for that no line waited for; one that finds an
\* action of the mouse or the camera done has written none, which takes a line that was given
\* up before (ProcessAction and Draw of MK3SGL.cpp).
THEOREM ExportIsOfItsLine == PlySpec => [](PlyTypeOK /\ PlyHonest)
BY PlyInvTypeOK, PlyInvHonest, PlyInvariant, PTL

=============================================================================
