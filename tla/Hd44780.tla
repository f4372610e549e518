------------------------------ MODULE Hd44780 ------------------------------
(***************************************************************************)
(* The character display (parts/components/HD44780.cpp), the firmware that *)
(* sends it bytes in halves of four bits, and the script action that waits *)
(* for a text to appear.  All of it runs in the AVR thread; a script       *)
(* action, the end of a busy time or the end of a wait may come between    *)
(* any two pulses of the pin E.  A pulse is one step, although the fall of *)
(* E only registers a timer of one cycle, which takes it: a reset of the   *)
(* AVR that drops this timer is a reset before the pulse, and a reset      *)
(* while E is high is one after it (the firmware lowers E when it starts). *)
(*                                                                         *)
(* No board connects the pin RW, so the display is never read.  On every   *)
(* board only D4 to D7 are connected.  The glyphs in CGRAM and the flags   *)
(* of the drawing are left out; a text is one character.                   *)
(***************************************************************************)
EXTENDS Naturals, FiniteSets

CONSTANTS
  LcdWidth, LcdHeight,    \* m_uiWidth, m_uiHeight
  LcdCommands, LcdChars,  \* the bytes the firmware sends with RS low and high
  LcdTexts,               \* what scripts wait for
  LcdMaxBytes, LcdMaxScripts   \* bounds: bytes sent, script actions

Lcd8Bit == 0..255
LcdRamSize == 104
LcdLines == 0..LcdHeight - 1
LcdColumns == 0..LcdWidth - 1
LcdBlank == 32
LcdMarks == 0..7          \* the bits of m_uiLineChg

ASSUME Hd44780Assumption ==
  /\ LcdWidth \in 1..20 /\ LcdHeight \in 1..4
  /\ LcdCommands \subseteq Lcd8Bit /\ LcdChars \subseteq Lcd8Bit /\ LcdTexts \subseteq Lcd8Bit
  /\ LcdMaxBytes \in Nat /\ LcdMaxScripts \in Nat
  /\ \A b \in LcdCommands : b \notin 48..63   \* a Function set of a firmware with four wires

VARIABLES
  lcdRam,        \* m_vRam, which is drawn
  lcdLine,       \* m_vLines, in which WaitForText searches
  lcdChg,        \* m_uiLineChg, as the set of its bits
  lcdCursor, lcdCg, lcdInCg,     \* m_uiCursor, m_uiCGCursor, m_bInCGRAM
  lcdDL, lcdSC, lcdID,           \* the flags D_L, S_C, I_D
  lcdLow, lcdBusy,               \* LOWNIBBLE; BUSY
  lcdTimer,      \* m_fcnBusy, which clears BUSY, is registered
  lcdPins,       \* m_uiDataPins
  lcdHalf,       \* the firmware: the low half it has still to send
  lcdReset,      \* the firmware: nibbles of its power-on sequence that are left
  lcdWait,       \* the script: the text and line it waits for
  lcdSync,       \* history: "yes" if no half was lost or made up since the last power-on
                 \* sequence; "coming" while one is sent that no script has disturbed
  lcdDropped,    \* history: a reset dropped the timer
  lcdLast,       \* history: the last byte that was sent while the display was ready
  lcdStray,      \* history: the cursor was last put behind the memory
  lcdUsed,       \* history: lines searched by a wait that ended, unchanged since
  lcdBytes, lcdScripts           \* counters for the bounds

lcdMemory == <<lcdRam, lcdLine, lcdChg, lcdCursor, lcdCg, lcdInCg, lcdDL, lcdSC, lcdID,
               lcdStray, lcdUsed>>
lcdBus == <<lcdLow, lcdBusy, lcdTimer, lcdPins, lcdSync, lcdDropped, lcdLast>>
lcdVars == <<lcdMemory, lcdBus, lcdHalf, lcdReset, lcdWait, lcdBytes, lcdScripts>>

LcdOffset(i) == IF i \in {1, 3} THEN 64 + (i \div 2) * LcdWidth ELSE (i \div 2) * LcdWidth
LcdShown(i) == {lcdLine[i][k] : k \in LcdColumns}
LcdBlankRam == [a \in 0..LcdRamSize - 1 |-> LcdBlank]
LcdBlankLines == [i \in LcdLines |-> [k \in LcdColumns |-> LcdBlank]]
LcdNoHalf == [n |-> 16]
LcdResetSequence == <<3, 3, 3, 2>>       \* what every firmware begins with
LcdNoWait == [text |-> 256]

\* Init: ResetCursor and ClearScreen; the first thing the firmware does is its sequence.
LcdInit ==
  /\ lcdRam = LcdBlankRam /\ lcdLine = LcdBlankLines /\ lcdChg = LcdMarks
  /\ lcdCursor = 0 /\ lcdCg = 0 /\ lcdInCg = FALSE
  /\ lcdDL = FALSE /\ lcdSC = FALSE /\ lcdID = FALSE
  /\ lcdLow = FALSE /\ lcdBusy = FALSE /\ lcdTimer = FALSE /\ lcdPins = 0
  /\ lcdHalf = LcdNoHalf /\ lcdReset = 4 /\ lcdWait = LcdNoWait
  /\ lcdSync = "coming" /\ lcdDropped = FALSE /\ lcdLast = 0 /\ lcdStray = FALSE /\ lcdUsed = {}
  /\ lcdBytes = 0 /\ lcdScripts = 0

-----------------------------------------------------------------------------
(***************************************************************************)
(* What a complete byte does.  (A definition named Mut... is the one after *)
(* it with a plausible mistake in it.)                                     *)
(***************************************************************************)
LcdAdvance(c) ==
  IF lcdID THEN IF c = 103 THEN 0 ELSE IF c = 39 THEN 64 ELSE c + 1
           ELSE IF c = 0 THEN 103 ELSE IF c = 64 THEN 39 ELSE c - 1

LcdAdvanceCg(c) == IF lcdID THEN (c + 1) % 64 ELSE (c + 63) % 64

MutLcdData(v) ==
  LET hit == {i \in LcdLines : lcdCursor \in LcdOffset(i)..LcdOffset(i) + LcdWidth - 1}
      chg == {i \in hit : lcdLine[i][lcdCursor - LcdOffset(i)] # v}
  IN /\ lcdRam' = IF lcdCursor < LcdRamSize THEN [lcdRam EXCEPT ![lcdCursor] = v] ELSE lcdRam
     /\ lcdLine' = [i \in LcdLines |->
                      IF i \in hit THEN [lcdLine[i] EXCEPT ![lcdCursor - LcdOffset(i)] = v]
                                   ELSE lcdLine[i]]
     /\ lcdChg' = (lcdChg \ chg) \cup (chg \ lcdChg)
     /\ lcdUsed' = lcdUsed \ chg
     /\ lcdCursor' = IF lcdSC THEN lcdCursor ELSE LcdAdvance(lcdCursor)
     /\ UNCHANGED <<lcdCg, lcdInCg, lcdDL, lcdSC, lcdID, lcdStray>>

\* OnDataReady into the display's memory: a line is marked only if it changes.
LcdData(v) ==
  LET hit == {i \in LcdLines : lcdCursor \in LcdOffset(i)..LcdOffset(i) + LcdWidth - 1}
      chg == {i \in hit : lcdLine[i][lcdCursor - LcdOffset(i)] # v}
  IN /\ lcdRam' = IF lcdCursor < LcdRamSize THEN [lcdRam EXCEPT ![lcdCursor] = v] ELSE lcdRam
     /\ lcdLine' = [i \in LcdLines |->
                      IF i \in hit THEN [lcdLine[i] EXCEPT ![lcdCursor - LcdOffset(i)] = v]
                                   ELSE lcdLine[i]]
     /\ lcdChg' = lcdChg \cup chg
     /\ lcdUsed' = lcdUsed \ chg
     /\ lcdCursor' = IF lcdSC THEN lcdCursor ELSE LcdAdvance(lcdCursor)
     /\ UNCHANGED <<lcdCg, lcdInCg, lcdDL, lcdSC, lcdID, lcdStray>>

LcdGlyph ==
  /\ lcdCg' = LcdAdvanceCg(lcdCg)
  /\ UNCHANGED <<lcdRam, lcdLine, lcdChg, lcdCursor, lcdInCg, lcdDL, lcdSC, lcdID, lcdStray, lcdUsed>>

LcdBit(v, b) == (v \div b) % 2 = 1
LcdHome == lcdCursor' = 0 /\ lcdCg' = 0 /\ lcdInCg' = FALSE /\ lcdStray' = FALSE

MutLcdClear ==
  /\ lcdLine' = LcdBlankLines /\ lcdChg' = LcdMarks /\ lcdUsed' = {}
  /\ LcdHome
  /\ UNCHANGED <<lcdRam, lcdDL, lcdSC, lcdID>>

LcdClear ==
  /\ lcdRam' = LcdBlankRam /\ lcdLine' = LcdBlankLines /\ lcdChg' = LcdMarks /\ lcdUsed' = {}
  /\ LcdHome
  /\ UNCHANGED <<lcdDL, lcdSC, lcdID>>

\* OnCmdReady: the highest bit tells the command.
LcdCommand(v) ==
  \/ /\ v >= 128
     /\ lcdCursor' = v % 128 /\ lcdInCg' = FALSE /\ lcdStray' = (v % 128 >= LcdRamSize)
     /\ UNCHANGED <<lcdRam, lcdLine, lcdChg, lcdCg, lcdDL, lcdSC, lcdID, lcdUsed>>
  \/ /\ v \in 64..127
     /\ lcdCg' = v % 64 /\ lcdInCg' = TRUE
     /\ UNCHANGED <<lcdRam, lcdLine, lcdChg, lcdCursor, lcdDL, lcdSC, lcdID, lcdStray, lcdUsed>>
  \/ /\ v \in 32..63
     /\ lcdDL' = LcdBit(v, 16)
     /\ UNCHANGED <<lcdRam, lcdLine, lcdChg, lcdCursor, lcdCg, lcdInCg, lcdSC, lcdID, lcdStray, lcdUsed>>
  \/ /\ v \in 16..31
     /\ lcdSC' = LcdBit(v, 8)
     /\ UNCHANGED <<lcdRam, lcdLine, lcdChg, lcdCursor, lcdCg, lcdInCg, lcdDL, lcdID, lcdStray, lcdUsed>>
  \/ v \in 8..15 /\ UNCHANGED lcdMemory
  \/ /\ v \in 4..7
     /\ lcdID' = LcdBit(v, 2)
     /\ UNCHANGED <<lcdRam, lcdLine, lcdChg, lcdCursor, lcdCg, lcdInCg, lcdDL, lcdSC, lcdStray, lcdUsed>>
  \/ /\ v \in 2..3
     /\ LcdHome
     /\ UNCHANGED <<lcdRam, lcdLine, lcdChg, lcdDL, lcdSC, lcdID, lcdUsed>>
  \/ v \in 0..1 /\ LcdClear

\* The flag LOWNIBBLE after a whole byte: toggled in 4-bit mode, and cleared by the Function
\* set that leaves 8-bit mode.
MutLcdNextLow == IF lcdDL THEN lcdLow ELSE FALSE
LcdNextLow == IF lcdDL /\ lcdDL' THEN lcdLow ELSE FALSE

\* ProcessWrite: the nibble n at the pins when E fell.
LcdPulse(n, rs) ==
  IF lcdBusy THEN UNCHANGED <<lcdMemory, lcdLow, lcdBusy, lcdTimer, lcdPins>>
  ELSE /\ lcdPins' = IF lcdDL THEN n * 16
                     ELSE IF lcdLow THEN (lcdPins \div 16) * 16 + n
                     ELSE n * 16 + (lcdPins % 16)
       /\ IF ~lcdDL /\ ~lcdLow
          THEN lcdLow' = TRUE /\ UNCHANGED <<lcdMemory, lcdBusy, lcdTimer>>
          ELSE /\ IF rs THEN IF lcdInCg THEN LcdGlyph ELSE LcdData(lcdPins')
                        ELSE LcdCommand(lcdPins')
               /\ lcdLow' = LcdNextLow
               /\ lcdBusy' = TRUE /\ lcdTimer' = TRUE

-----------------------------------------------------------------------------
(***************************************************************************)
(* The firmware.  It does not have to wait while the display is busy.      *)
(***************************************************************************)
Lcd4BitFirmware == lcdReset = 0

\* The high half of a byte.
LcdFirstHalf(b, rs) ==
  /\ Lcd4BitFirmware /\ lcdHalf = LcdNoHalf /\ lcdBytes < LcdMaxBytes
  /\ lcdBytes' = lcdBytes + 1
  /\ lcdHalf' = [n |-> b % 16, byte |-> b, rs |-> rs, dropped |-> lcdBusy]
  /\ LcdPulse(b \div 16, rs)
  /\ UNCHANGED <<lcdReset, lcdWait, lcdScripts, lcdSync, lcdDropped, lcdLast>>

\* The low half.  If only one of the halves met a busy display, it is out of step.
LcdSecondHalf ==
  /\ lcdHalf # LcdNoHalf /\ lcdHalf' = LcdNoHalf
  /\ LcdPulse(lcdHalf.n, lcdHalf.rs)
  /\ lcdSync' = IF lcdHalf.dropped = lcdBusy THEN lcdSync ELSE "no"
  /\ lcdLast' = IF lcdHalf.dropped THEN lcdLast ELSE lcdHalf.byte
  /\ UNCHANGED <<lcdReset, lcdWait, lcdBytes, lcdScripts, lcdDropped>>

\* avr_reset, between any two halves or nibbles: it drops the timer, and BUSY stays.  The
\* firmware starts again.
LcdStartReset ==
  /\ lcdBytes < LcdMaxBytes /\ lcdBytes' = lcdBytes + 1
  /\ lcdTimer' = FALSE /\ lcdDropped' = (lcdDropped \/ lcdTimer)
  /\ lcdReset' = 4 /\ lcdHalf' = LcdNoHalf /\ lcdSync' = "coming"
  /\ UNCHANGED <<lcdMemory, lcdLow, lcdBusy, lcdPins, lcdLast, lcdWait, lcdScripts>>

\* Its sequence, with a pause after each nibble that is longer than the display is busy.
LcdResetNibble ==
  /\ lcdReset > 0 /\ ~lcdTimer
  /\ lcdReset' = lcdReset - 1
  /\ LcdPulse(LcdResetSequence[5 - lcdReset], FALSE)
  /\ lcdLast' = lcdPins'
  /\ lcdSync' = IF lcdReset = 1 /\ lcdSync = "coming" THEN "yes" ELSE lcdSync
  /\ UNCHANGED <<lcdHalf, lcdWait, lcdBytes, lcdScripts, lcdDropped>>

\* OnBusyTimeout
LcdBusyTimeout ==
  /\ lcdTimer /\ lcdTimer' = FALSE /\ lcdBusy' = FALSE
  /\ UNCHANGED <<lcdMemory, lcdLow, lcdPins, lcdSync, lcdDropped, lcdLast, lcdHalf, lcdReset,
                 lcdWait, lcdBytes, lcdScripts>>

-----------------------------------------------------------------------------
(***************************************************************************)
(* The script actions.  Line LcdHeight stands for -1, any line.            *)
(***************************************************************************)
LcdDesync ==
  /\ lcdScripts < LcdMaxScripts /\ lcdScripts' = lcdScripts + 1
  /\ lcdLow' = ~lcdLow /\ lcdSync' = "no"
  /\ UNCHANGED <<lcdMemory, lcdBusy, lcdTimer, lcdPins, lcdDropped, lcdLast, lcdHalf, lcdReset,
                 lcdWait, lcdBytes>>

LcdAsked == IF lcdWait.line = LcdHeight THEN LcdMarks ELSE {lcdWait.line}

LcdStartWait(t, line) ==
  /\ lcdWait = LcdNoWait /\ lcdScripts < LcdMaxScripts
  /\ lcdScripts' = lcdScripts + 1
  /\ lcdWait' = [text |-> t, line |-> line]
  /\ UNCHANGED <<lcdMemory, lcdBus, lcdHalf, lcdReset, lcdBytes>>

LcdEndWait ==
  /\ lcdWait' = LcdNoWait
  /\ lcdUsed' = lcdUsed \cup ((LcdAsked \cap LcdLines) \ lcdChg')

\* ProcessAction(WaitForText): without a mark it does not look; the marks it asked
\* about are inverted, whether it found the text or not.
LcdPoll ==
  /\ lcdWait # LcdNoWait /\ LcdAsked \cap lcdChg # {}
  /\ lcdChg' = (lcdChg \ LcdAsked) \cup (LcdAsked \ lcdChg)
  /\ IF \E i \in LcdAsked \cap LcdLines : lcdWait.text \in LcdShown(i)
     THEN LcdEndWait ELSE UNCHANGED <<lcdWait, lcdUsed>>
  /\ UNCHANGED <<lcdRam, lcdLine, lcdCursor, lcdCg, lcdInCg, lcdDL, lcdSC, lcdID, lcdStray>>
  /\ UNCHANGED <<lcdBus, lcdHalf, lcdReset, lcdBytes, lcdScripts>>

\* The script host gives up, and tells the display nothing.
LcdWaitTimeout ==
  /\ lcdWait # LcdNoWait
  /\ UNCHANGED <<lcdRam, lcdLine, lcdChg, lcdCursor, lcdCg, lcdInCg, lcdDL, lcdSC, lcdID, lcdStray>>
  /\ LcdEndWait
  /\ UNCHANGED <<lcdBus, lcdHalf, lcdReset, lcdBytes, lcdScripts>>

LcdNext ==
  \/ \E b \in LcdCommands : LcdFirstHalf(b, FALSE)
  \/ \E b \in LcdChars : LcdFirstHalf(b, TRUE)
  \/ LcdSecondHalf \/ LcdStartReset \/ LcdResetNibble \/ LcdBusyTimeout
  \/ LcdDesync
  \/ \E t \in LcdTexts, line \in 0..LcdHeight : LcdStartWait(t, line)
  \/ LcdPoll \/ LcdWaitTimeout

LcdSpec == LcdInit /\ [][LcdNext]_lcdVars
-----------------------------------------------------------------------------
(***************************************************************************)
(* Properties.                                                             *)
(***************************************************************************)
\* The state is well formed, and the cursor leaves the memory only if a command put it there.
LcdTypeOK ==
  /\ lcdStray \/ lcdCursor < LcdRamSize
  /\ lcdRam \in [0..LcdRamSize - 1 -> Lcd8Bit]
  /\ lcdLine \in [LcdLines -> [LcdColumns -> Lcd8Bit]]
  /\ lcdChg \subseteq LcdMarks /\ lcdUsed \subseteq LcdLines
  /\ lcdCursor \in Nat /\ lcdCg \in 0..63
  /\ {lcdInCg, lcdDL, lcdSC, lcdID, lcdLow, lcdBusy, lcdTimer, lcdDropped, lcdStray} \subseteq BOOLEAN
  /\ lcdSync \in {"no", "coming", "yes"}
  /\ lcdPins \in Lcd8Bit /\ lcdLast \in Lcd8Bit
  /\ lcdHalf \in [n : 0..15, byte : Lcd8Bit, rs : BOOLEAN, dropped : BOOLEAN] \cup {LcdNoHalf}
  /\ lcdReset \in 0..4
  /\ lcdWait \in [text : LcdTexts, line : 0..LcdHeight] \cup {LcdNoWait}
  /\ lcdBytes \in 0..LcdMaxBytes /\ lcdScripts \in 0..LcdMaxScripts

\* What a script finds is what the window shows: the lines are the visible cells of
\* the memory, wherever the cursor was put and however the halves fell.
LcdMirror ==
  \A i \in LcdLines, k \in LcdColumns : lcdLine[i][k] = lcdRam[LcdOffset(i) + k]

\* The power-on sequence brings display and firmware into step from any state, and
\* they stay so, each byte arriving as it was sent, unless a script desyncs them or
\* the display becomes ready between the halves of a byte it was too busy to take.
\* The exception is a reset of the AVR while the display is busy.  It leaves BUSY set with no
\* timer to clear it, and from then on, for good, every half is dropped, those of the
\* power-on sequence too: the display stays dead.  Nothing else leaves it so.
LcdInSync ==
  /\ lcdBusy /\ ~lcdTimer <=> lcdDropped
  /\ lcdTimer => lcdBusy
  /\ lcdSync = "yes" /\ ~lcdDropped =>
       /\ ~lcdDL
       /\ lcdHalf # LcdNoHalf /\ ~lcdHalf.dropped <=> lcdLow
       /\ lcdHalf = LcdNoHalf => lcdPins = lcdLast

\* A wait does not sleep while its text is shown: a line it has no mark for does not
\* hold the text, unless an earlier wait took the mark of that line.
LcdWaitFinds ==
  lcdWait # LcdNoWait /\ LcdAsked \cap lcdChg = {} =>
    \A i \in LcdAsked \cap LcdLines : lcdWait.text \in LcdShown(i) => i \in lcdUsed
=============================================================================
