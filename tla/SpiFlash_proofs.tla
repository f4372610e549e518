--------------------------- MODULE SpiFlash_proofs ---------------------------
(***************************************************************************)
(* Theorems about SpiFlash for every geometry of the chip.                 *)
(***************************************************************************)
EXTENDS SpiFlash, TLAPS

-----------------------------------------------------------------------------
(***************************************************************************)
(* Arithmetic of addresses: an offset within a page names one address of   *)
(* the page, and every address of a page has one offset.                   *)
(***************************************************************************)
LEMMA Mono ==
  ASSUME NEW s \in Nat, NEW k \in Nat, NEW q \in Nat, k <= q
  PROVE  s * k <= s * q
<1> DEFINE d == q - k
<1>1. d \in Nat /\ q = k + d
  OBVIOUS
<1> HIDE DEF d
<1>2. s * q = s * k + s * d /\ s * k \in Nat /\ s * d \in Nat
  BY <1>1
<1> QED BY <1>2

LEMMA Unique ==
  ASSUME NEW s \in Nat \ {0}, NEW k \in Nat, NEW q \in Nat,
         NEW o \in 0..s-1, NEW r \in 0..s-1, s * k + o = s * q + r
  PROVE  k = q /\ o = r
<1>1. ASSUME NEW a \in Nat, NEW b \in Nat, a < b PROVE s * a + s <= s * b
  <2>1. s * (a + 1) <= s * b
    BY <1>1, Mono
  <2> QED BY <2>1
<1>2. s * k \in Nat /\ s * q \in Nat
  OBVIOUS
<1>3. ~(k < q) /\ ~(q < k)
  BY <1>1, <1>2
<1> QED BY <1>2, <1>3

LEMMA DivMod ==
  ASSUME NEW s \in Nat \ {0}, NEW a \in Nat
  PROVE  /\ a \div s \in Nat /\ a % s \in 0..s-1
         /\ a = s * (a \div s) + (a % s)
BY SMT

LEMMA Compose ==
  ASSUME NEW s \in Nat \ {0}, NEW k \in Nat, NEW o \in 0..s-1
  PROVE  /\ k * s + o \in Nat
         /\ (k * s + o) \div s = k /\ (k * s + o) % s = o
<1> DEFINE b == k * s + o
<1>1. b \in Nat /\ b = s * k + o
  OBVIOUS
<1> HIDE DEF b
<1>2. /\ b \div s \in Nat /\ b % s \in 0..s-1
      /\ b = s * (b \div s) + (b % s)
  BY <1>1, DivMod
<1>3. b \div s = k /\ b % s = o
  BY <1>1, <1>2, Unique
<1> QED BY <1>1, <1>3 DEF b

\* The start of a region of an address is an address.
LEMMA BaseIn ==
  ASSUME NEW s \in Nat \ {0}, NEW a \in Addr
  PROVE  Base(s, a) \in Addr
<1>1. a \in Nat /\ a < TotalSize
  BY SpiFlashAssumption DEF Addr
<1>2. /\ a \div s \in Nat /\ a % s \in 0..s-1 /\ a = s * (a \div s) + (a % s)
  BY <1>1, DivMod
<1>3. (a \div s) * s = s * (a \div s) /\ (a \div s) * s \in Nat
  BY <1>2
<1>4. a % s \in Nat /\ (a \div s) * s <= a
  BY <1>1, <1>2, <1>3
<1> QED BY <1>1, <1>3, <1>4, SpiFlashAssumption DEF Addr, Base

\* An offset added to the start of a page stays in the page, and in the chip.
LEMMA InPage ==
  ASSUME NEW a \in Addr, NEW o \in Offset
  PROVE  /\ Base(PageSize, a) + o \in Addr
         /\ (Base(PageSize, a) + o) \div PageSize = a \div PageSize
         /\ (Base(PageSize, a) + o) % PageSize = o
<1> DEFINE P == PageSize
           k == a \div P
           m == TotalSize \div P
<1>1. /\ P \in Nat \ {0} /\ TotalSize \in Nat \ {0} /\ TotalSize % P = 0
      /\ a \in Nat /\ a < TotalSize /\ o \in 0..P-1
  BY SpiFlashAssumption DEF Addr, Offset
<1> HIDE DEF P
<1>2. /\ k \in Nat /\ a % P \in 0..P-1 /\ a = P * k + (a % P)
  BY <1>1, DivMod
<1>3. m \in Nat /\ TotalSize = P * m + 0
  <2>1. m \in Nat /\ TotalSize = P * m + (TotalSize % P)
    BY <1>1, DivMod
  <2> QED BY <1>1, <2>1
<1> HIDE DEF k, m
<1>4. k < m
  <2> SUFFICES ASSUME m <= k PROVE FALSE
    BY <1>2, <1>3
  <2>1. P * m <= P * k
    BY <1>1, <1>2, <1>3, Mono
  <2>2. P * k \in Nat /\ P * m \in Nat
    BY <1>1, <1>2, <1>3
  <2> QED BY <1>1, <1>2, <1>3, <2>1, <2>2
<1>5. P * (k + 1) <= P * m
  BY <1>1, <1>2, <1>3, <1>4, Mono
<1>6. /\ k * P + o \in Nat /\ (k * P + o) \div P = k /\ (k * P + o) % P = o
  BY <1>1, <1>2, Compose
<1>7. P * (k + 1) = k * P + P /\ k * P \in Nat /\ P * m \in Nat
  BY <1>1, <1>2, <1>3
<1>8. k * P + o < TotalSize
  <2>1. k * P + P <= P * m
    BY <1>5, <1>7
  <2>2. TotalSize = P * m
    BY <1>3, <1>7
  <2>3. o \in Nat /\ o < P
    BY <1>1
  <2> QED BY <1>1, <1>7, <2>1, <2>2, <2>3
<1>9. k * P + o \in Addr
  BY <1>1, <1>6, <1>8 DEF Addr
<1> QED BY <1>6, <1>9 DEF Base, k, P

\* Two addresses of a page with the same offset are one.
LEMMA SameOffset ==
  ASSUME NEW a \in Addr, NEW b \in Addr,
         a \div PageSize = b \div PageSize, a % PageSize = b % PageSize
  PROVE  a = b
<1>1. a \in Nat /\ b \in Nat /\ PageSize \in Nat \ {0}
  BY SpiFlashAssumption DEF Addr
<1> QED BY <1>1, DivMod

LEMMA OffsetOf == \A a \in Addr : a % PageSize \in Offset
<1>1. PageSize \in Nat \ {0} /\ Addr \subseteq Nat
  BY SpiFlashAssumption DEF Addr
<1> QED BY <1>1, DivMod DEF Offset

-----------------------------------------------------------------------------
(***************************************************************************)
(* Types.  The address that a transaction loads starts as 0, which is both *)
(* an address and a count of UID bytes.                                    *)
(***************************************************************************)
TypeInv ==
  /\ TypeOK
  /\ state = "LOADING" => address = 0 /\ sent = Nothing

LEMMA Sizes ==
  /\ 0 \in Addr /\ 0 \in Offset /\ Bits \in Byte /\ {} \in Byte
  /\ \A c \in DOMAIN EraseSize : EraseSize[c] \in Nat \ {0}
  /\ FactoryFlash \in [Addr -> Byte] /\ FactoryBuffer \in [Offset -> Byte]
BY SpiFlashAssumption DEF Addr, Offset, Byte, EraseSize, FactoryFlash, FactoryBuffer

LEMMA TypeInit == Init => TypeInv
<1> SUFFICES ASSUME Init PROVE TypeInv
  OBVIOUS
<1>1. csel \in BOOLEAN /\ rewritten \in BOOLEAN /\ fresh \in BOOLEAN /\ wel \in BOOLEAN
      /\ kept \in [ok : BOOLEAN, data : [Addr -> Byte]]
  BY Sizes, Zenon DEF Init
<1>2. file \in [len : 0..TotalSize + 1, data : [Addr -> Byte], extra : Byte]
  BY Sizes, SpiFlashAssumption DEF Init
<1>3. sent = Nothing /\ DOMAIN sent = {}
  BY DEF Init, Nothing
<1> QED
  BY <1>1, <1>2, <1>3, Sizes DEF Init, TypeInv, TypeOK, NoCommand, CmdInSize, Commands

LEMMA TypeBytes ==
  ASSUME TypeInv,
         \/ Select \/ NextByte \/ UidByte \/ ReadByte
         \/ \E c \in Commands : FirstByte(c)
         \/ \E raw \in RawAddresses : AddressByte(raw)
         \/ \E b \in SentBytes : ProgramByte(b)
  PROVE  TypeInv'
<1> USE Sizes DEF TypeInv, TypeOK, history, counters, BusOnly, CmdInSize
<1>1. CASE Select
  <2>1. sent' = Nothing /\ DOMAIN sent' = {}
    BY <1>1 DEF Select, Nothing
  <2> QED BY <1>1, <2>1 DEF Select, NoCommand, Commands
<1>2. CASE NextByte
  BY <1>2 DEF NextByte, Loading
<1>3. CASE UidByte
  BY <1>3, SpiFlashAssumption DEF UidByte, Loading, Commands, Addressed, OneByte
<1>4. CASE ReadByte
  <2>1. IF command = "RD_UID" THEN address' \in 0..UidSize ELSE address' \in Addr
    <3>1. TotalSize \in Nat \ {0} /\ UidSize \in Nat
      BY SpiFlashAssumption
    <3>2. ASSUME NEW a \in Addr PROVE (a + 1) % TotalSize \in Addr
      <4>1. a + 1 \in Nat
        BY <3>1 DEF Addr
      <4> QED BY <3>1, <4>1, DivMod DEF Addr
    <3>3. CASE command \in {"RD_DATA", "MFRID_DEVID"}
      BY <1>4, <3>2, <3>3 DEF ReadByte
    <3>4. CASE command = "RD_UID" /\ address > 0
      BY <1>4, <3>1, <3>4 DEF ReadByte
    <3>5. CASE command \notin {"RD_DATA", "MFRID_DEVID"} /\ ~(command = "RD_UID" /\ address > 0)
      BY <1>4, <3>5 DEF ReadByte
    <3> QED BY <3>3, <3>4, <3>5
  <2> QED BY <1>4, <2>1 DEF ReadByte, Running
<1>5. ASSUME NEW c \in Commands, FirstByte(c) PROVE TypeInv'
  <2>1. state' \in {"LOADING", "RUNNING"} /\ csel' = csel /\ csel /\ command' = c
    BY <1>5 DEF FirstByte, Loading
  <2>2. address' = 0 /\ address' \in 0..UidSize
    BY <1>5, SpiFlashAssumption DEF FirstByte, Loading
  <2> QED BY <1>5, <2>1, <2>2 DEF FirstByte, Loading
<1>6. ASSUME NEW raw \in RawAddresses, AddressByte(raw) PROVE TypeInv'
  <2>1. address' \in Addr
    <3>1. raw \in Nat /\ TotalSize \in Nat \ {0}
      BY SpiFlashAssumption
    <3> QED BY <1>6, <3>1, DivMod DEF AddressByte, Addr
  <2>2. pageBuffer' \in [Offset -> Byte]
    <3>1. ASSUME NEW o \in Offset PROVE flash[Base(PageSize, address') + o] \in Byte
      BY <2>1, InPage
    <3>2. CASE command = "PAGE_PROGRAM"
      BY <1>6, <3>1, <3>2 DEF AddressByte
    <3>3. CASE command # "PAGE_PROGRAM"
      BY <1>6, <3>3 DEF AddressByte
    <3> QED BY <3>2, <3>3
  <2>3. command \in Addressed /\ command # "RD_UID"
    BY <1>6 DEF AddressByte, Addressed
  <2> QED BY <1>6, <2>1, <2>2, <2>3 DEF AddressByte, Loading
<1>7. ASSUME NEW b \in SentBytes, ProgramByte(b) PROVE TypeInv'
  <2>1. address \in Addr /\ b \in Byte
    BY <1>7, SpiFlashAssumption DEF ProgramByte
  <2>2. pageBuffer' \in [Offset -> Byte]
    BY <1>7, <2>1 DEF ProgramByte
  <2>3. address' \in Addr
    <3>1. (address + 1) % PageSize \in Offset
      <4>1. address + 1 \in Nat /\ PageSize \in Nat \ {0}
        BY <2>1, SpiFlashAssumption DEF Addr
      <4> QED BY <4>1, DivMod DEF Offset
    <3> QED BY <1>7, <2>1, <3>1, InPage DEF ProgramByte
  <2>4. DOMAIN sent' \subseteq Addr /\ \A x \in DOMAIN sent' : sent'[x] \in Byte
    BY <1>7, <2>1 DEF ProgramByte
  <2> QED BY <1>7, <2>2, <2>3, <2>4 DEF ProgramByte, Running
<1> QED BY <1>1, <1>2, <1>3, <1>4, <1>5, <1>6, <1>7

LEMMA TypeEnds ==
  ASSUME TypeInv, EndProgram \/ EndErase \/ EndLatch \/ EndOther
  PROVE  TypeInv'
<1> USE Sizes DEF TypeInv, TypeOK, counters
<1>1. /\ sent' = Nothing /\ DOMAIN sent' = {} /\ csel' = FALSE /\ state' = "IDLE"
      /\ rewritten' = FALSE /\ power' = power
      /\ UNCHANGED <<command, rxCnt, pageBuffer, file, kept, selects, scripts, boots>>
  BY DEF EndProgram, EndErase, EndLatch, EndOther, Deselect, Nothing
<1>2. CASE EndProgram
  <2>1. address \in Addr /\ command # "RD_UID"
    BY <1>2 DEF EndProgram, Complete
  <2>2. address' \in Addr
    BY <1>2, <2>1, BaseIn, SpiFlashAssumption DEF EndProgram
  <2>3. flash' \in [Addr -> Byte]
    <3>1. \A x \in Addr : pageBuffer[x % PageSize] \in Byte
      BY OffsetOf
    <3>2. \A x \in Addr : flash[x] \cap pageBuffer[x % PageSize] \in Byte
      BY <3>1 DEF Byte
    <3> QED BY <1>2, <3>2 DEF EndProgram, Programmed
  <2> QED BY <1>1, <1>2, <2>1, <2>2, <2>3 DEF EndProgram
<1>3. CASE EndErase
  <2>1. command \in DOMAIN EraseSize /\ command # "RD_UID"
    BY <1>3 DEF EndErase, Complete, EraseSize
  <2>2. address' \in Addr
    BY <1>3, <2>1, BaseIn DEF EndErase
  <2>3. flash' \in [Addr -> Byte]
    BY <1>3 DEF EndErase, Erased
  <2> QED BY <1>1, <1>3, <2>1, <2>2, <2>3 DEF EndErase
<1>4. CASE EndLatch
  <2>1. wel' \in BOOLEAN
    BY <1>4, Zenon DEF EndLatch
  <2> QED BY <1>1, <1>4, <2>1 DEF EndLatch
<1>5. CASE EndOther
  BY <1>1, <1>5 DEF EndOther
<1> QED BY <1>2, <1>3, <1>4, <1>5

\* What Load leaves behind has the types of the chip.
LEMMA LoadTypes ==
  ASSUME TypeOK, NEW oldFlash \in [Addr -> Byte], NEW oldBuffer \in [Offset -> Byte],
         NEW next \in {"boot", "on"}, Load(oldFlash, oldBuffer, next)
  PROVE  /\ flash' \in [Addr -> Byte] /\ pageBuffer' \in [Offset -> Byte]
         /\ power' \in {"boot", "on", "exited"}
<1>1. /\ file.data \in [Addr -> Byte] /\ file.extra \in Byte
  BY DEF TypeOK
<1>2. Filled(file.data) \in [Addr -> Byte]
  BY <1>1, Sizes DEF Filled
<1> QED BY <1>1, <1>2 DEF Load

LEMMA SaveTypes ==
  ASSUME TypeOK, Save
  PROVE  /\ file' \in [len : 0..TotalSize + 1, data : [Addr -> Byte], extra : Byte]
         /\ kept' \in [ok : BOOLEAN, data : [Addr -> Byte]]
<1>1. flash \in [Addr -> Byte] /\ pageBuffer[0] \in Byte
  BY Sizes DEF TypeOK
<1>2. TotalSize + 1 \in 0..TotalSize + 1
  BY SpiFlashAssumption
<1> QED BY <1>1, <1>2 DEF Save

LEMMA TypeRest ==
  ASSUME TypeInv,
         \/ ScriptLoad \/ ScriptSave \/ \E b \in FillBytes \cup {Bits} : ScriptFill(b)
         \/ PowerOff \/ Kill \/ Start \/ NoChunk \/ \E c \in Chunks : HexChunk(c)
  PROVE  TypeInv'
<1> USE DEF TypeInv, TypeOK, busVars, counters, history
<1>1. CASE ScriptLoad
  <2>1. rewritten' \in BOOLEAN /\ fresh' \in BOOLEAN
    BY <1>1, Zenon DEF ScriptLoad
  <2> QED BY <1>1, <2>1, LoadTypes DEF ScriptLoad, Script
<1>2. CASE ScriptSave
  BY <1>2, SaveTypes DEF ScriptSave, Script
<1>3. ASSUME NEW b \in FillBytes \cup {Bits}, ScriptFill(b) PROVE TypeInv'
  <2>1. b \in Byte
    BY SpiFlashAssumption, Sizes
  <2>2. flash' \in [Addr -> Byte]
    BY <1>3, <2>1 DEF ScriptFill
  <2>3. rewritten' \in BOOLEAN /\ fresh' \in BOOLEAN
    BY <1>3 DEF ScriptFill
  <2> QED BY <1>3, <2>2, <2>3 DEF ScriptFill, Script
<1>4. CASE PowerOff
  BY <1>4, SaveTypes DEF PowerOff
<1>5. CASE Kill
  <2>1. CASE UNCHANGED <<file, kept>>
    BY <1>5, <2>1 DEF Kill
  <2>2. ASSUME NEW n \in CutLengths,
               file' = [len |-> n, data |-> flash, extra |-> {}],
               kept' = [kept EXCEPT !.ok = FALSE]
        PROVE  TypeInv'
    <3>1. n \in 0..TotalSize + 1
      BY SpiFlashAssumption
    <3>2. file' \in [len : 0..TotalSize + 1, data : [Addr -> Byte], extra : Byte]
      BY <2>2, <3>1, Sizes
    <3>3. kept' \in [ok : BOOLEAN, data : [Addr -> Byte]]
      BY <2>2
    <3> QED BY <1>5, <3>2, <3>3 DEF Kill
  <2> QED BY <1>5, <2>1, <2>2 DEF Kill
<1>6. CASE Start
  <2> HIDE DEF TypeInv, TypeOK, busVars, counters, history
  <2>1. fresh' \in BOOLEAN
    <3>1. fresh' = (file.len > TotalSize)
      BY <1>6 DEF Start
    <3>2. CASE file.len > TotalSize
      BY <3>1, <3>2
    <3>3. CASE ~(file.len > TotalSize)
      BY <3>1, <3>3
    <3> QED BY <3>2, <3>3
  <2> USE DEF TypeInv, TypeOK, busVars, counters, history
  <2>2. sent' = Nothing /\ DOMAIN sent' = {}
    BY <1>6 DEF Start, NewChip, Nothing
  <2>3. /\ flash' \in [Addr -> Byte] /\ pageBuffer' \in [Offset -> Byte]
        /\ power' \in {"boot", "on", "exited"}
    BY <1>6, LoadTypes, Sizes DEF Start
  <2> QED BY <1>6, <2>1, <2>2, <2>3, Sizes DEF Start, NewChip, NoCommand, CmdInSize
<1>7. CASE NoChunk
  BY <1>7 DEF NoChunk
<1>8. ASSUME NEW c \in Chunks, HexChunk(c) PROVE TypeInv'
  <2>1. c.data \in Byte
    BY SpiFlashAssumption DEF Chunk
  <2>2. flash' \in [Addr -> Byte]
    BY <1>8, <2>1 DEF HexChunk, WithChunk
  <2> QED BY <1>8, <2>2 DEF HexChunk
<1> QED BY <1>1, <1>2, <1>3, <1>4, <1>5, <1>6, <1>7, <1>8

LEMMA TypeStep == TypeInv /\ [Next]_vars => TypeInv'
<1> SUFFICES ASSUME TypeInv, [Next]_vars PROVE TypeInv'
  OBVIOUS
<1>1. CASE UNCHANGED vars
  BY <1>1 DEF TypeInv, TypeOK, vars, busVars, history, counters
<1>2. CASE Next
  BY <1>2, TypeBytes, TypeEnds, TypeRest DEF Next, Bus
<1> QED BY <1>1, <1>2

THEOREM Types == Spec => []TypeInv
BY TypeInit, TypeStep, PTL DEF Spec

\* No command, address or script action takes the chip outside its memory
\* (w25x20cl.cpp:82-296).
THEOREM TypeCorrect == Spec => []TypeOK
BY Types, PTL DEF TypeInv

-----------------------------------------------------------------------------
(***************************************************************************)
(* The file.  It is complete exactly if the last Save was not cut, and     *)
(* then holds what was saved.                                              *)
(***************************************************************************)
FileInv ==
  /\ RoundTrip
  /\ kept.ok => file.len > TotalSize /\ file.data = kept.data
  /\ ~kept.ok => file.len <= TotalSize

LEMMA FilledTwice ==
  ASSUME NEW d \in [Addr -> Byte]
  PROVE  Filled(Filled(d)) = Filled(d)
BY DEF Filled

LEMMA FileInit == Init => FileInv
BY SpiFlashAssumption DEF Init, FileInv, RoundTrip

LEMMA FileUntouched ==
  ASSUME FileInv, UNCHANGED <<power, file, kept>>, fresh' => fresh /\ flash' = flash
  PROVE  FileInv'
BY DEF FileInv, RoundTrip, Filled

LEMMA FileSaved ==
  ASSUME TypeInv, FileInv, Save
  PROVE  /\ kept'.ok /\ file'.len > TotalSize
         /\ file'.data = kept'.data /\ kept'.data = flash
<1>1. TotalSize \in Nat
  BY SpiFlashAssumption
<1> QED BY <1>1 DEF Save

LEMMA FileStep == TypeInv /\ FileInv /\ [Next]_vars => FileInv'
<1> SUFFICES ASSUME TypeInv, FileInv, [Next]_vars PROVE FileInv'
  OBVIOUS
<1> USE DEF TypeInv, TypeOK
<1>1. CASE UNCHANGED vars
  BY <1>1, FileUntouched DEF vars, history
<1>2. CASE \/ Select \/ NextByte \/ UidByte \/ ReadByte
           \/ \E c \in Commands : FirstByte(c)
           \/ \E raw \in RawAddresses : AddressByte(raw)
           \/ \E b \in SentBytes : ProgramByte(b)
  BY <1>2, FileUntouched
  DEF Select, NextByte, UidByte, ReadByte, FirstByte, AddressByte, ProgramByte,
      BusOnly, history
<1>3. CASE EndProgram \/ EndErase \/ EndLatch \/ EndOther
  BY <1>3, FileUntouched DEF EndProgram, EndErase, EndLatch, EndOther, Deselect
<1>4. CASE \E b \in FillBytes \cup {Bits} : ScriptFill(b)
  BY <1>4, FileUntouched DEF ScriptFill
<1>5. CASE ScriptLoad
  <2>1. CASE file.len < TotalSize
    <3>1. UNCHANGED <<power, file, kept, flash>> /\ ~(file.len > TotalSize)
      BY <1>5, <2>1, SpiFlashAssumption DEF ScriptLoad, Script, Load
    <3>2. fresh' => fresh
      BY <1>5, <3>1 DEF ScriptLoad
    <3> QED BY <3>1, <3>2, FileUntouched
  <2>2. CASE file.len = TotalSize
    <3>1. power' = "exited" /\ UNCHANGED <<file, kept>> /\ ~kept.ok
      BY <1>5, <2>2, SpiFlashAssumption DEF ScriptLoad, Load, FileInv
    <3> QED BY <3>1 DEF FileInv, RoundTrip
  <2>3. CASE file.len > TotalSize
    <3>1. /\ flash' = Filled(file.data) /\ power' = "on"
          /\ UNCHANGED <<file, kept>> /\ kept.ok
      BY <1>5, <2>3, SpiFlashAssumption DEF ScriptLoad, Load, FileInv
    <3>2. flash' = Filled(kept.data)
      BY <3>1 DEF FileInv
    <3> QED BY <3>1, <3>2 DEF FileInv, RoundTrip, Filled
  <2>4. file.len \in Nat /\ TotalSize \in Nat
    BY SpiFlashAssumption
  <2> QED BY <2>1, <2>2, <2>3, <2>4
<1>6. CASE ScriptSave
  <2>1. /\ kept'.ok /\ file'.len > TotalSize
        /\ file'.data = kept'.data /\ kept'.data = flash
    BY <1>6, FileSaved DEF ScriptSave
  <2>2. UNCHANGED <<power, flash, fresh>> /\ power = "on"
    BY <1>6 DEF ScriptSave, Script
  <2>3. fresh => flash = Filled(flash)
    BY <2>2, FilledTwice DEF FileInv, RoundTrip
  <2> QED BY <2>1, <2>2, <2>3 DEF FileInv, RoundTrip, Filled
<1>7. CASE PowerOff
  <2>1. /\ kept'.ok /\ file'.len > TotalSize /\ file'.data = kept'.data
        /\ power' = "off"
    BY <1>7, FileSaved DEF PowerOff
  <2> QED BY <2>1 DEF FileInv, RoundTrip
<1>8. CASE Kill
  <2>1. power' = "off"
    BY <1>8 DEF Kill
  <2>2. CASE UNCHANGED <<file, kept>>
    BY <2>1, <2>2 DEF FileInv, RoundTrip
  <2>3. CASE \E n \in CutLengths :
               /\ file' = [len |-> n, data |-> flash, extra |-> {}]
               /\ kept' = [kept EXCEPT !.ok = FALSE]
    <3>1. file'.len <= TotalSize /\ kept'.ok = FALSE
      BY <2>3, SpiFlashAssumption
    <3> QED BY <2>1, <3>1 DEF FileInv, RoundTrip
  <2> QED BY <1>8, <2>2, <2>3 DEF Kill
<1>9. CASE Start
  <2>1. UNCHANGED <<file, kept>>
    BY <1>9 DEF Start
  <2>2. CASE file.len > TotalSize
    <3>1. flash' = Filled(file.data) /\ power' = "boot" /\ kept.ok
      BY <1>9, <2>2, SpiFlashAssumption DEF Start, Load, FileInv
    <3>2. flash' = Filled(kept.data)
      BY <3>1 DEF FileInv
    <3> QED BY <2>1, <3>1, <3>2 DEF FileInv, RoundTrip, Filled
  <2>3. CASE ~(file.len > TotalSize)
    <3>1. ~fresh' /\ ~kept.ok
      BY <1>9, <2>3 DEF Start, FileInv
    <3> QED BY <2>1, <3>1 DEF FileInv, RoundTrip
  <2> QED BY <2>2, <2>3
<1>10. CASE NoChunk
  BY <1>10 DEF NoChunk, history, FileInv, RoundTrip, Filled
<1>11. CASE \E c \in Chunks : HexChunk(c)
  BY <1>11 DEF HexChunk, FileInv, RoundTrip
<1> QED
  BY <1>1, <1>2, <1>3, <1>4, <1>5, <1>6, <1>7, <1>8, <1>9, <1>10, <1>11
  DEF Next, Bus

\* What was saved comes back, and only a Save that was cut short makes the
\* program exit: the extra byte of Save() and Load() agree (w25x20cl.cpp:368-419).
THEOREM Persistence == Spec => []RoundTrip
<1>1. FileInv => RoundTrip
  BY DEF FileInv
<1> QED
  BY <1>1, Types, FileInit, FileStep, PTL DEF Spec

-----------------------------------------------------------------------------
(***************************************************************************)
(* The refinement.  While a page is programmed, the page buffer holds the  *)
(* bytes sent and, for the others, what the flash holds, unless a script   *)
(* rewrote the flash meanwhile.                                            *)
(***************************************************************************)
Programming == power = "on" /\ Complete({"PAGE_PROGRAM"}) /\ ~rewritten
PageInv ==
  /\ power = "boot" => ~wel /\ sent = Nothing /\ ~rewritten /\ state = "IDLE"
  /\ Programming =>
       /\ \A x \in DOMAIN sent : x \div PageSize = address \div PageSize
       /\ \A x \in Addr :
            x \div PageSize = address \div PageSize =>
              pageBuffer[x % PageSize] = IF x \in DOMAIN sent THEN sent[x] ELSE flash[x]

LEMMA PageInit == Init => PageInv
BY DEF Init, PageInv, Programming, Complete

LEMMA PageAddress ==
  ASSUME TypeInv, NEW raw \in RawAddresses, AddressByte(raw)
  PROVE  PageInv'
<1>1. power' = "on" /\ sent = Nothing /\ sent' = sent /\ DOMAIN sent = {}
      /\ flash' = flash
  BY DEF AddressByte, Loading, BusOnly, history, TypeInv, Nothing
<1>2. CASE command = "PAGE_PROGRAM"
  <2>1. address' \in Addr
    <3>1. raw \in Nat /\ TotalSize \in Nat \ {0}
      BY SpiFlashAssumption
    <3> QED BY <3>1, DivMod DEF AddressByte, Addr
  <2>2. ASSUME NEW x \in Addr, x \div PageSize = address' \div PageSize
        PROVE  pageBuffer'[x % PageSize] = flash[x]
    <3>1. x % PageSize \in Offset
      BY OffsetOf
    <3>2. /\ Base(PageSize, address') + (x % PageSize) \in Addr
          /\ (Base(PageSize, address') + (x % PageSize)) \div PageSize = x \div PageSize
          /\ (Base(PageSize, address') + (x % PageSize)) % PageSize = x % PageSize
      BY <2>1, <2>2, <3>1, InPage
    <3>3. Base(PageSize, address') + (x % PageSize) = x
      BY <3>2, SameOffset
    <3>4. pageBuffer'[x % PageSize] = flash[Base(PageSize, address') + (x % PageSize)]
      BY <1>2, <3>1 DEF AddressByte
    <3> QED BY <3>3, <3>4
  <2> QED BY <1>1, <2>2 DEF PageInv
<1>3. CASE command # "PAGE_PROGRAM"
  BY <1>1, <1>3 DEF AddressByte, PageInv, Programming, Complete
<1> QED BY <1>2, <1>3

LEMMA PageByte ==
  ASSUME TypeInv, PageInv, NEW b \in SentBytes, ProgramByte(b)
  PROVE  PageInv'
<1>1. /\ power = "on" /\ power' = "on" /\ Complete({"PAGE_PROGRAM"})
      /\ UNCHANGED <<flash, rewritten>> /\ address \in Addr
      /\ pageBuffer \in [Offset -> Byte]
      /\ sent' = [x \in DOMAIN sent \cup {address} |-> IF x = address THEN b ELSE sent[x]]
      /\ pageBuffer' = [pageBuffer EXCEPT ![address % PageSize] = b]
  BY DEF ProgramByte, Running, Complete, TypeInv, TypeOK
<1>2. address' \div PageSize = address \div PageSize
  <2>1. (address + 1) % PageSize \in Offset
    <3>1. address + 1 \in Nat /\ PageSize \in Nat \ {0}
      BY <1>1, SpiFlashAssumption DEF Addr
    <3> QED BY <3>1, DivMod DEF Offset
  <2> QED BY <1>1, <2>1, InPage DEF ProgramByte
<1>3. CASE rewritten
  BY <1>1, <1>3 DEF PageInv, Programming
<1>4. CASE ~rewritten
  <2>1. Programming
    BY <1>1, <1>4 DEF Programming
  <2>2. \A x \in DOMAIN sent' : x \div PageSize = address' \div PageSize
    BY <1>1, <1>2, <2>1 DEF PageInv
  <2>3. ASSUME NEW x \in Addr, x \div PageSize = address' \div PageSize
        PROVE  pageBuffer'[x % PageSize] =
                 IF x \in DOMAIN sent' THEN sent'[x] ELSE flash'[x]
    <3>1. x % PageSize \in Offset /\ address % PageSize \in Offset
      BY <1>1, OffsetOf
    <3>2. CASE x = address
      BY <1>1, <3>1, <3>2
    <3>3. CASE x # address
      <4>1. x % PageSize # address % PageSize
        BY <1>1, <1>2, <2>3, <3>3, SameOffset
      <4>2. pageBuffer'[x % PageSize] = pageBuffer[x % PageSize]
        BY <1>1, <3>1, <4>1
      <4>3. pageBuffer[x % PageSize] = IF x \in DOMAIN sent THEN sent[x] ELSE flash[x]
        BY <1>2, <2>1, <2>3 DEF PageInv
      <4> QED BY <1>1, <3>3, <4>2, <4>3
    <3> QED BY <3>2, <3>3
  <2> QED BY <1>1, <2>2, <2>3 DEF PageInv
<1> QED BY <1>3, <1>4

LEMMA PageOthers ==
  ASSUME TypeInv, PageInv,
         \/ Select \/ NextByte \/ UidByte \/ ReadByte
         \/ \E c \in Commands : FirstByte(c)
         \/ EndProgram \/ EndErase \/ EndLatch \/ EndOther
         \/ ScriptLoad \/ ScriptSave \/ \E b \in FillBytes \cup {Bits} : ScriptFill(b)
         \/ PowerOff \/ Kill \/ Start \/ NoChunk \/ \E c \in Chunks : HexChunk(c)
         \/ UNCHANGED vars
  PROVE  PageInv'
<1> USE DEF PageInv, Programming, Complete
<1>1. CASE Select \/ EndProgram \/ EndErase \/ EndLatch \/ EndOther
  BY <1>1 DEF Select, EndProgram, EndErase, EndLatch, EndOther, Deselect
<1>2. CASE NextByte
  BY <1>2 DEF NextByte, Loading, BusOnly, history
<1>3. CASE UidByte
  BY <1>3 DEF UidByte, Loading, BusOnly, history
<1>4. CASE ReadByte
  BY <1>4 DEF ReadByte, Running, BusOnly, history
<1>5. CASE \E c \in Commands : FirstByte(c)
  BY <1>5 DEF FirstByte, Loading, BusOnly, history, OneByte
<1>6. CASE ScriptLoad
  <2>1. CASE file.len < TotalSize
    <3>1. UNCHANGED <<power, flash, pageBuffer>> /\ power = "on" /\ (rewritten => rewritten')
      BY <1>6, <2>1, SpiFlashAssumption DEF ScriptLoad, Script, Load, TypeInv, TypeOK
    <3> QED BY <1>6, <3>1 DEF ScriptLoad, Script, busVars
  <2>2. CASE ~(file.len < TotalSize)
    <3>1. rewritten' /\ power' # "boot"
      <4>1. file.len >= TotalSize
        BY <2>2, SpiFlashAssumption DEF TypeInv, TypeOK
      <4> QED BY <1>6, <4>1 DEF ScriptLoad, Load
    <3> QED BY <3>1
  <2> QED BY <2>1, <2>2
<1>7. CASE ScriptSave
  BY <1>7 DEF ScriptSave, Script, busVars
<1>8. CASE \E b \in FillBytes \cup {Bits} : ScriptFill(b)
  BY <1>8 DEF ScriptFill, Script
<1>9. CASE PowerOff \/ Kill
  BY <1>9 DEF PowerOff, Kill
<1>10. CASE Start
  BY <1>10 DEF Start, NewChip
<1>11. CASE NoChunk \/ \E c \in Chunks : HexChunk(c)
  <2>1. power = "boot" /\ power' = "on" /\ UNCHANGED busVars
    BY <1>11 DEF NoChunk, HexChunk
  <2>2. state' = "IDLE"
    BY <2>1 DEF busVars
  <2> QED BY <2>1, <2>2
<1>12. CASE UNCHANGED vars
  BY <1>12 DEF vars, busVars, history
<1> QED
  BY <1>1, <1>2, <1>3, <1>4, <1>5, <1>6, <1>7, <1>8, <1>9, <1>10, <1>11, <1>12

LEMMA PageStep == TypeInv /\ PageInv /\ [Next]_vars => PageInv'
<1> SUFFICES ASSUME TypeInv, PageInv, [Next]_vars PROVE PageInv'
  OBVIOUS
<1> QED BY PageAddress, PageByte, PageOthers DEF Next, Bus

THEOREM Pages == Spec => []PageInv
BY PageInit, PageStep, Types, PTL DEF Spec

-----------------------------------------------------------------------------
(***************************************************************************)
(* Each action is a step of NorFlash, or none.                             *)
(***************************************************************************)
NorStutters == UNCHANGED <<power = "on", flash, wel, sent, rewritten>>

LEMMA NorInit == Init => Nor!Init
<1> SUFFICES ASSUME Init PROVE Nor!Init
  OBVIOUS
<1>1. flash \in [Nor!Addr -> Nor!Byte]
  BY Sizes DEF Init, Nor!Addr, Nor!Byte, Addr, Byte
<1>2. (power = "on") = FALSE
  BY DEF Init
<1>3. wel = FALSE /\ sent = Nothing /\ rewritten = FALSE
  BY DEF Init
<1> QED BY <1>1, <1>2, <1>3 DEF Nor!Init, Nor!Nothing, Nothing

\* What the chip does while it is selected but for a byte to program.
LEMMA NorQuiet ==
  ASSUME \/ NextByte \/ UidByte \/ ReadByte
         \/ \E c \in Commands : FirstByte(c)
         \/ \E raw \in RawAddresses : AddressByte(raw)
         \/ ScriptSave \/ UNCHANGED vars
  PROVE  NorStutters
<1>1. UNCHANGED <<power, flash, wel, sent, rewritten>>
  BY DEF NextByte, UidByte, ReadByte, FirstByte, AddressByte, BusOnly, history,
         ScriptSave, Script, vars
<1> QED BY <1>1 DEF NorStutters

LEMMA NorBegin ==
  ASSUME Select \/ EndOther
  PROVE  Nor!Begin
BY DEF Select, EndOther, Deselect, Nor!Begin, Nor!StaysOn, Nor!EndTransaction,
       Nor!Nothing, Nothing

LEMMA NorSendByte ==
  ASSUME TypeInv, NEW b \in SentBytes, ProgramByte(b)
  PROVE  Nor!SendByte
<1>1. address \in Nor!Addr /\ b \in Nor!Byte
  BY SpiFlashAssumption DEF ProgramByte, TypeInv, TypeOK, Nor!Addr, Nor!Byte, Addr, Byte
<1>2. sent' = [x \in DOMAIN sent \cup {address} |-> IF x = address THEN b ELSE sent[x]]
  BY DEF ProgramByte
<1>3. power = "on" /\ power' = "on" /\ UNCHANGED <<flash, wel, rewritten>>
  BY DEF ProgramByte, Running
<1> QED BY <1>1, <1>2, <1>3 DEF Nor!SendByte, Nor!StaysOn

LEMMA NorLatch ==
  ASSUME EndLatch
  PROVE  Nor!SetLatch
<1>1. wel' \in BOOLEAN
  BY Zenon DEF EndLatch
<1> QED
  BY <1>1 DEF EndLatch, Deselect, Nor!SetLatch, Nor!StaysOn, Nor!EndTransaction,
              Nor!Nothing, Nothing

LEMMA NorProgram ==
  ASSUME TypeInv, PageInv, EndProgram
  PROVE  Nor!Program \/ Nor!ProgramReplaced
<1>1. /\ power = "on" /\ power' = "on" /\ wel /\ wel' = FALSE
      /\ sent' = Nothing /\ rewritten' = FALSE
      /\ flash' = Programmed /\ Complete({"PAGE_PROGRAM"})
      /\ address \in Addr /\ flash \in [Addr -> Byte] /\ pageBuffer \in [Offset -> Byte]
      /\ DOMAIN sent \subseteq Addr /\ rewritten \in BOOLEAN
  BY DEF EndProgram, Deselect, Complete, TypeInv, TypeOK
<1>2. Nor!Addr = Addr /\ Nor!Byte = Byte /\ Nor!Nothing = Nothing
  BY DEF Nor!Addr, Nor!Byte, Nor!Nothing, Addr, Byte, Nothing
<1>3. Nor!Region(PageSize, address) = {x \in Addr : x \div PageSize = address \div PageSize}
  BY DEF Nor!Region, Nor!Addr, Addr
<1>4. Nor!StaysOn /\ Nor!EndTransaction
  BY <1>1, <1>2 DEF Nor!StaysOn, Nor!EndTransaction
<1>5. CASE ~rewritten
  <2>1. Programming
    BY <1>1, <1>5 DEF Programming
  <2>2. DOMAIN sent \subseteq Nor!Region(PageSize, address)
    BY <1>1, <1>3, <2>1 DEF PageInv
  <2>3. ASSUME NEW x \in Addr
        PROVE  flash'[x] = IF x \in DOMAIN sent THEN flash[x] \cap sent[x] ELSE flash[x]
    <3>1. CASE x \div PageSize = address \div PageSize
      <4>1. pageBuffer[x % PageSize] = IF x \in DOMAIN sent THEN sent[x] ELSE flash[x]
        BY <2>1, <3>1 DEF PageInv
      <4>2. flash'[x] = flash[x] \cap pageBuffer[x % PageSize]
        BY <1>1, <3>1 DEF Programmed
      <4> QED BY <4>1, <4>2
    <3>2. CASE x \div PageSize # address \div PageSize
      <4>1. x \notin DOMAIN sent
        BY <2>1, <3>2 DEF PageInv
      <4> QED BY <1>1, <3>2, <4>1 DEF Programmed
    <3> QED BY <3>1, <3>2
  <2>4. flash' = [x \in Addr |-> IF x \in DOMAIN sent THEN flash[x] \cap sent[x]
                                                      ELSE flash[x]]
    BY <1>1, <2>3 DEF Programmed
  <2> QED BY <1>1, <1>2, <1>4, <1>5, <2>2, <2>4 DEF Nor!Program
<1>6. CASE rewritten
  <2>1. ASSUME NEW x \in Addr
        PROVE  IF x \in Nor!Region(PageSize, address)
               THEN flash'[x] \subseteq flash[x] ELSE flash'[x] = flash[x]
    BY <1>1, <1>3 DEF Programmed
  <2>2. flash' \in [Addr -> Byte]
    <3>1. \A x \in Addr : flash[x] \cap pageBuffer[x % PageSize] \in Byte
      BY <1>1 DEF Byte
    <3> QED BY <1>1, <3>1 DEF Programmed
  <2> QED BY <1>1, <1>2, <1>4, <1>6, <2>1, <2>2 DEF Nor!ProgramReplaced
<1> QED BY <1>5, <1>6

LEMMA NorErase ==
  ASSUME TypeInv, EndErase
  PROVE  Nor!Erase
<1> DEFINE size == EraseSize[command]
<1>1. /\ command \in DOMAIN EraseSize /\ address \in Addr
      /\ size \in {SectorSize, Block32Size, Block64Size, TotalSize}
  BY DEF EndErase, Complete, EraseSize, TypeInv, TypeOK
<1>2. flash' = Erased(size)
  BY DEF EndErase
<1> HIDE DEF size
<1>3. flash' = [x \in Nor!Addr |-> IF x \in Nor!Region(size, address)
                                   THEN Bits ELSE flash[x]]
  BY <1>2 DEF Erased, Nor!Region, Nor!Addr, Addr
<1>4. /\ Nor!StaysOn /\ Nor!EndTransaction /\ wel /\ wel' = FALSE
      /\ address \in Nor!Addr
  BY <1>1 DEF EndErase, Deselect, Nor!StaysOn, Nor!EndTransaction, Nor!Nothing,
              Nothing, Nor!Addr, Addr
<1> QED BY <1>1, <1>3, <1>4 DEF Nor!Erase

\* A script action that rewrites the flash replaces it.
LEMMA NorReplace ==
  ASSUME TypeInv, TypeInv', ScriptLoad \/ \E b \in FillBytes \cup {Bits} : ScriptFill(b)
  PROVE  Nor!Replace \/ NorStutters
<1>1. /\ power = "on" /\ UNCHANGED <<wel, sent>>
      /\ flash' \in [Nor!Addr -> Nor!Byte]
  BY DEF ScriptLoad, ScriptFill, Script, TypeInv, TypeOK, Nor!Addr, Nor!Byte, Addr, Byte
<1>2. (power' = "on") \in BOOLEAN
  BY Zenon
<1>3. CASE rewritten' = TRUE
  BY <1>1, <1>2, <1>3 DEF Nor!Replace
<1>4. CASE rewritten' # TRUE
  <2>1. ScriptLoad /\ ~(file.len >= TotalSize) /\ rewritten' = rewritten
    <3>1. ScriptLoad
      BY <1>4 DEF ScriptFill
    <3>2. rewritten' = (rewritten \/ file.len >= TotalSize) /\ rewritten \in BOOLEAN
      BY <3>1 DEF ScriptLoad, TypeInv, TypeOK
    <3>3. CASE file.len >= TotalSize
      BY <1>4, <3>2, <3>3
    <3>4. CASE ~(file.len >= TotalSize)
      BY <3>1, <3>2, <3>4
    <3> QED BY <3>3, <3>4
  <2>2. UNCHANGED <<flash, power>>
    BY <1>1, <2>1, SpiFlashAssumption DEF ScriptLoad, Load, TypeInv, TypeOK
  <2> QED BY <1>1, <2>1, <2>2 DEF NorStutters
<1> QED BY <1>3, <1>4

LEMMA NorSwitchOff ==
  ASSUME PowerOff \/ Kill
  PROVE  Nor!SwitchOff
BY DEF PowerOff, Kill, Nor!SwitchOff

LEMMA NorStart ==
  ASSUME TypeInv', PageInv, Start \/ NoChunk \/ \E c \in Chunks : HexChunk(c)
  PROVE  Nor!Start
<1>1. /\ power # "on" /\ flash' \in [Nor!Addr -> Nor!Byte]
  BY DEF Start, NoChunk, HexChunk, TypeInv, TypeOK, Nor!Addr, Nor!Byte, Addr, Byte
<1>2. wel' = FALSE /\ sent' = Nothing /\ rewritten' = FALSE
  <2>1. wel' \in BOOLEAN /\ rewritten' \in BOOLEAN
    BY DEF TypeInv, TypeOK
  <2>2. ~wel' /\ sent' = Nothing /\ ~rewritten'
    BY DEF Start, NewChip, NoChunk, HexChunk, PageInv, history
  <2> QED BY <2>1, <2>2
<1>3. (power' = "on") \in BOOLEAN
  BY Zenon
<1> QED BY <1>1, <1>2, <1>3 DEF Nor!Start, Nor!EndTransaction, Nor!Nothing, Nothing

LEMMA NorStep ==
  ASSUME TypeInv, TypeInv', PageInv, [Next]_vars
  PROVE  [Nor!Next]_(Nor!norVars)
<1>1. NorStutters => UNCHANGED Nor!norVars
  BY DEF NorStutters, Nor!norVars
<1> SUFFICES Nor!Next \/ NorStutters
  BY <1>1
<1>2. CASE \/ NextByte \/ UidByte \/ ReadByte
           \/ \E c \in Commands : FirstByte(c)
           \/ \E raw \in RawAddresses : AddressByte(raw)
           \/ ScriptSave \/ UNCHANGED vars
  BY <1>2, NorQuiet
<1>3. CASE Select \/ EndOther
  BY <1>3, NorBegin DEF Nor!Next
<1>4. CASE \E b \in SentBytes : ProgramByte(b)
  BY <1>4, NorSendByte DEF Nor!Next
<1>5. CASE EndLatch
  BY <1>5, NorLatch DEF Nor!Next
<1>6. CASE EndProgram
  BY <1>6, NorProgram DEF Nor!Next
<1>7. CASE EndErase
  BY <1>7, NorErase DEF Nor!Next
<1>8. CASE ScriptLoad \/ \E b \in FillBytes \cup {Bits} : ScriptFill(b)
  BY <1>8, NorReplace DEF Nor!Next
<1>9. CASE PowerOff \/ Kill
  BY <1>9, NorSwitchOff DEF Nor!Next
<1>10. CASE Start \/ NoChunk \/ \E c \in Chunks : HexChunk(c)
  BY <1>10, NorStart DEF Nor!Next
<1> QED
  BY <1>2, <1>3, <1>4, <1>5, <1>6, <1>7, <1>8, <1>9, <1>10 DEF Next, Bus

\* Whatever the firmware sends and the scripts do, the flash changes only as a
\* NOR flash does (w25x20cl.cpp:82-296).
THEOREM Refinement == Spec => NorImplemented
<1>1. Spec => [](TypeInv /\ PageInv)
  BY Types, Pages, PTL
<1>2. [][Next]_vars /\ [](TypeInv /\ PageInv) => [][Nor!Next]_(Nor!norVars)
  <2>1. TypeInv /\ TypeInv' /\ PageInv /\ [Next]_vars => [Nor!Next]_(Nor!norVars)
    BY NorStep
  <2> QED BY <2>1, PTL
<1> QED
  BY <1>1, <1>2, NorInit, PTL DEF Spec, NorImplemented, Nor!Spec
=============================================================================
