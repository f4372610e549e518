--------------------------- MODULE UartPty_proofs ---------------------------
(***************************************************************************)
(* Theorems about UartPty for every size of the buffers and every bound.   *)
(***************************************************************************)
EXTENDS UartPty, SequenceTheorems, TLAPS

Any == Bytes \cup {Stale}

\* A prefix of a sequence, and what is left of it, are sequences of the same
\* elements that share its length.
LEMMA Split ==
  ASSUME NEW S, NEW s \in Seq(S), NEW n \in 0..Len(s)
  PROVE  /\ SubSeq(s, 1, n) \in Seq(S) /\ Len(SubSeq(s, 1, n)) = n
         /\ SubSeq(s, n + 1, Len(s)) \in Seq(S)
         /\ Len(SubSeq(s, n + 1, Len(s))) = Len(s) - n
<1>1. \A i \in 1..n : s[i] \in S
  BY ElementOfSeq
<1>2. \A i \in n+1..Len(s) : s[i] \in S
  BY ElementOfSeq
<1> QED
  BY <1>1, <1>2, SubSeqProperties

\* AtMost takes no more than there is, nor than is asked for.
LEMMA AtMostBounds ==
  ASSUME NEW S, NEW s \in Seq(S), NEW n \in Nat
  PROVE  AtMost(n, s) \in 0..Len(s) /\ AtMost(n, s) <= n
BY DEF AtMost

-----------------------------------------------------------------------------
(***************************************************************************)
(* Types.  A byte that no read() delivered can only be in the buffers once *)
(* the descriptor is closed, and then the AVR has stopped.                 *)
(***************************************************************************)
StaleInv ==
  /\ Open => out \in Seq(Bytes) /\ buffer \in Seq(Bytes)
  /\ mpc # "live" => apc = "stopped"

PortInv == TypeOK /\ StaleInv

LEMMA PortInit == Init => PortInv
<1> SUFFICES ASSUME Init PROVE PortInv
  OBVIOUS
<1>1. /\ <<>> \in Seq(Bytes) /\ <<>> \in Seq(Any) /\ Len(<<>>) = 0
  BY EmptySeq
<1>2. /\ xOn \in BOOLEAN /\ timer \in BOOLEAN /\ trap \in BOOLEAN
      /\ readSet \in BOOLEAN /\ writeSet \in BOOLEAN /\ rxOn \in BOOLEAN
  BY Zenon DEF Init
<1> QED
  BY <1>1, <1>2, UartPtyAssumption DEF Init, PortInv, TypeOK, StaleInv, Open, Any

\* The callbacks of the AVR thread.
LEMMA PortAvr ==
  ASSUME PortInv, AvrCallback \/ FirmwareEnables \/ FirmwareReads
                    \/ AvrReset \/ AvrStops \/ \E b \in Bytes : Send(b)
  PROVE  PortInv'
<1> USE UartPtyAssumption DEF PortInv, TypeOK, StaleInv, Open, AvrAt, XOn,
        ptyVars, fifoVars, avrVars, uartVars, counters
<1>1. CASE \E b \in Bytes : Send(b)
  BY <1>1 DEF Send
<1>2. CASE SendLocked
  <2>1. in' \in Seq(Bytes) /\ Len(in') <= FifoSize
    BY <1>2, AppendProperties DEF SendLocked
  <2> QED BY <1>2, <2>1 DEF SendLocked
<1>3. CASE FlushTimer
  BY <1>3 DEF FlushTimer
<1>4. CASE FlushLock
  BY <1>4 DEF FlushLock
<1>5. CASE FlushByte
  <2>1. /\ out \in Seq(Bytes) /\ out # <<>>
        /\ mpc = "live" /\ UNCHANGED <<mpc, buffer, apc>>
    BY <1>5 DEF FlushByte
  <2>2. /\ Head(out) \in Bytes /\ out' \in Seq(Bytes) /\ out' \in Seq(Any)
        /\ Len(out') <= FifoSize
    BY <1>5, <2>1, HeadTailProperties, SeqMonotonic DEF FlushByte, Any
  <2>3. /\ Received(Head(out)) \in Seq(Bytes)
        /\ Len(Received(Head(out))) <= RxSize
    BY <2>2, AppendProperties DEF Received
  <2>4. rxq' \in Seq(Bytes) /\ Len(rxq') <= RxSize
    BY <1>5, <2>3 DEF FlushByte
  <2>5. xOn' \in BOOLEAN /\ timer' \in BOOLEAN /\ trap' \in BOOLEAN
    BY <1>5, Zenon DEF FlushByte
  <2> HIDE DEF XOn
  <2> QED BY <1>5, <2>1, <2>2, <2>4, <2>5 DEF FlushByte, Any
<1>6. CASE FlushEnd
  BY <1>6 DEF FlushEnd
<1>7. CASE FirmwareEnables
  BY <1>7 DEF FirmwareEnables
<1>8. CASE FirmwareReads
  <2>1. rxq' \in Seq(Bytes) /\ Len(rxq') <= RxSize
    BY <1>8, HeadTailProperties DEF FirmwareReads
  <2> QED BY <1>8, <2>1 DEF FirmwareReads
<1>9. CASE AvrReset
  <2>1. rxq' \in Seq(Bytes) /\ Len(rxq') <= RxSize
    BY <1>9, EmptySeq DEF AvrReset
  <2>2. timer' \in BOOLEAN /\ trap' \in BOOLEAN /\ rxOn' \in BOOLEAN
    BY <1>9, Zenon DEF AvrReset
  <2> QED BY <1>9, <2>1, <2>2 DEF AvrReset
<1>10. CASE AvrStops
  BY <1>10 DEF AvrStops
<1> QED
  BY <1>1, <1>2, <1>3, <1>4, <1>5, <1>6, <1>7, <1>8, <1>9, <1>10 DEF AvrCallback

\* The thread of the port.
LEMMA PortThread ==
  ASSUME PortInv, PtyThread
  PROVE  PortInv'
<1> USE UartPtyAssumption DEF PortInv, TypeOK, StaleInv, Open, PtyAt,
        ptyVars, fifoVars, avrVars, uartVars, counters
<1>1. CASE LoopTest
  BY <1>1 DEF LoopTest
<1>2. CASE FillSets
  <2>1. readSet' \in BOOLEAN /\ writeSet' \in BOOLEAN
    BY <1>2, Zenon DEF FillSets
  <2> QED BY <1>2, <2>1 DEF FillSets
<1>3. CASE Select
  <2>1. readSet' \in BOOLEAN /\ writeSet' \in BOOLEAN
    BY <1>3, Zenon DEF Select
  <2> QED BY <1>3, <2>1 DEF Select
<1>4. CASE SelectFails
  BY <1>4 DEF SelectFails
<1>5. CASE Read
  <2> DEFINE n == AtMost(BufSize, ttyIn)
  <2>1. n \in 0..Len(ttyIn) /\ n <= BufSize
    BY AtMostBounds
  <2>2. /\ SubSeq(ttyIn, 1, n) \in Seq(Bytes) /\ Len(SubSeq(ttyIn, 1, n)) = n
        /\ SubSeq(ttyIn, n + 1, Len(ttyIn)) \in Seq(Bytes)
        /\ Len(SubSeq(ttyIn, n + 1, Len(ttyIn))) = Len(ttyIn) - n
    BY <2>1, Split
  <2>3. SubSeq(ttyIn, 1, n) \in Seq(Any)
    BY <2>2, SeqMonotonic DEF Any
  <2>4. /\ [i \in 1..BufSize |-> Stale] \in Seq(Any)
        /\ Len([i \in 1..BufSize |-> Stale]) = BufSize
    BY DEF Any
  <2> HIDE DEF n
  <2>5. /\ buffer' \in Seq(Any) /\ Len(buffer') <= BufSize
        /\ ttyIn' \in Seq(Bytes) /\ Len(ttyIn') <= TtySize
        /\ ~Closed => buffer' \in Seq(Bytes)
    <3>1. CASE ~readSet
      BY <1>5, <3>1 DEF Read, Closed, Any
    <3>2. CASE readSet /\ Closed
      BY <1>5, <2>4, <3>2 DEF Read, Closed, Any
    <3>3. CASE readSet /\ ~Closed
      <4>1. /\ buffer' = SubSeq(ttyIn, 1, n)
            /\ ttyIn' = SubSeq(ttyIn, n + 1, Len(ttyIn))
        BY <1>5, <3>3 DEF Read, n
      <4> QED BY <2>1, <2>2, <2>3, <4>1
    <3> QED BY <3>1, <3>2, <3>3
  <2> QED BY <1>5, <2>5 DEF Read, Closed, Any
<1>6. CASE Fill
  <2> DEFINE n == AtMost(FifoSize - Len(out), buffer)
  <2>1. n \in 0..Len(buffer) /\ n <= FifoSize - Len(out)
    <3>1. FifoSize - Len(out) \in Nat
      BY LenProperties
    <3> QED BY <3>1, AtMostBounds
  <2>a. /\ buffer \in Seq(Any)
        /\ Open => buffer \in Seq(Bytes)
    BY DEF Any
  <2> HIDE DEF n
  <2>2. /\ SubSeq(buffer, 1, n) \in Seq(Any) /\ Len(SubSeq(buffer, 1, n)) = n
        /\ SubSeq(buffer, n + 1, Len(buffer)) \in Seq(Any)
        /\ Len(SubSeq(buffer, n + 1, Len(buffer))) = Len(buffer) - n
    BY <2>1, <2>a, Split
  <2>3. Open => /\ SubSeq(buffer, 1, n) \in Seq(Bytes)
                /\ SubSeq(buffer, n + 1, Len(buffer)) \in Seq(Bytes)
    BY <2>1, <2>a, Split
  <2>4. /\ out' \in Seq(Any) /\ Len(out') <= FifoSize
        /\ buffer' \in Seq(Any) /\ Len(buffer') <= BufSize
        /\ Open => out' \in Seq(Bytes) /\ buffer' \in Seq(Bytes)
    <3>1. /\ out' = out \o SubSeq(buffer, 1, n)
          /\ buffer' = SubSeq(buffer, n + 1, Len(buffer))
      BY <1>6 DEF Fill, n
    <3>2. /\ out' \in Seq(Any)
          /\ Len(out') = Len(out) + n
      BY <2>2, <3>1, ConcatProperties DEF Any
    <3>3. Open => out' \in Seq(Bytes)
      BY <2>3, <3>1, ConcatProperties
    <3> QED BY <2>1, <2>2, <2>3, <3>1, <3>2, <3>3
  <2> QED BY <1>6, <2>4 DEF Fill, Any
<1>7. CASE Drain
  <2> DEFINE n == AtMost(BufSize, in)
  <2>1. n \in 0..Len(in) /\ n <= BufSize
    BY AtMostBounds
  <2>2. /\ SubSeq(in, 1, n) \in Seq(Bytes) /\ Len(SubSeq(in, 1, n)) = n
        /\ SubSeq(in, n + 1, Len(in)) \in Seq(Bytes)
        /\ Len(SubSeq(in, n + 1, Len(in))) = Len(in) - n
    BY <2>1, Split
  <2> HIDE DEF n
  <2>3. /\ in' \in Seq(Bytes) /\ Len(in') <= FifoSize
        /\ batch' \in Seq(Bytes) /\ Len(batch') <= BufSize
    <3>1. CASE ~writeSet
      BY <1>7, <3>1 DEF Drain
    <3>2. CASE writeSet
      <4>1. /\ batch' = IF Closed THEN <<>> ELSE SubSeq(in, 1, n)
            /\ in' = SubSeq(in, n + 1, Len(in))
        BY <1>7, <3>2 DEF Drain, n
      <4>2. <<>> \in Seq(Bytes) /\ Len(<<>>) = 0
        BY EmptySeq
      <4> QED BY <2>1, <2>2, <4>1, <4>2
    <3> QED BY <3>1, <3>2
  <2> QED BY <1>7, <2>3 DEF Drain
<1>8. CASE WriteByte
  <2>1. /\ Head(batch) \in Bytes /\ batch' \in Seq(Bytes)
        /\ Len(batch') <= BufSize
    BY <1>8, HeadTailProperties DEF WriteByte
  <2>2. ttyOut' \in Seq(Bytes) /\ Len(ttyOut') <= TtySize
    BY <1>8, <2>1, AppendProperties DEF WriteByte
  <2> QED BY <1>8, <2>1, <2>2 DEF WriteByte
<1>9. CASE WriteEnd
  BY <1>9 DEF WriteEnd
<1> QED
  BY <1>1, <1>2, <1>3, <1>4, <1>5, <1>6, <1>7, <1>8, <1>9 DEF PtyThread

\* The main thread and the program on the host.
LEMMA PortRest ==
  ASSUME PortInv, MainThread \/ HostReads \/ \E b \in Bytes : HostTypes(b)
  PROVE  PortInv'
<1> USE UartPtyAssumption DEF PortInv, TypeOK, StaleInv, Open,
        ptyVars, fifoVars, avrVars, uartVars, counters
<1>1. CASE Quit
  BY <1>1 DEF Quit
<1>2. CASE Close
  <2>1. <<>> \in Seq(Bytes) /\ Len(<<>>) = 0
    BY EmptySeq
  <2>2. batch' = batch \/ batch' = <<>>
    BY <1>2 DEF Close
  <2>3. 0 <= BufSize /\ batch \in Seq(Bytes) /\ Len(batch) <= BufSize
    OBVIOUS
  <2>4. batch' \in Seq(Bytes) /\ Len(batch') <= BufSize
    <3>1. CASE batch' = batch
      BY <2>3, <3>1
    <3>2. CASE batch' = <<>>
      <4>1. batch' \in Seq(Bytes)
        BY <2>1, <3>2, Zenon
      <4>2. Len(batch') = 0
        BY <2>1, <3>2, Zenon
      <4> QED BY <2>3, <4>1, <4>2
    <3> QED BY <2>2, <3>1, <3>2
  <2> QED BY <1>2, <2>4 DEF Close
<1>3. CASE Join
  BY <1>3 DEF Join
<1>4. CASE HostReads
  <2>1. ttyOut' \in Seq(Bytes) /\ Len(ttyOut') <= TtySize
    BY <1>4, HeadTailProperties DEF HostReads
  <2> QED BY <1>4, <2>1 DEF HostReads
<1>5. CASE \E b \in Bytes : HostTypes(b)
  <2>1. ttyIn' \in Seq(Bytes) /\ Len(ttyIn') <= TtySize
    BY <1>5, AppendProperties DEF HostTypes
  <2> QED BY <1>5, <2>1 DEF HostTypes
<1> QED
  BY <1>1, <1>2, <1>3, <1>4, <1>5 DEF MainThread

LEMMA PortStep == PortInv /\ [Next]_vars => PortInv'
<1> SUFFICES ASSUME PortInv, [Next]_vars PROVE PortInv'
  OBVIOUS
<1>1. CASE UNCHANGED vars
  BY <1>1 DEF PortInv, TypeOK, StaleInv, Open, vars, fifoVars, avrVars,
              ptyVars, uartVars, counters
<1>2. CASE Next
  BY <1>2, PortAvr, PortThread, PortRest DEF Next
<1> QED
  BY <1>1, <1>2

\* The invariant of the types is one of the specification.
THEOREM PortTypes == Spec => []PortInv
BY PortInit, PortStep, PTL DEF Spec

\* No buffer of a serial port is ever filled beyond its room, and none holds a
\* byte that is not one of the port's (uart_pty.cpp:75-281).
THEOREM TypeCorrect == Spec => []TypeOK
BY PortTypes, PTL DEF PortInv

-----------------------------------------------------------------------------
(***************************************************************************)
(* XON and the timer.  A receiver that is off is empty, and nothing will   *)
(* flush into it; XON, where it matters, means room; the timer covers      *)
(* every moment outside the callbacks at which XON holds.                  *)
(***************************************************************************)
XonInv ==
  /\ ~rxOn => rxq = <<>> /\ ~timer
  /\ rxOn /\ xOn => Len(rxq) < RxSize
  /\ apc \in {"flushLock", "flush"} => rxOn
  /\ FlushArmed

LEMMA XonInit == Init => XonInv
BY DEF Init, XonInv, FlushArmed

LEMMA XonAvr ==
  ASSUME PortInv, XonInv, AvrCallback \/ FirmwareEnables \/ FirmwareReads
                    \/ AvrReset \/ AvrStops \/ \E b \in Bytes : Send(b)
  PROVE  XonInv'
<1> USE UartPtyAssumption DEF XonInv, FlushArmed, AvrAt
<1>0. rxq \in Seq(Bytes) /\ Len(rxq) \in Nat /\ Len(rxq) <= RxSize
  BY LenProperties DEF PortInv, TypeOK
<1>1. CASE \E b \in Bytes : Send(b)
  BY <1>1 DEF Send, uartVars
<1>2. CASE SendLocked
  BY <1>2 DEF SendLocked, uartVars
<1>3. CASE FlushTimer
  BY <1>3 DEF FlushTimer, uartVars
<1>4. CASE FlushLock
  BY <1>4 DEF FlushLock, uartVars
<1>5. CASE FlushByte
  <2>1. /\ rxOn /\ rxOn' /\ xOn /\ apc = "flush" /\ apc' = "flush"
        /\ Len(rxq) < RxSize
    BY <1>5 DEF FlushByte
  <2>2. ASSUME NEW b PROVE Len(Append(rxq, b)) = Len(rxq) + 1
    BY <1>0
  <2>3. CASE trap /\ Head(out) = Newline
    BY <1>5, <2>1, <2>3 DEF FlushByte
  <2>4. CASE ~(trap /\ Head(out) = Newline)
    <3>1. /\ rxq' = Append(rxq, Head(out))
          /\ xOn' => Len(Append(rxq, Head(out))) # RxSize
      BY <1>5, <2>1, <2>4 DEF FlushByte, Received
    <3>2. xOn' => Len(rxq') < RxSize
      BY <1>0, <2>1, <2>2, <3>1
    <3> QED BY <2>1, <3>2
  <2> QED BY <2>3, <2>4
<1>6. CASE FlushEnd
  BY <1>6 DEF FlushEnd, uartVars
<1>7. CASE FirmwareEnables
  BY <1>7, <1>0 DEF FirmwareEnables, XOn
<1>8. CASE FirmwareReads
  <2>1. Len(Tail(rxq)) = Len(rxq) - 1
    BY <1>8, <1>0, HeadTailProperties DEF FirmwareReads
  <2> QED BY <1>8, <1>0, <2>1 DEF FirmwareReads, XOn
<1>9. CASE AvrReset
  BY <1>9 DEF AvrReset
<1>10. CASE AvrStops
  BY <1>10 DEF AvrStops, uartVars
<1> QED
  BY <1>1, <1>2, <1>3, <1>4, <1>5, <1>6, <1>7, <1>8, <1>9, <1>10 DEF AvrCallback

\* No other thread touches what XonInv speaks of.
LEMMA XonOthers ==
  ASSUME XonInv, PtyThread \/ MainThread \/ HostReads
                   \/ \E b \in Bytes : HostTypes(b)
  PROVE  XonInv'
<1>1. UNCHANGED <<avrVars, uartVars>>
  BY DEF PtyThread, LoopTest, FillSets, Select, SelectFails, Read, Fill, Drain,
         WriteByte, WriteEnd, MainThread, Quit, Close, Join, HostReads, HostTypes
<1> QED
  BY <1>1 DEF XonInv, FlushArmed, avrVars, uartVars

LEMMA XonStep == PortInv /\ XonInv /\ [Next]_vars => XonInv'
<1> SUFFICES ASSUME PortInv, XonInv, [Next]_vars PROVE XonInv'
  OBVIOUS
<1>1. CASE UNCHANGED vars
  BY <1>1 DEF XonInv, FlushArmed, vars, avrVars, uartVars
<1>2. CASE Next
  BY <1>2, XonAvr, XonOthers DEF Next
<1> QED
  BY <1>1, <1>2

THEOREM XonHolds == Spec => []XonInv
BY PortTypes, XonInit, XonStep, PTL DEF Spec

\* FlushData never raises a byte the UART would refuse: no byte of the host is
\* lost between pty.out and the UART (uart_pty.cpp:92-179).
THEOREM Flow == Spec => []NothingRefused
<1>1. XonInv => NothingRefused
  BY DEF XonInv, NothingRefused
<1> QED
  BY <1>1, XonHolds, PTL

\* Outside the callbacks the flush timer is registered whenever XON holds for a
\* receiver that is on (OnXOnIn, OnFlushTimer, OnXOffIn).
THEOREM Armed == Spec => []FlushArmed
<1>1. XonInv => FlushArmed
  BY DEF XonInv
<1> QED
  BY <1>1, XonHolds, PTL

-----------------------------------------------------------------------------
(***************************************************************************)
(* Moving bytes along a row of queues.                                     *)
(***************************************************************************)
LEMMA TailOfConcat ==
  ASSUME NEW S, NEW s \in Seq(S), NEW t \in Seq(S), s # <<>>
  PROVE  /\ s \o t # <<>>
         /\ Head(s \o t) = Head(s)
         /\ Tail(s \o t) = Tail(s) \o t
<1>1. /\ Len(s) \in Nat /\ Len(s) > 0
  BY EmptySeq
<1>2. /\ s \o t \in Seq(S) /\ Len(s \o t) = Len(s) + Len(t)
      /\ \A i \in 1..Len(s)+Len(t) :
           (s \o t)[i] = IF i <= Len(s) THEN s[i] ELSE t[i - Len(s)]
  BY ConcatProperties
<1>3. s \o t # <<>>
  BY <1>1, <1>2, EmptySeq, LenProperties
<1>4. /\ Tail(s) \in Seq(S) /\ Len(Tail(s)) = Len(s) - 1
      /\ \A i \in 1..Len(Tail(s)) : Tail(s)[i] = s[i+1]
  BY HeadTailProperties
<1>5. /\ Tail(s) \o t \in Seq(S) /\ Len(Tail(s) \o t) = Len(Tail(s)) + Len(t)
      /\ \A i \in 1..Len(Tail(s))+Len(t) :
           (Tail(s) \o t)[i] = IF i <= Len(Tail(s)) THEN Tail(s)[i]
                               ELSE t[i - Len(Tail(s))]
  BY <1>4, ConcatProperties
<1>6. /\ Tail(s \o t) \in Seq(S) /\ Len(Tail(s \o t)) = Len(s \o t) - 1
      /\ \A i \in 1..Len(Tail(s \o t)) : Tail(s \o t)[i] = (s \o t)[i+1]
  BY <1>2, <1>3, HeadTailProperties
<1>7. Len(t) \in Nat
  BY LenProperties
<1>8. Len(Tail(s \o t)) = Len(Tail(s) \o t)
  BY <1>1, <1>2, <1>4, <1>5, <1>6, <1>7
<1>9. ASSUME NEW i \in 1..Len(Tail(s \o t))
      PROVE  Tail(s \o t)[i] = (Tail(s) \o t)[i]
  <2>1. Tail(s \o t)[i] = IF i + 1 <= Len(s) THEN s[i+1] ELSE t[i + 1 - Len(s)]
    BY <1>1, <1>2, <1>6, <1>7
  <2>2. (Tail(s) \o t)[i] = IF i <= Len(s) - 1 THEN s[i+1] ELSE t[i - (Len(s) - 1)]
    BY <1>1, <1>4, <1>5, <1>7, <1>8
  <2> QED BY <1>1, <1>7, <2>1, <2>2
<1>10. Tail(s \o t) = Tail(s) \o t
  BY <1>5, <1>6, <1>8, <1>9, SeqEqual
<1>11. Head(s \o t) = Head(s)
  <2>1. (s \o t)[1] = s[1]
    BY <1>1, <1>2, <1>7
  <2>2. ASSUME NEW u \in Seq(S), u # <<>> PROVE Head(u) = u[1]
    BY <2>2
  <2> QED BY <1>2, <1>3, <2>1, <2>2
<1> QED BY <1>3, <1>10, <1>11

LEMMA AppendToConcat ==
  ASSUME NEW S, NEW s \in Seq(S), NEW t \in Seq(S), NEW e \in S
  PROVE  s \o Append(t, e) = Append(s \o t, e)
<1>1. s \o t \in Seq(S) /\ <<e>> \in Seq(S)
  BY ConcatProperties
<1>2. /\ Append(t, e) = t \o <<e>>
      /\ Append(s \o t, e) = (s \o t) \o <<e>>
  BY <1>1, AppendIsConcat
<1> QED BY <1>1, <1>2, ConcatAssociative

LEMMA Shift ==
  ASSUME NEW S, NEW s \in Seq(S), NEW t \in Seq(S), t # <<>>
  PROVE  Append(s, Head(t)) \o Tail(t) = s \o t
<1>1. /\ Head(t) \in S /\ Tail(t) \in Seq(S) /\ <<Head(t)>> \in Seq(S)
  BY HeadTailProperties
<1>2. Append(s, Head(t)) = s \o <<Head(t)>>
  BY <1>1, AppendIsConcat
<1>3. <<Head(t)>> \o Tail(t) = t
  <2>1. /\ <<Head(t)>> \o Tail(t) \in Seq(S)
        /\ Len(<<Head(t)>> \o Tail(t)) = 1 + Len(Tail(t))
        /\ \A i \in 1..1+Len(Tail(t)) : (<<Head(t)>> \o Tail(t))[i] =
             IF i <= 1 THEN <<Head(t)>>[i] ELSE Tail(t)[i - 1]
    BY <1>1, ConcatProperties
  <2>2. /\ Len(Tail(t)) = Len(t) - 1 /\ Len(t) \in Nat
        /\ \A i \in 1..Len(Tail(t)) : Tail(t)[i] = t[i+1]
        /\ Head(t) = t[1]
    BY HeadTailProperties, LenProperties
  <2>3. \A i \in 1..Len(t) : (<<Head(t)>> \o Tail(t))[i] = t[i]
    BY <2>1, <2>2
  <2> QED BY <2>1, <2>2, <2>3, SeqEqual
<1> QED BY <1>1, <1>2, <1>3, ConcatAssociative

LEMMA Cut ==
  ASSUME NEW S, NEW s \in Seq(S), NEW n \in 0..Len(s)
  PROVE  SubSeq(s, 1, n) \o SubSeq(s, n + 1, Len(s)) = s
<1>1. /\ Len(s) \in Nat /\ 1 \in 1..Len(s)+1
      /\ n \in 1-1..Len(s) /\ Len(s) \in n..Len(s)
  BY LenProperties
<1>2. SubSeq(s, 1, n) \o SubSeq(s, n + 1, Len(s)) = SubSeq(s, 1, Len(s))
  BY <1>1, ConcatAdjacentSubSeq
<1> QED BY <1>2, SubSeqFull

LEMMA PrefixOfConcat ==
  ASSUME NEW S, NEW s \in Seq(S), NEW t \in Seq(S)
  PROVE  /\ Len(s) \in 0..Len(s \o t)
         /\ SubSeq(s \o t, 1, Len(s)) = s
         /\ SubSeq(s \o t, Len(s) + 1, Len(s \o t)) = t
<1>1. /\ s \o t \in Seq(S) /\ Len(s \o t) = Len(s) + Len(t)
      /\ \A i \in 1..Len(s)+Len(t) :
           (s \o t)[i] = IF i <= Len(s) THEN s[i] ELSE t[i - Len(s)]
      /\ Len(s) \in Nat /\ Len(t) \in Nat
  BY ConcatProperties, LenProperties
<1>2. /\ SubSeq(s \o t, 1, Len(s)) \in Seq(S)
      /\ Len(SubSeq(s \o t, 1, Len(s))) = Len(s)
      /\ \A i \in 1..Len(s) : SubSeq(s \o t, 1, Len(s))[i] = (s \o t)[i]
  <2>1. \A i \in 1..Len(s) : (s \o t)[i] \in S
    BY <1>1, ElementOfSeq
  <2> QED BY <1>1, <2>1, SubSeqProperties
<1>3. SubSeq(s \o t, 1, Len(s)) = s
  BY <1>1, <1>2, SeqEqual
<1>4. /\ SubSeq(s \o t, Len(s) + 1, Len(s \o t)) \in Seq(S)
      /\ Len(SubSeq(s \o t, Len(s) + 1, Len(s \o t))) = Len(t)
      /\ \A i \in 1..Len(t) :
           SubSeq(s \o t, Len(s) + 1, Len(s \o t))[i] = (s \o t)[Len(s) + i]
  <2>1. \A i \in Len(s)+1..Len(s \o t) : (s \o t)[i] \in S
    BY <1>1, ElementOfSeq
  <2> QED BY <1>1, <2>1, SubSeqProperties
<1>5. SubSeq(s \o t, Len(s) + 1, Len(s \o t)) = t
  BY <1>1, <1>4, SeqEqual
<1> QED BY <1>1, <1>3, <1>5

-----------------------------------------------------------------------------
(***************************************************************************)
(* The port implements the channel.  Two facts about the state are needed  *)
(* besides the types and the flow control: the local buffer of write() is  *)
(* empty outside it, and the buffer that read() overwrites is empty.       *)
(***************************************************************************)
ChanInv ==
  /\ ppc # "write" => batch = <<>>
  /\ readSet /\ ppc \in {"select", "read"} => buffer = <<>>

LEMMA ChanInit == Init => ChanInv
BY DEF Init, ChanInv

LEMMA ChanAvr ==
  ASSUME ChanInv, AvrCallback \/ FirmwareEnables \/ FirmwareReads
                    \/ AvrReset \/ AvrStops \/ \E b \in Bytes : Send(b)
  PROVE  ChanInv'
<1>1. UNCHANGED <<ptyVars, buffer>>
  BY DEF AvrCallback, SendLocked, FlushTimer, FlushLock, FlushByte, FlushEnd,
         FirmwareEnables, FirmwareReads, AvrReset, AvrStops, Send, fifoVars
<1> QED
  BY <1>1 DEF ChanInv, ptyVars

LEMMA ChanPty ==
  ASSUME ChanInv, PtyThread
  PROVE  ChanInv'
<1> USE DEF ChanInv, PtyAt, avrVars, ptyVars, uartVars, fifoVars
<1>1. CASE LoopTest
  BY <1>1 DEF LoopTest
<1>2. CASE FillSets
  BY <1>2 DEF FillSets
<1>3. CASE Select
  <2>1. readSet' => readSet
    BY <1>3, Zenon DEF Select
  <2> QED BY <1>3, <2>1 DEF Select
<1>7. CASE SelectFails
  BY <1>7 DEF SelectFails
<1>4. CASE Read \/ Fill
  BY <1>4 DEF Read, Fill
<1>5. CASE Drain
  BY <1>5 DEF Drain
<1>6. CASE WriteByte \/ WriteEnd
  BY <1>6 DEF WriteByte, WriteEnd
<1> QED
  BY <1>1, <1>2, <1>3, <1>4, <1>5, <1>6, <1>7 DEF PtyThread

LEMMA ChanRest ==
  ASSUME ChanInv, MainThread \/ HostReads \/ \E b \in Bytes : HostTypes(b)
  PROVE  ChanInv'
BY DEF ChanInv, MainThread, Quit, Close, Join, HostReads, HostTypes,
       avrVars, ptyVars, uartVars, fifoVars

LEMMA ChanStep == ChanInv /\ [Next]_vars => ChanInv'
<1> SUFFICES ASSUME ChanInv, [Next]_vars PROVE ChanInv'
  OBVIOUS
<1>1. CASE UNCHANGED vars
  BY <1>1 DEF ChanInv, vars, avrVars, ptyVars, uartVars, fifoVars
<1>2. CASE Next
  BY <1>2, ChanAvr, ChanPty, ChanRest DEF Next
<1> QED
  BY <1>1, <1>2

ImplInv == PortInv /\ XonInv /\ ChanInv

-----------------------------------------------------------------------------
\* The refinement mapping.
Pending == IF apc = "send" THEN <<sending>> ELSE <<>>
ToHost  == ttyOut \o batch \o (IF Open THEN in ELSE <<>>)
ToAvr   == IF Open THEN out \o buffer \o ttyIn ELSE <<>>
View    == <<Pending, ToHost, ToAvr, rxq, trap, Open>>

LEMMA QueueTypes ==
  ASSUME PortInv
  PROVE  /\ ttyOut \in Seq(Any) /\ batch \in Seq(Any) /\ in \in Seq(Any)
         /\ rxq \in Seq(Any) /\ out \in Seq(Any) /\ buffer \in Seq(Any)
         /\ ttyIn \in Seq(Any) /\ <<>> \in Seq(Any)
         /\ Bytes \subseteq Any
         /\ ttyOut \o batch \in Seq(Any) /\ out \o buffer \in Seq(Any)
         /\ out \o buffer \o ttyIn \in Seq(Any)
         /\ ToHost \in Seq(Any) /\ ToAvr \in Seq(Any)
<1>1. /\ ttyOut \in Seq(Bytes) /\ batch \in Seq(Bytes) /\ in \in Seq(Bytes)
      /\ rxq \in Seq(Bytes) /\ ttyIn \in Seq(Bytes)
      /\ out \in Seq(Any) /\ buffer \in Seq(Any)
  BY DEF PortInv, TypeOK, Any
<1>2. Bytes \subseteq Any /\ <<>> \in Seq(Any)
  BY EmptySeq DEF Any
<1>3. /\ ttyOut \in Seq(Any) /\ batch \in Seq(Any) /\ in \in Seq(Any)
      /\ rxq \in Seq(Any) /\ ttyIn \in Seq(Any)
  BY <1>1, <1>2, SeqMonotonic
<1>4. /\ ttyOut \o batch \in Seq(Any) /\ out \o buffer \in Seq(Any)
  BY <1>1, <1>3, ConcatProperties
<1>5. out \o buffer \o ttyIn \in Seq(Any)
  BY <1>3, <1>4, ConcatProperties
<1>6. ToHost \in Seq(Any) /\ ToAvr \in Seq(Any)
  BY <1>2, <1>3, <1>4, <1>5, ConcatProperties DEF ToHost, ToAvr
<1> QED
  BY <1>1, <1>2, <1>3, <1>4, <1>5, <1>6

\* Moving the front of a queue t to the end of the queue s before it.
LEMMA Move ==
  ASSUME NEW S, NEW s \in Seq(S), NEW t \in Seq(S), NEW n \in 0..Len(t)
  PROVE  (s \o SubSeq(t, 1, n)) \o SubSeq(t, n + 1, Len(t)) = s \o t
<1> DEFINE front == SubSeq(t, 1, n)
           rest == SubSeq(t, n + 1, Len(t))
<1>1. front \in Seq(S) /\ rest \in Seq(S)
  BY Split
<1>2. front \o rest = t
  BY Cut
<1> HIDE DEF front, rest
<1>3. (s \o front) \o rest = s \o (front \o rest)
  BY <1>1, ConcatAssociative
<1> QED BY <1>2, <1>3 DEF front, rest

-----------------------------------------------------------------------------
(***************************************************************************)
(* The steps of the port that the channel sees.                            *)
(***************************************************************************)
LEMMA ImplSend ==
  ASSUME ImplInv, NEW b \in Bytes, Send(b)
  PROVE  Channel!AvrSends(b)
<1>1. /\ apc = "run" /\ apc' = "send" /\ sending' = b
      /\ UNCHANGED <<ttyOut, batch, in, rxq, out, buffer, ttyIn, trap, mpc>>
  BY DEF Send, AvrAt, fifoVars, ptyVars, uartVars
<1>2. Open /\ Open' /\ UNCHANGED <<ToHost, ToAvr>>
  BY <1>1 DEF ImplInv, PortInv, StaleInv, TypeOK, Open, ToHost, ToAvr
<1>3. Pending = <<>> /\ Pending' = <<b>>
  BY <1>1 DEF Pending
<1> QED BY <1>1, <1>2, <1>3 DEF Channel!AvrSends, Pending, ToHost, ToAvr

\* The byte handed over is put into the FIFO, or the FIFO is full.
LEMMA ImplTaken ==
  ASSUME ImplInv, SendLocked
  PROVE  Channel!Taken
<1>1. /\ apc = "send" /\ apc' = "run" /\ sending \in Any /\ Open /\ Open'
      /\ UNCHANGED <<ttyOut, batch, rxq, out, buffer, ttyIn, trap>>
  BY DEF SendLocked, PortInv, TypeOK, StaleInv, AvrAt, Open, Any, uartVars, ptyVars,
         ImplInv
<1>2. ttyOut \o batch \in Seq(Any) /\ in \in Seq(Any)
  BY QueueTypes DEF ImplInv
<1>3. Pending = <<sending>> /\ Pending' = <<>> /\ Pending # <<>>
  BY <1>1, EmptySeq DEF Pending
<1>4. UNCHANGED ToAvr /\ ToHost' = (ttyOut \o batch) \o in'
      /\ ToHost = (ttyOut \o batch) \o in
  BY <1>1 DEF ToAvr, ToHost
<1>5. CASE Len(in) < FifoSize
  <2>1. in' = Append(in, sending)
    BY <1>5 DEF SendLocked
  <2>2. ToHost' = Append(ToHost, sending)
    <3>1. (ttyOut \o batch) \o Append(in, sending)
            = Append((ttyOut \o batch) \o in, sending)
      BY <1>1, <1>2, AppendToConcat
    <3> QED BY <1>4, <2>1, <3>1
  <2>3. ToHost \in Seq(Any)
    BY <1>2, <1>4, ConcatProperties
  <2>4. ToHost' = ToHost \o Pending
    BY <1>1, <1>3, <2>2, <2>3, AppendIsConcat
  <2> QED BY <1>1, <1>3, <1>4, <2>4 DEF Channel!Taken, Pending, ToHost, ToAvr
<1>6. CASE ~(Len(in) < FifoSize)
  <2>1. in' = in
    BY <1>6 DEF SendLocked
  <2>2. Len(ToHost) = Len(ttyOut \o batch) + Len(in)
    BY <1>2, <1>4, ConcatProperties
  <2>3. Len(ToHost) >= FifoSize
    BY <1>6, <1>2, <2>2, LenProperties, UartPtyAssumption
  <2>4. ToHost' = ToHost
    BY <1>4, <2>1
  <2> QED BY <1>1, <1>3, <1>4, <2>3, <2>4 DEF Channel!Taken, Pending, ToHost, ToAvr
<1> QED BY <1>5, <1>6

\* Steps inside the port, which the channel does not see.
LEMMA ImplQuiet ==
  ASSUME ImplInv,
         \/ FlushTimer \/ FlushLock \/ FlushEnd \/ FirmwareEnables \/ AvrStops
         \/ LoopTest \/ FillSets \/ Select \/ SelectFails \/ WriteEnd
         \/ Quit \/ Join
  PROVE  UNCHANGED View
<1> USE DEF FlushTimer, FlushLock, FlushEnd, FirmwareEnables, AvrStops, LoopTest,
        FillSets, Select, SelectFails, WriteEnd, Quit, Join, AvrAt, XOn,
        fifoVars, avrVars, ptyVars, uartVars
<1>1. UNCHANGED <<ttyOut, batch, in, rxq, out, buffer, ttyIn, trap>>
  OBVIOUS
<1>2. Open' = Open
  BY DEF Open
<1>3. apc \in {"run", "send", "flushLock", "flush", "stopped"}
  BY DEF ImplInv, PortInv, TypeOK
<1>4. /\ (apc' = apc /\ sending' = sending) \/ (apc # "send" /\ apc' # "send")
  BY <1>3
<1>5. Pending' = Pending
  BY <1>4 DEF Pending
<1> QED BY <1>1, <1>2, <1>5 DEF View, ToHost, ToAvr

\* A byte that leaves pty.out is swallowed by the trap or gets into the UART.
LEMMA ImplFlush ==
  ASSUME ImplInv, FlushByte
  PROVE  Channel!Delivered \/ Channel!Swallowed
<1> USE QueueTypes DEF ImplInv
<1> DEFINE b == Head(out)
           rest == buffer \o ttyIn
<1>1. /\ out # <<>> /\ out' = Tail(out) /\ Open /\ Open'
      /\ UNCHANGED <<ttyOut, batch, in, buffer, ttyIn, apc, sending>>
  BY DEF FlushByte, StaleInv, PortInv, Open, fifoVars, ptyVars
<1>2. UNCHANGED <<ToHost, Pending>>
  BY <1>1 DEF ToHost, Pending
<1>3. rest \in Seq(Any) /\ Tail(out) \in Seq(Any)
  BY <1>1, ConcatProperties, HeadTailProperties
<1>4. /\ ToAvr = out \o rest /\ ToAvr' = Tail(out) \o rest
  <2> HIDE QueueTypes DEF ImplInv
  <2>0. /\ out \in Seq(Any) /\ Tail(out) \in Seq(Any)
        /\ buffer \in Seq(Any) /\ ttyIn \in Seq(Any)
    BY <1>3, QueueTypes DEF ImplInv
  <2>1. (out \o buffer) \o ttyIn = out \o (buffer \o ttyIn)
    BY <2>0, ConcatAssociative
  <2>2. (Tail(out) \o buffer) \o ttyIn = Tail(out) \o (buffer \o ttyIn)
    BY <2>0, ConcatAssociative
  <2> QED BY <1>1, <2>1, <2>2 DEF ToAvr
<1> HIDE DEF rest
<1>5. /\ ToAvr # <<>> /\ Tail(ToAvr) = ToAvr' /\ Head(ToAvr) = b
  BY <1>1, <1>3, <1>4, TailOfConcat
<1>6. CASE trap /\ b = Newline
  <2>1. rxq' = rxq /\ trap'
    BY <1>6 DEF FlushByte
  <2>2. trap' = trap
    BY <1>6, <2>1, Zenon DEF PortInv, TypeOK
  <2>3. Channel!Swallowed
    BY <1>1, <1>2, <1>5, <1>6, <2>1, <2>2
    DEF Channel!Swallowed, Pending, ToHost, ToAvr
  <2> QED BY <2>3
<1>7. CASE ~(trap /\ b = Newline)
  <2>1. trap' = FALSE
    BY <1>7, Zenon DEF FlushByte
  <2>2. rxOn /\ Len(rxq) < RxSize
    BY <1>1 DEF FlushByte, XonInv, NothingRefused
  <2>3. rxq' = Received(b)
    BY <1>7 DEF FlushByte
  <2>4. rxq' = Append(rxq, Head(ToAvr))
    BY <1>5, <2>2, <2>3 DEF Received
  <2>5. Channel!Delivered
    BY <1>1, <1>2, <1>5, <1>7, <2>1, <2>2, <2>4
    DEF Channel!Delivered, Pending, ToHost, ToAvr
  <2> QED BY <2>5
<1> QED BY <1>6, <1>7

\* The firmware takes the first byte of the UART.
LEMMA ImplFirmwareReads ==
  ASSUME ImplInv, FirmwareReads
  PROVE  Channel!AvrReads
<1>1. /\ rxq # <<>> /\ rxq' = Tail(rxq) /\ apc = "run" /\ apc' = "flushLock"
      /\ UNCHANGED <<ttyOut, batch, in, out, buffer, ttyIn, trap, mpc>>
  BY DEF FirmwareReads, XOn, fifoVars, ptyVars
<1>2. UNCHANGED <<Pending, ToHost, ToAvr, Open>>
  BY <1>1 DEF Pending, ToHost, ToAvr, Open
<1> QED BY <1>1, <1>2 DEF Channel!AvrReads, Pending, ToHost, ToAvr

\* A reset loses what is in the UART and nothing behind it.
LEMMA ImplReset ==
  ASSUME ImplInv, AvrReset
  PROVE  Channel!Reset
<1>1. /\ rxq' = <<>> /\ trap' = TRUE /\ apc = "run" /\ apc' = "run"
      /\ UNCHANGED <<ttyOut, batch, in, out, buffer, ttyIn, mpc>>
  BY DEF AvrReset, fifoVars, ptyVars
<1>2. Open /\ Open' /\ UNCHANGED <<ToHost, ToAvr>>
  BY <1>1 DEF ImplInv, PortInv, StaleInv, TypeOK, Open, ToHost, ToAvr
<1>3. Pending = <<>> /\ Pending' = <<>>
  BY <1>1 DEF Pending
<1> QED BY <1>1, <1>2, <1>3 DEF Channel!Reset, Pending, ToHost, ToAvr

\* The host appends to the queue behind the UART.
LEMMA ImplHostTypes ==
  ASSUME ImplInv, NEW b \in Bytes, HostTypes(b)
  PROVE  Channel!HostTypes(b)
<1>1. /\ ttyIn \in Seq(Any) /\ out \o buffer \in Seq(Any) /\ b \in Any
  BY QueueTypes DEF ImplInv
<1>2. /\ ttyIn' = Append(ttyIn, b) /\ Open /\ Open'
      /\ UNCHANGED <<ttyOut, batch, in, out, buffer, rxq, trap, apc, sending>>
  BY DEF HostTypes, fifoVars, ptyVars, avrVars, uartVars, Open
<1>3. UNCHANGED <<Pending, ToHost>>
  BY <1>2 DEF Pending, ToHost
<1>4. ToAvr' = Append(ToAvr, b)
  <2>1. (out \o buffer) \o Append(ttyIn, b) = Append((out \o buffer) \o ttyIn, b)
    BY <1>1, AppendToConcat
  <2> QED BY <1>2, <2>1 DEF ToAvr
<1> QED BY <1>2, <1>3, <1>4 DEF Channel!HostTypes, Pending, ToHost, ToAvr

\* The host takes the first byte that was written to the PTY.
LEMMA ImplHostReads ==
  ASSUME ImplInv, HostReads
  PROVE  Channel!HostReads
<1> DEFINE rest == IF Open THEN in ELSE <<>>
<1>1. /\ ttyOut \in Seq(Any) /\ batch \in Seq(Any) /\ rest \in Seq(Any)
      /\ ttyOut \o batch \in Seq(Any)
  BY QueueTypes DEF ImplInv
<1>2. /\ ttyOut # <<>> /\ ttyOut' = Tail(ttyOut)
      /\ UNCHANGED <<batch, in, out, buffer, rxq, ttyIn, trap, mpc, apc, sending>>
  BY DEF HostReads, fifoVars, ptyVars, avrVars, uartVars
<1>3. UNCHANGED <<rest, ToAvr, Pending, Open>>
  BY <1>2 DEF ToAvr, Pending, Open
<1>4. ToHost = (ttyOut \o batch) \o rest /\ ToHost' = (ttyOut' \o batch') \o rest'
  BY DEF ToHost
<1> HIDE DEF rest
<1>5. ttyOut \o batch # <<>> /\ Tail(ttyOut \o batch) = Tail(ttyOut) \o batch
  BY <1>1, <1>2, TailOfConcat
<1>6. ToHost # <<>> /\ ToHost' = Tail(ToHost)
  BY <1>1, <1>2, <1>3, <1>4, <1>5, TailOfConcat
<1> QED BY <1>2, <1>3, <1>6 DEF Channel!HostReads, Pending, ToHost, ToAvr

-----------------------------------------------------------------------------
(***************************************************************************)
(* The steps of the port's thread move bytes along a queue, which leaves   *)
(* the queue as a whole the same.                                          *)
(***************************************************************************)
LEMMA ImplRead ==
  ASSUME ImplInv, Read
  PROVE  UNCHANGED View
<1>1. /\ out \in Seq(Any) /\ ttyIn \in Seq(Any)
  BY QueueTypes DEF ImplInv
<1>2. UNCHANGED <<ttyOut, batch, in, out, rxq, trap, mpc, apc, sending>>
  BY DEF Read, avrVars, uartVars
<1>3. UNCHANGED <<ToHost, Pending, Open>>
  BY <1>2 DEF ToHost, Pending, Open
<1>4. ToAvr' = ToAvr
  <2>1. CASE UNCHANGED <<buffer, ttyIn>>
    BY <1>2, <2>1 DEF ToAvr, Open
  <2>2. CASE Closed
    BY <1>2, <2>2 DEF ToAvr, Open, Closed
  <2>3. CASE /\ readSet /\ ~Closed
             /\ LET n == AtMost(BufSize, ttyIn)
                IN  /\ buffer' = SubSeq(ttyIn, 1, n)
                    /\ ttyIn' = SubSeq(ttyIn, n + 1, Len(ttyIn))
    <3> DEFINE n == AtMost(BufSize, ttyIn)
    <3>1. n \in 0..Len(ttyIn)
      BY <1>1, AtMostBounds, UartPtyAssumption
    <3>2. buffer' = SubSeq(ttyIn, 1, n) /\ ttyIn' = SubSeq(ttyIn, n + 1, Len(ttyIn))
      BY <2>3
    <3> HIDE DEF n
    <3>3. (out' \o buffer') \o ttyIn' = out \o ttyIn
      BY <1>1, <1>2, <3>1, <3>2, Move
    <3>4. buffer = <<>>
      BY <2>3 DEF Read, PtyAt, ImplInv, ChanInv
    <3>5. out \o buffer = out
      BY <1>1, <3>4, ConcatEmptySeq
    <3> QED BY <1>2, <3>3, <3>5 DEF ToAvr, Open
  <2> QED BY <2>1, <2>2, <2>3 DEF Read
<1> QED BY <1>2, <1>3, <1>4 DEF View

LEMMA ImplFill ==
  ASSUME ImplInv, Fill
  PROVE  UNCHANGED View
<1> DEFINE n == AtMost(FifoSize - Len(out), buffer)
<1>1. /\ out \in Seq(Any) /\ buffer \in Seq(Any)
  BY QueueTypes DEF ImplInv
<1>2. /\ UNCHANGED <<ttyOut, batch, in, rxq, ttyIn, trap, mpc, apc, sending>>
      /\ out' = out \o SubSeq(buffer, 1, n)
      /\ buffer' = SubSeq(buffer, n + 1, Len(buffer))
  BY DEF Fill, avrVars, uartVars
<1>3. UNCHANGED <<ToHost, Pending, Open>>
  BY <1>2 DEF ToHost, Pending, Open
<1>4. n \in 0..Len(buffer)
  <2>1. FifoSize - Len(out) \in Nat
    BY <1>1, LenProperties, UartPtyAssumption DEF ImplInv, PortInv, TypeOK
  <2> QED BY <1>1, <2>1, AtMostBounds
<1> HIDE DEF n
<1>5. out' \o buffer' = out \o buffer
  BY <1>1, <1>2, <1>4, Move
<1> QED BY <1>2, <1>3, <1>5 DEF View, ToAvr, Open

LEMMA ImplDrain ==
  ASSUME ImplInv, Drain
  PROVE  UNCHANGED View
<1>1. /\ ttyOut \in Seq(Any) /\ in \in Seq(Any)
  BY QueueTypes DEF ImplInv
<1>2. /\ UNCHANGED <<ttyOut, out, buffer, rxq, ttyIn, trap, mpc, apc, sending>>
      /\ batch = <<>>
  BY DEF Drain, avrVars, uartVars, ImplInv, ChanInv
<1>3. UNCHANGED <<ToAvr, Pending, Open>>
  BY <1>2 DEF ToAvr, Pending, Open
<1>4. ToHost' = ToHost
  <2>1. CASE UNCHANGED <<in, batch>>
    BY <1>2, <2>1 DEF ToHost, Open
  <2>2. CASE Closed /\ batch' = <<>>
    BY <1>2, <2>2 DEF ToHost, Open, Closed
  <2>3. CASE /\ ~Closed
             /\ LET n == AtMost(BufSize, in)
                IN  /\ batch' = SubSeq(in, 1, n)
                    /\ in' = SubSeq(in, n + 1, Len(in))
    <3> DEFINE n == AtMost(BufSize, in)
    <3>1. n \in 0..Len(in)
      BY <1>1, AtMostBounds, UartPtyAssumption
    <3>2. batch' = SubSeq(in, 1, n) /\ in' = SubSeq(in, n + 1, Len(in))
      BY <2>3
    <3> HIDE DEF n
    <3>3. (ttyOut' \o batch') \o in' = ttyOut \o in
      BY <1>1, <1>2, <3>1, <3>2, Move
    <3>4. ttyOut \o batch = ttyOut
      BY <1>1, <1>2, ConcatEmptySeq
    <3>5. Open /\ Open'
      BY <1>2, <2>3 DEF ImplInv, PortInv, TypeOK, Open, Closed
    <3> QED BY <3>3, <3>4, <3>5 DEF ToHost
  <2> QED BY <2>1, <2>2, <2>3 DEF Drain
<1> QED BY <1>2, <1>3, <1>4 DEF View

LEMMA ImplWriteByte ==
  ASSUME ImplInv, WriteByte
  PROVE  UNCHANGED View
<1>1. /\ ttyOut \in Seq(Any) /\ batch \in Seq(Any)
  BY QueueTypes DEF ImplInv
<1>2. /\ batch # <<>>
      /\ ttyOut' = Append(ttyOut, Head(batch)) /\ batch' = Tail(batch)
      /\ UNCHANGED <<in, out, buffer, rxq, ttyIn, trap, mpc, apc, sending>>
  BY DEF WriteByte, fifoVars, avrVars, uartVars
<1>3. ttyOut' \o batch' = ttyOut \o batch
  BY <1>1, <1>2, Shift
<1> QED BY <1>2, <1>3 DEF View, Pending, ToHost, ToAvr, Open

\* Closing the descriptor cuts the queues: what is lost of the one to the host
\* is what was in pty.in and in the buffer of write().
LEMMA ImplClose ==
  ASSUME ImplInv, Close
  PROVE  Channel!HangUp
<1>1. /\ ttyOut \in Seq(Any) /\ batch \in Seq(Any) /\ in \in Seq(Any)
      /\ ttyOut \o batch \in Seq(Any)
  BY QueueTypes DEF ImplInv
<1>2. /\ Open /\ ~Open' /\ UNCHANGED <<ttyOut, rxq, trap, apc, sending>>
      /\ apc = "stopped"
      /\ batch' = batch \/ batch' = <<>>
  BY DEF Close, Open, fifoVars, avrVars, uartVars, ImplInv, PortInv, StaleInv
<1>3. /\ Len(in) \in 0..FifoSize /\ Len(batch) \in 0..BufSize
      /\ Len(ttyOut) \in Nat /\ FifoSize \in Nat /\ BufSize \in Nat
  BY <1>1, LenProperties, UartPtyAssumption DEF ImplInv, PortInv, TypeOK
<1>4. \E n \in 0..Len(ToHost) :
        Len(ToHost) <= n + (FifoSize + BufSize) /\ ToHost' = SubSeq(ToHost, 1, n)
  <2>1. ToHost = (ttyOut \o batch) \o in
    BY <1>2 DEF ToHost
  <2>2. /\ Len(ttyOut \o batch) = Len(ttyOut) + Len(batch)
        /\ Len(ToHost) = Len(ttyOut \o batch) + Len(in)
    BY <1>1, <2>1, ConcatProperties
  <2>3. CASE batch' = batch
    <3>1. ToHost' = ttyOut \o batch
      BY <1>1, <1>2, <2>3, ConcatEmptySeq DEF ToHost
    <3>2. Len(ToHost) <= Len(ttyOut \o batch) + (FifoSize + BufSize)
      BY <1>3, <2>2
    <3>3. /\ Len(ttyOut \o batch) \in 0..Len(ToHost)
          /\ ToHost' = SubSeq(ToHost, 1, Len(ttyOut \o batch))
      BY <1>1, <2>1, <3>1, PrefixOfConcat
    <3> QED BY <3>2, <3>3
  <2>4. CASE batch' = <<>>
    <3>1. ToHost' = ttyOut
      BY <1>1, <1>2, <2>4, ConcatEmptySeq DEF ToHost
    <3>2. batch \o in \in Seq(Any) /\ ToHost = ttyOut \o (batch \o in)
      BY <1>1, <2>1, ConcatProperties, ConcatAssociative
    <3>3. Len(ToHost) <= Len(ttyOut) + (FifoSize + BufSize)
      BY <1>3, <2>2
    <3>4. /\ Len(ttyOut) \in 0..Len(ToHost)
          /\ ToHost' = SubSeq(ToHost, 1, Len(ttyOut))
      BY <1>1, <3>1, <3>2, PrefixOfConcat
    <3> QED BY <3>3, <3>4
  <2> QED BY <1>2, <2>3, <2>4
<1>5. ToAvr' = <<>> /\ Pending = <<>> /\ Pending' = <<>>
  BY <1>2 DEF ToAvr, Pending
<1>6. Open' = FALSE
  BY <1>2 DEF Open
<1> QED BY <1>2, <1>4, <1>5, <1>6 DEF Channel!HangUp, Pending, ToHost, ToAvr

LEMMA ImplInit == Init => Channel!Init
<1> SUFFICES ASSUME Init PROVE Channel!Init
  OBVIOUS
<1>1. <<>> \in Seq(Any) /\ \A s \in Seq(Any) : s \o <<>> = s
  BY EmptySeq, ConcatEmptySeq
<1>2. /\ ttyOut = <<>> /\ batch = <<>> /\ in = <<>> /\ rxq = <<>> /\ out = <<>>
      /\ buffer = <<>> /\ ttyIn = <<>> /\ apc = "run" /\ Open
  BY DEF Init, Open
<1>3. trap = TRUE
  BY Zenon DEF Init
<1>4. Pending = <<>> /\ ToHost = <<>> /\ ToAvr = <<>>
  BY <1>1, <1>2 DEF Pending, ToHost, ToAvr
<1>5. Open = TRUE
  BY <1>2, Zenon
<1> QED BY <1>2, <1>3, <1>4, <1>5 DEF Channel!Init, Pending, ToHost, ToAvr

LEMMA ImplStep == ImplInv /\ [Next]_vars => [Channel!Next]_(Channel!chanVars)
<1> SUFFICES ASSUME ImplInv, [Next]_vars
             PROVE  Channel!Next \/ UNCHANGED View
  BY DEF Channel!chanVars, View, Pending, ToHost, ToAvr
<1>1. CASE \E b \in Bytes : Send(b)
  BY <1>1, ImplSend DEF Channel!Next
<1>2. CASE SendLocked
  BY <1>2, ImplTaken DEF Channel!Next
<1>3. CASE FlushByte
  BY <1>3, ImplFlush DEF Channel!Next
<1>4. CASE FirmwareReads
  BY <1>4, ImplFirmwareReads DEF Channel!Next
<1>5. CASE AvrReset
  BY <1>5, ImplReset DEF Channel!Next
<1>6. CASE Read \/ Fill \/ Drain \/ WriteByte
  BY <1>6, ImplRead, ImplFill, ImplDrain, ImplWriteByte
<1>7. CASE Close
  BY <1>7, ImplClose DEF Channel!Next
<1>8. CASE \E b \in Bytes : HostTypes(b)
  BY <1>8, ImplHostTypes DEF Channel!Next
<1>9. CASE HostReads
  BY <1>9, ImplHostReads DEF Channel!Next
<1>10. CASE \/ FlushTimer \/ FlushLock \/ FlushEnd \/ FirmwareEnables \/ AvrStops
            \/ LoopTest \/ FillSets \/ Select \/ SelectFails \/ WriteEnd
            \/ Quit \/ Join
  BY <1>10, ImplQuiet
<1>11. CASE UNCHANGED vars
  BY <1>11 DEF vars, fifoVars, avrVars, ptyVars, uartVars,
               View, Pending, ToHost, ToAvr, Open
<1> QED
  BY <1>1, <1>2, <1>3, <1>4, <1>5, <1>6, <1>7, <1>8, <1>9, <1>10, <1>11
  DEF Next, AvrCallback, PtyThread, MainThread

\* Every behaviour of the port is one of the channel: whatever the threads,
\* XOFF, resets and the closing of the descriptor do, no byte is reordered or
\* delivered twice, a byte OnByteIn was called with is dropped only while
\* FifoSize bytes wait for the host, a typed one only by the newline trap, and
\* a reset or the close loses no more than PtyChannel lets them.
THEOREM Refinement == Spec => ChannelImplemented
<1>1. Spec => []ImplInv
  <2>1. Spec => []ChanInv
    BY ChanInit, ChanStep, PTL DEF Spec
  <2> QED BY <2>1, PortTypes, XonHolds, PTL DEF ImplInv
<1>2. [][Next]_vars /\ []ImplInv => [][Channel!Next]_(Channel!chanVars)
  BY ImplStep, PTL
<1> QED
  BY <1>1, <1>2, ImplInit, PTL DEF Spec, ChannelImplemented, Channel!Spec
=============================================================================
