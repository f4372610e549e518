------------------------------ MODULE UartPty ------------------------------
(***************************************************************************)
(* One serial port (parts/components/uart_pty.cpp): the AVR thread sends   *)
(* and receives bytes in IRQ and timer callbacks, the thread of the port   *)
(* moves them between two ring buffers and a PTY, and the main thread      *)
(* stops both at the end.  m_lock guards the ring buffers.                 *)
(*                                                                         *)
(* The UART of the AVR (rxq, rxOn) and the kernel's PTY (ttyIn, ttyOut)    *)
(* are not in this repository: they do what this code relies on.  The      *)
(* second port, which SIMAVR_UART_TAP adds for listening in, is left out.  *)
(***************************************************************************)
EXTENDS Integers, Sequences, FiniteSets

CONSTANTS
  Bytes,         \* the values of a byte that are told apart
  Newline,       \* one of them
  FifoSize,      \* room of a uart_pty_fifo (511 bytes)
  BufSize,       \* bytes read from, or written to, the PTY at a time (511, 512)
  RxSize,        \* room of the UART's receive FIFO
  TtySize,       \* room of the PTY in each direction
  MaxSent,       \* bound: bytes the firmware sends
  MaxTyped,      \* bound: bytes the host sends
  MaxResets      \* bound: resets of the AVR

ASSUME UartPtyAssumption ==
  /\ Newline \in Bytes
  /\ FifoSize \in Nat \ {0} /\ BufSize \in Nat \ {0}
  /\ RxSize \in Nat \ {0} /\ TtySize \in Nat \ {0}
  /\ MaxSent \in Nat /\ MaxTyped \in Nat /\ MaxResets \in Nat

Stale == "stale"    \* a byte of p.buffer that no read() put there
ASSUME StaleAssumption == Stale \notin Bytes

VARIABLES
  lock,          \* who holds m_lock
  in,            \* pty.in, from the AVR to the host
  out,           \* pty.out, from the host to the AVR
  buffer,        \* the part of p.buffer that is not in pty.out yet
  xOn,           \* m_bXOn
  timer,         \* m_fcnFlush is registered
  trap,          \* m_chrLast = '\n'
  apc,           \* place of the AVR thread in its callbacks
  sending,       \* the byte OnByteIn was called with
  ppc,           \* place of the port's thread in Run
  readSet,       \* the PTY is in read_set
  writeSet,      \* the PTY is in write_set
  batch,         \* what is left of the buffer given to write()
  mpc,           \* place of the main thread in the destructor
  rxq,           \* the UART's receive FIFO
  rxOn,          \* the firmware has enabled the receiver
  ttyIn,         \* typed by the host, not yet read from the PTY
  ttyOut,        \* written to the PTY, not yet read by the host
  sent, typed, resets   \* counters for the bounds

fifoVars == <<in, out, buffer>>
avrVars  == <<xOn, timer, trap, apc, sending>>
ptyVars  == <<ppc, readSet, writeSet, batch>>
uartVars == <<rxq, rxOn>>
counters == <<sent, typed, resets>>
vars == <<lock, fifoVars, avrVars, ptyVars, mpc, uartVars, ttyIn, ttyOut, counters>>

\* InitPrivate opened the PTY and started the thread; the AVR is about to run.
Init ==
  /\ lock = "free" /\ in = <<>> /\ out = <<>> /\ buffer = <<>>
  /\ xOn = FALSE /\ timer = FALSE /\ trap = TRUE
  /\ apc = "run" /\ sending = Newline
  /\ ppc = "loop" /\ readSet = FALSE /\ writeSet = FALSE /\ batch = <<>>
  /\ mpc = "live"
  /\ rxq = <<>> /\ rxOn = FALSE
  /\ ttyIn = <<>> /\ ttyOut = <<>>
  /\ sent = 0 /\ typed = 0 /\ resets = 0

(***************************************************************************)
(* A definition named Mut... is the one after it with a plausible mistake  *)
(* in it: the property it breaks shows that the run is able to fail.       *)
(***************************************************************************)

-----------------------------------------------------------------------------
\* AVR thread: OnByteIn, called when the firmware sends a byte.
AvrAt(here, next) == apc = here /\ apc' = next

Send(b) ==
  /\ AvrAt("run", "send") /\ sent < MaxSent
  /\ sending' = b
  /\ sent' = sent + 1
  /\ UNCHANGED <<lock, fifoVars, xOn, timer, trap, ptyVars, mpc, uartVars,
                 ttyIn, ttyOut, typed, resets>>

MutSendLocked ==
  /\ AvrAt("send", "run") /\ lock = "free"
  /\ in' = IF Len(in) + 1 < FifoSize THEN Append(in, sending) ELSE in
  /\ sending' = Newline
  /\ UNCHANGED <<lock, out, buffer, xOn, timer, trap, ptyVars, mpc, uartVars,
                 ttyIn, ttyOut, counters>>

\* The FIFO's write refuses a byte that does not fit, which nobody notices.
SendLocked ==
  /\ AvrAt("send", "run") /\ lock = "free"
  /\ in' = IF Len(in) < FifoSize THEN Append(in, sending) ELSE in
  /\ sending' = Newline
  /\ UNCHANGED <<lock, out, buffer, xOn, timer, trap, ptyVars, mpc, uartVars,
                 ttyIn, ttyOut, counters>>

\* OnXOnIn up to the lock of FlushData.
XOn == xOn' = TRUE /\ apc' = "flushLock"

(***************************************************************************)
(* The firmware enables its receiver, or reads a byte: the UART has room   *)
(* and says so.                                                            *)
(***************************************************************************)
FirmwareEnables ==
  /\ apc = "run" /\ ~rxOn
  /\ rxOn' = TRUE
  /\ XOn
  /\ UNCHANGED <<lock, fifoVars, timer, trap, sending, ptyVars, mpc, rxq,
                 ttyIn, ttyOut, counters>>

FirmwareReads ==
  /\ apc = "run" /\ rxq # <<>>
  /\ rxq' = Tail(rxq)
  /\ XOn
  /\ UNCHANGED <<lock, fifoVars, timer, trap, sending, ptyVars, mpc, rxOn,
                 ttyIn, ttyOut, counters>>

\* OnFlushTimer: a timer that is running is no longer registered.
FlushTimer ==
  /\ AvrAt("run", "flushLock") /\ timer
  /\ timer' = FALSE
  /\ UNCHANGED <<lock, fifoVars, xOn, trap, sending, ptyVars, mpc, uartVars,
                 ttyIn, ttyOut, counters>>

FlushLock ==
  /\ AvrAt("flushLock", "flush") /\ lock = "free"
  /\ lock' = "avr"
  /\ UNCHANGED <<fifoVars, xOn, timer, trap, sending, ptyVars, mpc, uartVars,
                 ttyIn, ttyOut, counters>>

\* What the UART does with a byte: a receiver that is off, or full, loses it.
Received(b) == IF rxOn /\ Len(rxq) < RxSize THEN Append(rxq, b) ELSE rxq

MutFlushByte ==
  /\ apc = "flush" /\ xOn /\ out # <<>>
  /\ out' = Tail(out)
  /\ LET b == Head(out)
         swallowed == trap /\ b = Newline
         full == ~swallowed /\ rxOn /\ Len(Received(b)) = RxSize
     IN  /\ trap' = (trap /\ b = Newline)
         /\ rxq' = IF swallowed THEN rxq ELSE Received(b)
         /\ xOn' = xOn
         /\ timer' = (timer /\ ~full)
  /\ UNCHANGED <<lock, in, buffer, apc, sending, ptyVars, mpc, rxOn,
                 ttyIn, ttyOut, counters>>

(***************************************************************************)
(* One turn of the loop of FlushData.  A byte that fills the UART makes it *)
(* raise XOFF before RaiseIRQ returns: OnXOffIn cancels the timer.         *)
(***************************************************************************)
FlushByte ==
  /\ apc = "flush" /\ xOn /\ out # <<>>
  /\ out' = Tail(out)
  /\ LET b == Head(out)
         swallowed == trap /\ b = Newline
         full == ~swallowed /\ rxOn /\ Len(Received(b)) = RxSize
     IN  /\ trap' = (trap /\ b = Newline)
         /\ rxq' = IF swallowed THEN rxq ELSE Received(b)
         /\ xOn' = ~full
         /\ timer' = (timer /\ ~full)
  /\ UNCHANGED <<lock, in, buffer, apc, sending, ptyVars, mpc, rxOn,
                 ttyIn, ttyOut, counters>>

MutFlushEnd ==
  /\ AvrAt("flush", "run") /\ (xOn => out = <<>>)
  /\ lock' = "free"
  /\ timer' = timer
  /\ UNCHANGED <<fifoVars, xOn, trap, sending, ptyVars, mpc, uartVars,
                 ttyIn, ttyOut, counters>>

\* OnXOnIn registers the timer, OnFlushTimer renews it, if XON still holds.
FlushEnd ==
  /\ AvrAt("flush", "run") /\ (xOn => out = <<>>)
  /\ lock' = "free"
  /\ timer' = xOn
  /\ UNCHANGED <<fifoVars, xOn, trap, sending, ptyVars, mpc, uartVars,
                 ttyIn, ttyOut, counters>>

(***************************************************************************)
(* A reset of the AVR empties the UART and removes every cycle timer;      *)
(* OnAVRReset of the board resets the newline trap.  m_bXOn is kept.       *)
(***************************************************************************)
AvrReset ==
  /\ apc = "run" /\ resets < MaxResets
  /\ resets' = resets + 1
  /\ rxq' = <<>> /\ rxOn' = FALSE
  /\ timer' = FALSE
  /\ trap' = TRUE
  /\ UNCHANGED <<lock, fifoVars, xOn, apc, sending, ptyVars, mpc,
                 ttyIn, ttyOut, sent, typed>>

\* The board's thread is joined before its parts are destroyed.
AvrStops ==
  /\ AvrAt("run", "stopped")
  /\ UNCHANGED <<lock, fifoVars, xOn, timer, trap, sending, ptyVars, mpc,
                 uartVars, ttyIn, ttyOut, counters>>

-----------------------------------------------------------------------------
\* The port's thread: Run.
PtyAt(here, next) == ppc = here /\ ppc' = next
Closed == mpc \in {"join", "joined"}     \* the PTY's descriptor is closed

MutLoopTest ==
  /\ ppc = "loop"
  /\ ppc' = "sets"
  /\ UNCHANGED <<lock, fifoVars, avrVars, readSet, writeSet, batch, mpc,
                 uartVars, ttyIn, ttyOut, counters>>

LoopTest ==
  /\ ppc = "loop"
  /\ ppc' = IF mpc = "live" THEN "sets" ELSE "done"
  /\ UNCHANGED <<lock, fifoVars, avrVars, readSet, writeSet, batch, mpc,
                 uartVars, ttyIn, ttyOut, counters>>

\* Read more only if the buffer was flushed.
FillSets ==
  /\ PtyAt("sets", "select") /\ lock = "free"
  /\ readSet' = (buffer = <<>>)
  /\ writeSet' = (in # <<>>)
  /\ UNCHANGED <<lock, fifoVars, avrVars, batch, mpc, uartVars, ttyIn, ttyOut,
                 counters>>

\* select() keeps what is ready; with nothing ready it times out.  It does not
\* notice a descriptor that is closed while it waits.
Select ==
  /\ PtyAt("select", "read")
  /\ readSet' = (readSet /\ ttyIn # <<>>)
  /\ writeSet' = (writeSet /\ Len(ttyOut) < TtySize)
  /\ UNCHANGED <<lock, fifoVars, avrVars, batch, mpc, uartVars, ttyIn, ttyOut,
                 counters>>

\* A closed descriptor in a set is an error; with empty sets there is none.
SelectFails ==
  /\ ppc = "select" /\ Closed
  /\ ppc' = IF readSet \/ writeSet THEN "done" ELSE "read"
  /\ UNCHANGED <<lock, fifoVars, avrVars, readSet, writeSet, batch, mpc,
                 uartVars, ttyIn, ttyOut, counters>>

AtMost(n, s) == IF Len(s) < n THEN Len(s) ELSE n

(***************************************************************************)
(* read(); its -1 for a closed descriptor becomes a buffer_len that makes  *)
(* all of the old buffer look unread.                                      *)
(***************************************************************************)
Read ==
  /\ PtyAt("read", "fill")
  /\ \/ ~readSet /\ UNCHANGED <<buffer, ttyIn>>
     \/ /\ readSet /\ lock = "free" /\ Closed
        /\ buffer' = [i \in 1..BufSize |-> Stale]
        /\ UNCHANGED ttyIn
     \/ /\ readSet /\ lock = "free" /\ ~Closed
        /\ LET n == AtMost(BufSize, ttyIn)
           IN  /\ buffer' = SubSeq(ttyIn, 1, n)
               /\ ttyIn' = SubSeq(ttyIn, n + 1, Len(ttyIn))
  /\ UNCHANGED <<lock, in, out, avrVars, readSet, writeSet, batch, mpc,
                 uartVars, ttyOut, counters>>

MutFill ==
  /\ PtyAt("fill", "drain")
  /\ buffer # <<>> => lock = "free"
  /\ LET n == AtMost(FifoSize + 1 - Len(out), buffer)
     IN  /\ out' = out \o SubSeq(buffer, 1, n)
         /\ buffer' = SubSeq(buffer, n + 1, Len(buffer))
  /\ UNCHANGED <<lock, in, avrVars, readSet, writeSet, batch, mpc,
                 uartVars, ttyIn, ttyOut, counters>>

\* As much of the buffer as fits moves into pty.out.
Fill ==
  /\ PtyAt("fill", "drain")
  /\ buffer # <<>> => lock = "free"
  /\ LET n == AtMost(FifoSize - Len(out), buffer)
     IN  /\ out' = out \o SubSeq(buffer, 1, n)
         /\ buffer' = SubSeq(buffer, n + 1, Len(buffer))
  /\ UNCHANGED <<lock, in, avrVars, readSet, writeSet, batch, mpc,
                 uartVars, ttyIn, ttyOut, counters>>

\* pty.in moves into the local buffer, and m_lock is kept over the write(),
\* which fails, and loses the buffer, if the descriptor is closed.
Drain ==
  /\ ppc = "drain"
  /\ \/ ~writeSet /\ ppc' = "loop" /\ UNCHANGED <<lock, in, batch>>
     \/ /\ writeSet /\ lock = "free"
        /\ ppc' = "write"
        /\ lock' = "pty"
        /\ LET n == AtMost(BufSize, in)
           IN  /\ batch' = IF Closed THEN <<>> ELSE SubSeq(in, 1, n)
               /\ in' = SubSeq(in, n + 1, Len(in))
  /\ UNCHANGED <<out, buffer, avrVars, readSet, writeSet, mpc, uartVars,
                 ttyIn, ttyOut, counters>>

\* write() blocks while the PTY has no room for the rest.
WriteByte ==
  /\ ppc = "write" /\ batch # <<>> /\ Len(ttyOut) < TtySize
  /\ ttyOut' = Append(ttyOut, Head(batch))
  /\ batch' = Tail(batch)
  /\ UNCHANGED <<lock, fifoVars, avrVars, ppc, readSet, writeSet, mpc,
                 uartVars, ttyIn, counters>>

MutWriteEnd ==
  /\ PtyAt("write", "loop")
  /\ batch = <<>>
  /\ lock' = lock
  /\ UNCHANGED <<fifoVars, avrVars, readSet, writeSet, batch, mpc, uartVars,
                 ttyIn, ttyOut, counters>>

WriteEnd ==
  /\ PtyAt("write", "loop")
  /\ batch = <<>>
  /\ lock' = "free"
  /\ UNCHANGED <<fifoVars, avrVars, readSet, writeSet, batch, mpc, uartVars,
                 ttyIn, ttyOut, counters>>

-----------------------------------------------------------------------------
\* The main thread: the destructor, once the AVR thread is joined.
Quit ==
  /\ mpc = "live" /\ apc = "stopped"
  /\ mpc' = "quit"
  /\ UNCHANGED <<lock, fifoVars, avrVars, ptyVars, uartVars, ttyIn, ttyOut, counters>>

\* A close() between Drain and the first byte makes write() fail; the bytes
\* of a write() that has begun still go out.
Close ==
  /\ mpc = "quit" /\ mpc' = "join"
  /\ \/ UNCHANGED batch
     \/ ppc = "write" /\ batch' = <<>>
  /\ UNCHANGED <<lock, fifoVars, avrVars, ppc, readSet, writeSet, uartVars,
                 ttyIn, ttyOut, counters>>

Join ==
  /\ mpc = "join" /\ ppc = "done" /\ mpc' = "joined"
  /\ UNCHANGED <<lock, fifoVars, avrVars, ptyVars, uartVars, ttyIn, ttyOut, counters>>

-----------------------------------------------------------------------------
\* The program on the host.
HostTypes(b) ==
  /\ mpc = "live" /\ typed < MaxTyped /\ Len(ttyIn) < TtySize
  /\ ttyIn' = Append(ttyIn, b)
  /\ typed' = typed + 1
  /\ UNCHANGED <<lock, fifoVars, avrVars, ptyVars, mpc, uartVars, ttyOut,
                 sent, resets>>

HostReads ==
  /\ ttyOut # <<>>
  /\ ttyOut' = Tail(ttyOut)
  /\ UNCHANGED <<lock, fifoVars, avrVars, ptyVars, mpc, uartVars, ttyIn, counters>>

-----------------------------------------------------------------------------
AvrCallback == SendLocked \/ FlushTimer \/ FlushLock \/ FlushByte \/ FlushEnd
PtyThread == LoopTest \/ FillSets \/ Select \/ SelectFails \/ Read \/ Fill
               \/ Drain \/ WriteByte \/ WriteEnd
MainThread == Quit \/ Close \/ Join

Next ==
  \/ AvrCallback \/ FirmwareEnables \/ FirmwareReads \/ AvrReset \/ AvrStops
  \/ \E b \in Bytes : Send(b)
  \/ PtyThread \/ MainThread
  \/ \E b \in Bytes : HostTypes(b)
  \/ HostReads

Spec == Init /\ [][Next]_vars

(***************************************************************************)
(* Every thread runs, and none is kept from m_lock for ever: the port's    *)
(* thread leaves it alone while it waits in select().  The firmware serves *)
(* its UART, and someone on the host reads the PTY.                        *)
(***************************************************************************)
Fairness ==
  /\ SF_vars(AvrCallback) /\ SF_vars(PtyThread) /\ WF_vars(MainThread)
  /\ SF_vars(FirmwareEnables) /\ SF_vars(FirmwareReads)
  /\ WF_vars(HostReads)
FairSpec == Spec /\ Fairness

-----------------------------------------------------------------------------
\* Every variable has its type, and no buffer holds more than it has room for.
TypeOK ==
  /\ lock \in {"free", "avr", "pty"}
  /\ in \in Seq(Bytes) /\ Len(in) <= FifoSize
  /\ out \in Seq(Bytes \cup {Stale}) /\ Len(out) <= FifoSize
  /\ buffer \in Seq(Bytes \cup {Stale}) /\ Len(buffer) <= BufSize
  /\ xOn \in BOOLEAN /\ timer \in BOOLEAN /\ trap \in BOOLEAN
  /\ apc \in {"run", "send", "flushLock", "flush", "stopped"}
  /\ sending \in Bytes
  /\ ppc \in {"loop", "sets", "select", "read", "fill", "drain", "write", "done"}
  /\ readSet \in BOOLEAN /\ writeSet \in BOOLEAN
  /\ batch \in Seq(Bytes) /\ Len(batch) <= BufSize
  /\ mpc \in {"live", "quit", "join", "joined"}
  /\ rxq \in Seq(Bytes) /\ Len(rxq) <= RxSize /\ rxOn \in BOOLEAN
  /\ ttyIn \in Seq(Bytes) /\ Len(ttyIn) <= TtySize
  /\ ttyOut \in Seq(Bytes) /\ Len(ttyOut) <= TtySize
  /\ sent \in Nat /\ typed \in Nat /\ resets \in Nat

\* FlushData never raises a byte that the UART would refuse: XON is only
\* believed while the receiver is on and has room (uart_pty.cpp:92-179).
NothingRefused ==
  apc = "flush" /\ xOn /\ out # <<>> => rxOn /\ Len(rxq) < RxSize

\* While XON holds and the receiver is on, the timer that will flush what the
\* host types next is registered, whenever the AVR is outside the callbacks.
FlushArmed == apc \in {"run", "send"} /\ rxOn /\ xOn => timer

\* The port keeps the promises of PtyChannel: every byte in order, once, and
\* lost only where the channel says so.  The byte of a call of OnByteIn that
\* has not returned is the channel's pending byte: dropping it while pty.in
\* has room is no step of the channel (uart_pty.cpp:75-88, 187-281, 337-353).
Open == mpc \in {"live", "quit"}
Channel == INSTANCE PtyChannel WITH
  Capacity <- FifoSize,
  UartSize <- RxSize,
  PortRoom <- FifoSize + BufSize,
  pending  <- IF apc = "send" THEN <<sending>> ELSE <<>>,
  toHost   <- ttyOut \o batch \o (IF Open THEN in ELSE <<>>),
  toAvr    <- IF Open THEN out \o buffer \o ttyIn ELSE <<>>,
  received <- rxq,
  fresh    <- trap,
  open     <- Open
ChannelImplemented == Channel!Spec

\* What the host typed gets to the UART, whatever XOFF, the timer, a reset or
\* the other direction do in between, if the board is not stopped first.
InputArrives ==
  ttyIn \o buffer \o out # <<>>
    ~> (ttyIn \o buffer \o out = <<>> \/ apc = "stopped")

\* A callback of the AVR that waits for m_lock gets it while the PTY is read:
\* a write() that blocks with the lock held does not stop the simulation.
CallbacksReturn == apc \in {"send", "flushLock"} ~> apc = "run"

\* The destructor returns: the port's thread sees m_bQuit or its descriptor
\* closed wherever it is.
Joins == mpc = "quit" ~> mpc = "joined"
=============================================================================
