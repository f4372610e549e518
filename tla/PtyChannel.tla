----------------------------- MODULE PtyChannel -----------------------------
(***************************************************************************)
(* What a serial port of the board promises (parts/components/uart_pty.*   *)
(* seen from outside): a byte the firmware hands over goes to the program  *)
(* on the host that opened the PTY, a byte that program types goes to the  *)
(* UART and from there to the firmware, in order and at most once.         *)
(*                                                                         *)
(* Nothing is lost but: a byte handed over while Capacity bytes are on     *)
(* their way to the host; a newline typed while the trap is set; what the  *)
(* UART holds at a reset; and, when the port is closed, what was typed and *)
(* is not in the UART, and at most PortRoom bytes for the host, which then *)
(* are the last ones.                                                      *)
(***************************************************************************)
EXTENDS Naturals, Sequences

CONSTANTS
  Bytes,
  Newline,
  Capacity,     \* bytes for the host that are never lost, however slow it is
  UartSize,     \* bytes the UART has room for
  PortRoom      \* bytes for the host that the port itself can hold

VARIABLES
  pending,      \* the byte the firmware is handing over: none or one
  toHost,       \* bytes on their way to the host
  toAvr,        \* bytes typed, not yet in the UART
  received,     \* bytes in the UART, not yet read by the firmware
  fresh,        \* only newlines have reached the UART since the last reset
  open          \* the port is not closed

chanVars == <<pending, toHost, toAvr, received, fresh, open>>

Init ==
  /\ pending = <<>> /\ toHost = <<>> /\ toAvr = <<>> /\ received = <<>>
  /\ fresh = TRUE /\ open = TRUE

AvrSends(b) ==
  /\ open /\ pending = <<>>
  /\ pending' = <<b>>
  /\ UNCHANGED <<toHost, toAvr, received, fresh, open>>

\* The byte handed over is taken; it is dropped only by a port that is full.
Taken ==
  /\ pending # <<>>
  /\ pending' = <<>>
  /\ \/ toHost' = toHost \o pending
     \/ Len(toHost) >= Capacity /\ toHost' = toHost
  /\ UNCHANGED <<toAvr, received, fresh, open>>

HostReads ==
  /\ toHost # <<>>
  /\ toHost' = Tail(toHost)
  /\ UNCHANGED <<pending, toAvr, received, fresh, open>>

HostTypes(b) ==
  /\ open
  /\ toAvr' = Append(toAvr, b)
  /\ UNCHANGED <<pending, toHost, received, fresh, open>>

\* The first byte that is not a newline ends the trap.
Delivered ==
  /\ open /\ toAvr # <<>> /\ (fresh => Head(toAvr) # Newline)
  /\ Len(received) < UartSize
  /\ received' = Append(received, Head(toAvr))
  /\ toAvr' = Tail(toAvr)
  /\ fresh' = FALSE
  /\ UNCHANGED <<pending, toHost, open>>

\* The newline trap.
Swallowed ==
  /\ open /\ toAvr # <<>> /\ fresh /\ Head(toAvr) = Newline
  /\ toAvr' = Tail(toAvr)
  /\ UNCHANGED <<pending, toHost, received, fresh, open>>

AvrReads ==
  /\ received # <<>>
  /\ received' = Tail(received)
  /\ UNCHANGED <<pending, toHost, toAvr, fresh, open>>

\* A reset loses what the UART had received, no more, and sets the trap again.
Reset ==
  /\ open /\ pending = <<>>
  /\ received' = <<>>
  /\ fresh' = TRUE
  /\ UNCHANGED <<pending, toHost, toAvr, open>>

\* The port is closed, once, and never while the firmware hands over a byte.
HangUp ==
  /\ open /\ pending = <<>>
  /\ open' = FALSE
  /\ toAvr' = <<>>
  /\ \E n \in 0..Len(toHost) :
       /\ Len(toHost) <= n + PortRoom
       /\ toHost' = SubSeq(toHost, 1, n)
  /\ UNCHANGED <<pending, received, fresh>>

Next ==
  \/ \E b \in Bytes : AvrSends(b) \/ HostTypes(b)
  \/ Taken \/ HostReads \/ Delivered \/ Swallowed \/ AvrReads
  \/ Reset \/ HangUp

Spec == Init /\ [][Next]_chanVars
=============================================================================
