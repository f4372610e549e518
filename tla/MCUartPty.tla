------------------------------ MODULE MCUartPty ------------------------------
(***************************************************************************)
(* An instance of UartPty for TLC: a newline and one other byte, FIFOs and *)
(* buffers of one or two bytes, so that each of them fills up.             *)
(***************************************************************************)
EXTENDS UartPty
=============================================================================
