----------------------------- MODULE MCSpiFlash -----------------------------
(***************************************************************************)
(* An instance of SpiFlash for TLC: bytes of one bit, and each unit of the *)
(* chip twice the one below it, from pages of two bytes to the whole chip. *)
(***************************************************************************)
EXTENDS SpiFlash

One == {1}
Zero == {}
MCSentBytes == {One, Zero}
MCFillBytes == {Zero}
MCChunks == {[at |-> TotalSize - 1, size |-> 2, data |-> One]}
=============================================================================
