------------------------------ MODULE NorFlash ------------------------------
(***************************************************************************)
(* What the serial flash of the board promises (parts/components/w25x20cl.* *)
(* seen by the firmware): a memory whose bits a transaction can only clear, *)
(* within the page it names and only by the bytes it sent, or set again    *)
(* within a whole region, and either only if a write was enabled since the *)
(* last one.  A byte is the set of its bits that are 1.                    *)
(*                                                                         *)
(* The user may replace the contents from outside, in the middle of a      *)
(* transaction too; such a transaction still only clears bits of its page. *)
(***************************************************************************)
EXTENDS Naturals

CONSTANTS
  Bits,          \* the bits of a byte
  TotalSize,     \* bytes of the chip
  PageSize,      \* bytes that one transaction can program
  EraseSizes     \* bytes that one transaction can erase

Byte == SUBSET Bits
Addr == 0..TotalSize - 1
Region(size, a) == {x \in Addr : x \div size = a \div size}

VARIABLES
  on,            \* the firmware runs
  contents,
  latch,         \* a write is enabled
  sent,          \* the bytes sent for a page in this transaction, by address
  replaced       \* the contents were replaced in this transaction

norVars == <<on, contents, latch, sent, replaced>>
Nothing == [x \in {} |-> Bits]
EndTransaction == sent' = Nothing /\ replaced' = FALSE

Init ==
  /\ on = FALSE
  /\ contents \in [Addr -> Byte]
  /\ latch = FALSE /\ sent = Nothing /\ replaced = FALSE

StaysOn == on /\ on'

Begin == StaysOn /\ EndTransaction /\ UNCHANGED <<contents, latch>>

SendByte ==
  /\ StaysOn
  /\ \E x \in Addr, b \in Byte :
       sent' = [y \in DOMAIN sent \cup {x} |-> IF y = x THEN b ELSE sent[y]]
  /\ UNCHANGED <<contents, latch, replaced>>

SetLatch ==
  /\ StaysOn
  /\ latch' \in BOOLEAN
  /\ EndTransaction
  /\ UNCHANGED contents

Program ==
  /\ StaysOn /\ latch /\ ~replaced /\ latch' = FALSE
  /\ \E a \in Addr :
       /\ DOMAIN sent \subseteq Region(PageSize, a)
       /\ contents' = [x \in Addr |-> IF x \in DOMAIN sent
                                      THEN contents[x] \cap sent[x] ELSE contents[x]]
  /\ EndTransaction

ProgramReplaced ==
  /\ StaysOn /\ latch /\ replaced /\ latch' = FALSE
  /\ contents' \in [Addr -> Byte]
  /\ \E a \in Addr : \A x \in Addr :
       IF x \in Region(PageSize, a) THEN contents'[x] \subseteq contents[x]
                                    ELSE contents'[x] = contents[x]
  /\ EndTransaction

Erase ==
  /\ StaysOn /\ latch /\ latch' = FALSE
  /\ \E a \in Addr, size \in EraseSizes :
       contents' = [x \in Addr |-> IF x \in Region(size, a) THEN Bits ELSE contents[x]]
  /\ EndTransaction

\* The user's file may also end the program.
Replace ==
  /\ on /\ on' \in BOOLEAN
  /\ contents' \in [Addr -> Byte]
  /\ replaced' = TRUE
  /\ UNCHANGED <<latch, sent>>

SwitchOff == on /\ on' = FALSE /\ UNCHANGED <<contents, latch, sent, replaced>>

\* A new chip, with the contents of a file.
Start ==
  /\ ~on /\ on' \in BOOLEAN
  /\ contents' \in [Addr -> Byte]
  /\ latch' = FALSE
  /\ EndTransaction

Next == Begin \/ SendByte \/ SetLatch \/ Program \/ ProgramReplaced \/ Erase
          \/ Replace \/ SwitchOff \/ Start

Spec == Init /\ [][Next]_norVars
=============================================================================
