---------------------------- MODULE BlockDevice ----------------------------
(***************************************************************************)
(* What an SD card promises (parts/components/SDCard.cpp seen by the       *)
(* firmware and by the owner of the image files): images that are attached *)
(* and detached, and one transfer at a time, of one block of an image that *)
(* was attached when the transfer began, byte after byte.  An image        *)
(* changes only by such a transfer, never if it may not be written, and    *)
(* never after it was detached.  A transfer may be given up anywhere: what *)
(* was written stays.                                                      *)
(***************************************************************************)
EXTENDS Naturals

CONSTANTS
  Images, Length,        \* the images, and the blocks each has
  ReadOnly,              \* the images that may not be written
  BlockSize,             \* bytes of a block
  Bytes                  \* what a byte may be

Blocks(i) == 0..Length[i] - 1
Block == [0..BlockSize - 1 -> Bytes]
NoTask == [kind |-> "none"]
Task == [kind : {"read", "write"}, image : Images, block : Nat, done : 0..BlockSize - 1]

VARIABLES
  contents,      \* of each image, by block
  attached,      \* the images that the card has mapped
  task           \* the transfer in progress

deviceVars == <<contents, attached, task>>

Init ==
  /\ DOMAIN contents = Images /\ \A i \in Images : contents[i] \in [Blocks(i) -> Block]
  /\ attached = {} /\ task = NoTask

Accept ==
  /\ task = NoTask
  /\ task' \in {t \in Task : t.image \in attached /\ t.block \in Blocks(t.image) /\ t.done = 0}
  /\ UNCHANGED <<contents, attached>>

Advance ==
  task' = IF task.done + 1 = BlockSize THEN NoTask ELSE [task EXCEPT !.done = @ + 1]

ReadByte == task.kind = "read" /\ Advance /\ UNCHANGED <<contents, attached>>

WriteByte ==
  /\ task.kind = "write" /\ task.image \notin ReadOnly
  /\ \E b \in Bytes : contents' = [contents EXCEPT ![task.image][task.block][task.done] = b]
  /\ Advance
  /\ UNCHANGED attached

GiveUp == task' = NoTask /\ UNCHANGED <<contents, attached>>

Attach ==
  /\ \E i \in Images : attached' = attached \cup {i}
  /\ UNCHANGED <<contents, task>>

Detach ==
  /\ \E i \in Images : attached' = attached \ {i}
  /\ task' = NoTask
  /\ UNCHANGED contents

Next == Accept \/ ReadByte \/ WriteByte \/ GiveUp \/ Attach \/ Detach

Spec == Init /\ [][Next]_deviceVars
=============================================================================
