----------------------------- MODULE SerialPipe -----------------------------
(***************************************************************************)
(* The thread that joins the second UART of an MK3S to the MMU2             *)
(* (utility/SerialPipe.cpp): it opens the two slave ends, waits with select *)
(* for either to have bytes, and copies them one by one to the other.       *)
(*                                                                         *)
(* Port p stands for the pseudo-terminal of UART p: pipeIn[p] is what that  *)
(* side has written and the pipe not read, pipeOut[p] what the pipe has     *)
(* written and that side not read, which the kernel bounds.  The bytes of   *)
(* a side are numbered in the order it sends them.                          *)
(***************************************************************************)
EXTENDS Integers, Sequences, SequencesExt

CONSTANTS
  PipeCapacity,   \* what the kernel holds for a reader that is slow
  PipeMaxBytes    \* bound: the bytes each side sends

ASSUME PipeAssumption == PipeCapacity \in Nat \ {0} /\ PipeMaxBytes \in Nat

Ports == {0, 1}
Other(p) == 1 - p

VARIABLES
  pipePc,         \* where Run is: <<the call it is about to make, the port it concerns>>
  pipeOpen,       \* the ports whose descriptor is open
  pipeReady,      \* fdsIn as select left it
  pipeErr,        \* fdsErr has a port of the two
  pipeChr,        \* chrIn and the port it was read from; <<>> before the first read
  pipeQuit,       \* m_bQuit
  pipeCancel,     \* the destructor has called pthread_cancel
  pipeIn, pipeOut,
  pipeHungUp,     \* the sides that have closed their end
  pipeSent,       \* how many bytes each side has sent
  pipeGot,        \* history: the bytes each side has read
  pipeLost        \* history: the bytes of each side that write did not take

pipeThread == <<pipePc, pipeOpen, pipeReady, pipeErr, pipeChr, pipeQuit, pipeCancel>>
pipeVars == <<pipeThread, pipeIn, pipeOut, pipeHungUp, pipeSent, pipeGot, pipeLost>>

PipeInit ==
  /\ pipePc = <<"open", 0>> /\ pipeOpen = {} /\ pipeReady = {} /\ pipeErr = FALSE
  /\ pipeChr = <<>> /\ pipeQuit = FALSE /\ pipeCancel = FALSE
  /\ pipeIn = [p \in Ports |-> <<>>] /\ pipeOut = [p \in Ports |-> <<>>]
  /\ pipeHungUp = {} /\ pipeSent = [p \in Ports |-> 0]
  /\ pipeGot = [p \in Ports |-> <<>>] /\ pipeLost = [p \in Ports |-> {}]

\* Each call of Run is a cancellation point: a cancelled thread makes none of them.
At(call, p) == pipePc = <<call, p>> /\ ~pipeCancel
Goto(call, p) == pipePc' = <<call, p>>
PipeQueuesUnchanged == UNCHANGED <<pipeIn, pipeOut, pipeHungUp, pipeSent, pipeGot, pipeLost>>

\* A port that cannot be opened ends the thread, but the other is still opened first.
PipeOpenPort(p) ==
  /\ At("open", p)
  /\ \/ pipeOpen' = pipeOpen \cup {p} /\ UNCHANGED pipeQuit
     \/ pipeQuit' = TRUE /\ UNCHANGED pipeOpen
  /\ IF p = 0 THEN Goto("open", 1) ELSE Goto("loop", 0)
  /\ UNCHANGED <<pipeReady, pipeErr, pipeChr, pipeCancel>> /\ PipeQueuesUnchanged

\* while (!m_bQuit)
PipeLoop ==
  /\ pipePc = <<"loop", 0>>
  /\ IF pipeQuit THEN Goto("close", 0) ELSE Goto("select", 0)
  /\ UNCHANGED <<pipeOpen, pipeReady, pipeErr, pipeChr, pipeQuit, pipeCancel>>
  /\ PipeQueuesUnchanged

\* select returns when a port has something to read, an end of file among it; or it fails.
Readable == {p \in Ports : pipeIn[p] # <<>> \/ p \in pipeHungUp}
PipeSelect ==
  /\ At("select", 0)
  /\ \/ /\ Readable # {}
        /\ pipeReady' = Readable
        /\ pipeErr' \in {FALSE, pipeHungUp # {}}
        /\ IF 0 \in Readable THEN Goto("read", 0) ELSE Goto("read", 1)
        /\ UNCHANGED pipeQuit
     \/ /\ pipeQuit' = TRUE
        /\ Goto("close", 0)
        /\ UNCHANGED <<pipeReady, pipeErr>>
  /\ UNCHANGED <<pipeOpen, pipeChr, pipeCancel>> /\ PipeQueuesUnchanged

\* The end of the body of the loop, after the last port that was ready.
PipeEndOfTurn ==
  IF pipeErr THEN pipeQuit' = TRUE /\ Goto("close", 0)
  ELSE UNCHANGED pipeQuit /\ Goto("loop", 0)
\* Nothing more to read from port p for now (EAGAIN): on to the other port if it was ready.
\* (A definition named Mut... is the one after it with a plausible mistake in it.)
MutPipeAgain(p) ==
  IF pipeChr # <<>> /\ pipeChr[1] = p THEN Goto("write", p) /\ UNCHANGED pipeQuit
  ELSE PipeEndOfTurn
PipeAgain(p) ==
  IF p = 0 /\ 1 \in pipeReady THEN Goto("read", 1) /\ UNCHANGED pipeQuit
  ELSE PipeEndOfTurn

\* A byte; nothing more for now (EAGAIN), and on to the other port; or the end of the file or
\* an error, and out of the loop.
PipeRead(p) ==
  /\ At("read", p)
  /\ \/ /\ pipeIn[p] # <<>>
        /\ pipeChr' = <<p, Head(pipeIn[p])>>
        /\ pipeIn' = [pipeIn EXCEPT ![p] = Tail(@)]
        /\ Goto("write", p)
        /\ UNCHANGED pipeQuit
     \/ /\ pipeIn[p] = <<>> /\ p \notin pipeHungUp
        /\ PipeAgain(p)
        /\ UNCHANGED <<pipeChr, pipeIn>>
     \/ /\ p \in pipeHungUp
        /\ pipeQuit' = TRUE
        /\ Goto("close", 0)
        /\ UNCHANGED <<pipeChr, pipeIn>>
  /\ UNCHANGED <<pipeOpen, pipeReady, pipeErr, pipeCancel>>
  /\ UNCHANGED <<pipeOut, pipeHungUp, pipeSent, pipeGot, pipeLost>>

\* The descriptor does not block: a byte for which there is no room, or no reader any more,
\* is reported and dropped.
PipeWrite(p) ==
  /\ At("write", p)
  /\ IF Len(pipeOut[Other(p)]) < PipeCapacity /\ Other(p) \notin pipeHungUp
     THEN /\ pipeOut' = [pipeOut EXCEPT ![Other(p)] = Append(@, pipeChr[2])]
          /\ UNCHANGED pipeLost
     ELSE /\ pipeLost' = [pipeLost EXCEPT ![p] = @ \cup {pipeChr[2]}]
          /\ UNCHANGED pipeOut
  /\ Goto("read", p)
  /\ UNCHANGED <<pipeOpen, pipeReady, pipeErr, pipeChr, pipeQuit, pipeCancel>>
  /\ UNCHANGED <<pipeIn, pipeHungUp, pipeSent, pipeGot>>

PipeClosePort(p) ==
  /\ At("close", p)
  /\ pipeOpen' = pipeOpen \ {p}
  /\ IF p = 0 THEN Goto("close", 1) ELSE Goto("done", 0)
  /\ UNCHANGED <<pipeReady, pipeErr, pipeChr, pipeQuit, pipeCancel>> /\ PipeQueuesUnchanged

\* The destructor, on the main thread: m_bQuit, then pthread_cancel, then the join.
PipeDestroyQuit ==
  /\ ~pipeQuit /\ pipeQuit' = TRUE
  /\ UNCHANGED <<pipePc, pipeOpen, pipeReady, pipeErr, pipeChr, pipeCancel>>
  /\ PipeQueuesUnchanged
PipeDestroyCancel ==
  /\ pipeQuit /\ ~pipeCancel /\ pipeCancel' = TRUE
  /\ UNCHANGED <<pipePc, pipeOpen, pipeReady, pipeErr, pipeChr, pipeQuit>>
  /\ PipeQueuesUnchanged
\* The thread ends at its next call, its descriptors as they are.
PipeCancelled ==
  /\ pipeCancel /\ pipePc[1] \notin {"loop", "done"}
  /\ Goto("done", 0)
  /\ UNCHANGED <<pipeOpen, pipeReady, pipeErr, pipeChr, pipeQuit, pipeCancel>>
  /\ PipeQueuesUnchanged

\* The sides (the pseudo-terminal threads of the two UARTs): external.
SideSend(p) ==
  /\ p \notin pipeHungUp /\ pipeSent[p] < PipeMaxBytes
  /\ pipeSent' = [pipeSent EXCEPT ![p] = @ + 1]
  /\ pipeIn' = [pipeIn EXCEPT ![p] = Append(@, pipeSent'[p])]
  /\ UNCHANGED <<pipeThread, pipeOut, pipeHungUp, pipeGot, pipeLost>>
SideReceive(p) ==
  /\ p \notin pipeHungUp /\ pipeOut[p] # <<>>
  /\ pipeGot' = [pipeGot EXCEPT ![p] = Append(@, Head(pipeOut[p]))]
  /\ pipeOut' = [pipeOut EXCEPT ![p] = Tail(@)]
  /\ UNCHANGED <<pipeThread, pipeIn, pipeHungUp, pipeSent, pipeLost>>
SideHangUp(p) ==
  /\ pipeHungUp' = pipeHungUp \cup {p} /\ p \notin pipeHungUp
  /\ UNCHANGED <<pipeThread, pipeIn, pipeOut, pipeSent, pipeGot, pipeLost>>

PipeNext ==
  \/ PipeLoop \/ PipeSelect \/ PipeDestroyQuit \/ PipeDestroyCancel \/ PipeCancelled
  \/ \E p \in Ports :
       \/ PipeOpenPort(p) \/ PipeRead(p) \/ PipeWrite(p) \/ PipeClosePort(p)
       \/ SideSend(p) \/ SideReceive(p) \/ SideHangUp(p)

PipeSpec == PipeInit /\ [][PipeNext]_pipeVars

-----------------------------------------------------------------------------
\* The state is well formed.
PipeTypeOK ==
  /\ pipePc \in ({"open", "close", "read", "write"} \X Ports)
                \cup {<<"loop", 0>>, <<"select", 0>>, <<"done", 0>>}
  /\ pipeOpen \subseteq Ports /\ pipeReady \subseteq Ports
  /\ {pipeErr, pipeQuit, pipeCancel} \subseteq BOOLEAN /\ (pipeCancel => pipeQuit)
  /\ pipeHungUp \subseteq Ports
  /\ \A p \in Ports : Len(pipeOut[p]) <= PipeCapacity /\ pipeSent[p] \in 0..PipeMaxBytes

\* Increasing(s): every byte came after the one before it.
Increasing(s) == \A i \in 1..(Len(s) - 1) : s[i] < s[i + 1]
\* The byte of port p that was read and is not yet written; none is once the thread has ended.
InHand(p) == IF pipePc = <<"write", p>> THEN <<pipeChr[2]>> ELSE <<>>
\* What is on its way from side p to the other, and has got there, oldest first.
Carried(p) == pipeGot[Other(p)] \o pipeOut[Other(p)] \o InHand(p) \o pipeIn[p]

\* The pipe delivers the bytes of a side in the order they were sent and none twice, and while
\* it runs none disappears except those the write did not take: the rest are either there or
\* on their way, in one of the two queues or in chrIn.
PipeHonest ==
  \A p \in Ports :
    /\ Increasing(Carried(p))
    /\ pipePc[1] # "done" => 1..pipeSent[p] = pipeLost[p] \cup ToSet(Carried(p))
    /\ ToSet(Carried(p)) \cap pipeLost[p] = {}
=============================================================================
