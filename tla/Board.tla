------------------------------- MODULE Board -------------------------------
(***************************************************************************)
(* The control state of one simulated board (parts/Board.cpp) and what its *)
(* script actions, key handlers and one turn of its run loop do to it.     *)
(* The state is one record, so that a caller which applies several board   *)
(* operations in one step (the script host does) composes the operators.   *)
(***************************************************************************)
EXTENDS Naturals

CONSTANT MaxWait      \* the longest WaitMs, in turns of the run loop

ASSUME BoardAssumption == MaxWait \in Nat

\* MCUSR, the AVR's reset-cause register: cleared, power-on or external reset.
ResetCause == {"none", "power", "extern"}

\* Board::StateReset, the progress of a WaitForReset.
StateReset == {"IDLE", "WAITING", "FINISHED"}

BoardState ==
  [paused    : BOOLEAN,         \* m_bPaused
   quit      : BOOLEAN,         \* m_bQuit
   reset     : BOOLEAN,         \* m_bReset
   wtCycles  : 0..MaxWait,      \* m_uiWtCycleCount
   resetWait : StateReset,      \* m_stResetWaitFlag
   mcusr     : ResetCause,      \* the register itself
   lastMcusr : ResetCause]      \* m_uiLastMCUSR

BoardInit ==
  [paused |-> FALSE, quit |-> FALSE, reset |-> FALSE, wtCycles |-> 0,
   resetWait |-> "IDLE", mcusr |-> "power", lastMcusr |-> "none"]

SetQuitFlag(b)  == [b EXCEPT !.quit = TRUE, !.paused = FALSE]
SetResetFlag(b) == [b EXCEPT !.reset = TRUE]
SetPaused(b, v) == [b EXCEPT !.paused = v]

\* Board::OnKeyPress: 'z' toggles the pause, 'q' quits, 'r' resets.
BoardKeyPress(b, key) ==
  CASE key = "z" -> SetPaused(b, ~b.paused)
    [] key = "q" -> SetQuitFlag(b)
    [] key = "r" -> SetResetFlag(b)
    [] OTHER     -> b

\* A countdown that is still running is continued, whoever started it.
BoardWait(b, cycles) ==
  IF b.wtCycles > 0
  THEN [board |-> [b EXCEPT !.wtCycles = @ - 1],
        res   |-> IF b.wtCycles = 1 THEN "Finished" ELSE "Waiting"]
  ELSE [board |-> [b EXCEPT !.wtCycles = cycles], res |-> "Waiting"]

BoardWaitReset(b) ==
  IF b.resetWait = "FINISHED"
  THEN [board |-> [b EXCEPT !.resetWait = "IDLE"], res |-> "Finished"]
  ELSE [board |-> [b EXCEPT !.resetWait = "WAITING"], res |-> "Waiting"]

BoardActions == {"Quit", "Reset", "Pause", "Resume", "WaitMs", "WaitForReset"}

\* Board::ProcessAction: the new state and the LineStatus returned.
BoardProcess(b, act, arg) ==
  CASE act = "Quit"         -> [board |-> SetQuitFlag(b), res |-> "Finished"]
    [] act = "Reset"        -> [board |-> SetResetFlag(b), res |-> "Finished"]
    [] act = "Pause"        -> [board |-> SetPaused(b, TRUE), res |-> "Finished"]
    [] act = "Resume"       -> [board |-> SetPaused(b, FALSE), res |-> "Finished"]
    [] act = "WaitMs"       -> BoardWait(b, arg)
    [] act = "WaitForReset" -> BoardWaitReset(b)

(***************************************************************************)
(* The part of a turn of RunAVR that follows the script host when the      *)
(* board is not paused: a change of MCUSR to a nonzero value is a reset    *)
(* that was seen, a requested reset is performed, and the firmware runs.   *)
(* The firmware may clear MCUSR, but not in the instruction right after a  *)
(* reset: clears is ignored until the loop has seen the current cause.     *)
(***************************************************************************)
ResetSeen(b) == b.mcusr # b.lastMcusr /\ b.mcusr # "none"

BoardTurn(b, clears) ==
  [b EXCEPT
     !.resetWait = IF ResetSeen(b) /\ @ = "WAITING" THEN "FINISHED" ELSE @,
     !.lastMcusr = b.mcusr,
     !.reset     = FALSE,
     !.mcusr     = IF b.reset THEN "extern"
                   ELSE IF clears /\ b.lastMcusr = b.mcusr THEN "none" ELSE @]
=============================================================================
