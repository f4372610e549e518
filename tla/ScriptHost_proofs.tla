------------------------- MODULE ScriptHost_proofs -------------------------
(***************************************************************************)
(* Theorems about ScriptHost, for every script, every set of typed lines,  *)
(* every key and menu entry, and every timeout.                            *)
(***************************************************************************)
EXTENDS ScriptHost, SequenceTheorems, TLAPS

-----------------------------------------------------------------------------
(***************************************************************************)
(* The clients of a line keep their types.                                 *)
(***************************************************************************)
LEMMA BoardProcessType ==
  ASSUME NEW b \in BoardState, NEW act \in BoardActions, NEW arg \in Nat,
         act = "WaitMs" => arg <= MaxWait
  PROVE  /\ BoardProcess(b, act, arg).board \in BoardState
         /\ BoardProcess(b, act, arg).res \in {"Finished", "Waiting"}
<1> USE BoardAssumption
<1>1. CASE act = "WaitMs"
  BY <1>1 DEF BoardProcess, BoardWait, BoardState
<1>2. CASE act = "WaitForReset"
  BY <1>2 DEF BoardProcess, BoardWaitReset, BoardState, StateReset
<1>3. CASE act \in {"Quit", "Reset", "Pause", "Resume"}
  BY <1>3 DEF BoardProcess, SetQuitFlag, SetResetFlag, SetPaused, BoardState
<1> QED BY <1>1, <1>2, <1>3 DEF BoardActions

LEMMA SnapProcessType ==
  ASSUME NEW s \in SnapState, NEW act \in SnapActions, NEW arg
  PROVE  /\ SnapProcess(s, act, arg).snap \in SnapState
         /\ SnapProcess(s, act, arg).res \in {"HoldExec", "Timeout", "Finished"}
BY DEF SnapProcess, SnapState, SnapStates, SnapActions

LEMMA SetPausedType ==
  ASSUME NEW b \in BoardState, NEW v \in BOOLEAN
  PROVE  SetPaused(b, v) \in BoardState
BY DEF SetPaused, BoardState

LEMMA SetQuitFlagType ==
  ASSUME NEW b \in BoardState
  PROVE  SetQuitFlag(b) \in BoardState
BY DEF SetQuitFlag, BoardState

LEMMA BoardKeyPressType ==
  ASSUME NEW b \in BoardState, NEW k
  PROVE  BoardKeyPress(b, k) \in BoardState
BY DEF BoardKeyPress, SetPaused, SetQuitFlag, SetResetFlag, BoardState

LEMMA BoardTurnType ==
  ASSUME NEW b \in BoardState, NEW clears \in BOOLEAN
  PROVE  BoardTurn(b, clears) \in BoardState
BY DEF BoardTurn, BoardState, ResetSeen, StateReset, ResetCause

LEMMA SnapKeyPressType ==
  ASSUME NEW s \in SnapState, NEW k
  PROVE  SnapKeyPress(s, k) \in SnapState
<1>1. [s EXCEPT !.keySnap = TRUE] \in SnapState
  BY DEF SnapState
<1> QED BY <1>1, SnapProcessType DEF SnapKeyPress, SnapActions

LEMMA FrameType ==
  ASSUME NEW s \in SnapState, NEW c \in {0, 1}
  PROVE  /\ FrameDelay(s) \in SnapState
         /\ FrameClaim(s) \in SnapState
         /\ FrameFinish(s, c) \in SnapState
BY DEF FrameDelay, FrameClaim, FrameFinish, SnapState, SnapStates

-----------------------------------------------------------------------------
(***************************************************************************)
(* What ParseLine and ProcessAction yield in a state with the right types. *)
(***************************************************************************)
Outcomes == [board : BoardState, snap : SnapState, key : KeyNames \cup {None},
             cycles : -1..MaxTimeout, quitOn : BOOLEAN,
             res : {"Finished", "Waiting", "HoldExec", "Timeout", "Error"}]

\* The part of the type invariant the AVR thread's clients depend on.
ClientsOK ==
  /\ board \in BoardState /\ snap \in SnapState
  /\ key \in KeyNames \cup {None}
  /\ timeoutCycles \in -1..MaxTimeout /\ quitOnTimeout \in BOOLEAN

AllLines == ScriptLines \cup TypedLines

LEMMA ProcessActionType ==
  ASSUME ClientsOK, NEW l \in AllLines
  PROVE  /\ ProcessAction(l) \in Outcomes
         /\ ProcessAction(l).cycles # timeoutCycles => ProcessAction(l).res = "Finished"
         /\ ProcessAction(l).res = "Timeout" => l.act \in SnapActions
         /\ ProcessAction(l).res = "HoldExec" => l.act \in SnapActions
<1> USE DEF ClientsOK
<1>0. /\ l \in Line /\ l.arg \in Nat
      /\ l.act = "WaitMs" => l.arg <= MaxWait
      /\ l.act = "SetTimeoutMs" => l.arg <= MaxTimeout
      /\ MaxTimeout \in Nat
  BY ScriptHostAssumption, BoardAssumption DEF AllLines, Line
<1>1. CASE l.act \in BoardActions
  <2> DEFINE r == BoardProcess(board, l.act, l.arg)
  <2>1. /\ r.board \in BoardState /\ r.res \in {"Finished", "Waiting"}
    BY <1>0, <1>1, BoardProcessType
  <2>2. ProcessAction(l) = [Same EXCEPT !.board = r.board, !.res = r.res]
    BY <1>1 DEF ProcessAction, BoardActions, SnapActions
  <2> HIDE DEF r
  <2> QED BY <2>1, <2>2 DEF Same, Outcomes
<1>2. CASE l.act \in SnapActions
  <2> DEFINE r == SnapProcess(snap, l.act, l.arg)
  <2>1. /\ r.snap \in SnapState /\ r.res \in {"HoldExec", "Timeout", "Finished"}
    BY <1>0, <1>2, SnapProcessType
  <2>2. ProcessAction(l) = [Same EXCEPT !.snap = r.snap, !.res = r.res]
    BY <1>2 DEF ProcessAction, SnapActions, BoardActions
  <2> HIDE DEF r
  <2> QED BY <1>2, <2>1, <2>2 DEF Same, Outcomes
<1>3. CASE l.act \notin BoardActions \cup SnapActions
  <2>0. /\ Same \in Outcomes
        /\ Same.res = "Finished" /\ Same.cycles = timeoutCycles
    BY DEF Same, Outcomes
  <2>1. CASE l.act = "SetTimeoutMs"
    <3>1. ProcessAction(l) = [Same EXCEPT !.cycles = l.arg]
      BY <1>3, <2>1 DEF ProcessAction
    <3> QED BY <1>0, <2>1, <2>0, <3>1 DEF Outcomes
  <2>2. CASE l.act = "SetQuitOnTimeout"
    <3>1. ProcessAction(l) = [Same EXCEPT !.quitOn = (l.arg # 0)]
      BY <1>3, <2>2 DEF ProcessAction
    <3>2. (l.arg # 0) \in BOOLEAN
      OBVIOUS
    <3> QED BY <2>0, <3>1, <3>2 DEF Outcomes
  <2>3. CASE l.act = "Key"
    <3>1. ProcessAction(l) = [Same EXCEPT !.key = KeyNamed(l.arg)]
      BY <1>3, <2>3 DEF ProcessAction
    <3>2. KeyNamed(l.arg) \in KeyNames
      BY <1>0 DEF KeyNamed, KeyNames
    <3> QED BY <2>0, <3>1, <3>2 DEF Outcomes
  <2>4. CASE l.act = "Fail"
    <3>1. ProcessAction(l) = [Same EXCEPT !.res = "Error"]
      BY <1>3, <2>4 DEF ProcessAction
    <3> QED BY <2>0, <3>1 DEF Outcomes
  <2>5. CASE l.act \notin {"SetTimeoutMs", "SetQuitOnTimeout", "Key", "Fail"}
    <3>1. ProcessAction(l) = Same
      BY <1>3, <2>5 DEF ProcessAction
    <3> QED BY <2>0, <3>1
  <2> QED BY <2>1, <2>2, <2>3, <2>4, <2>5
<1> QED BY <1>1, <1>2, <1>3

(***************************************************************************)
(* A line that is current and valid is the line of the script: the cached  *)
(* parse is never one of another line.                                     *)
(***************************************************************************)
ParseCached ==
  lineState.isValid =>
    /\ lineState.iLine < Len(script)
    /\ lineState.line = script[lineState.iLine + 1]

LEMMA CurrentType ==
  ASSUME TypeOK, ParseCached, iLine < Len(script)
  PROVE  /\ Current \in [iLine : Nat, isValid : BOOLEAN, line : Line]
         /\ Current.isValid => /\ Current.iLine = iLine
                               /\ Current.line = script[iLine + 1]
                               /\ Current.line \in AllLines
         /\ Current.isValid => /\ Current.iLine < Len(script)
                               /\ Current.line = script[Current.iLine + 1]
<1>1. /\ iLine + 1 \in 1..Len(script) /\ script[iLine + 1] \in AllLines
  BY DEF TypeOK, AllLines
<1>2. script[iLine + 1] \in Line
  BY <1>1, ScriptHostAssumption DEF AllLines
<1>3. CASE Reparse
  BY <1>1, <1>2, <1>3 DEF Current, ParseLine, TypeOK, Line
<1>4. CASE ~Reparse
  BY <1>1, <1>2, <1>4 DEF Current, Reparse, TypeOK, ParseCached
<1> QED BY <1>3, <1>4

-----------------------------------------------------------------------------
(***************************************************************************)
(* Type correctness.  It needs ParseCached, and that no thread other than  *)
(* the window's types: with the stdin reader the unlocked read of the      *)
(* script may see a size the script does not have yet.                     *)
(***************************************************************************)
NoStdin == "stdin" \notin Modes

TypeInv ==
  /\ TypeOK
  /\ ParseCached
  /\ mode = "script" => tpc = "idle"

\* What the actions of one turn other than ExecStep have in common.
LEMMA ExecType ==
  ASSUME NoStdin, TypeInv, ExecStep
  PROVE  TypeInv'
<1>0. TypeOK /\ ParseCached
  BY DEF TypeInv
<1>4. /\ Exec
      /\ \/ ExecFinished \/ ExecError \/ ExecWaiting
         \/ ExecTimeoutQuit \/ ExecTimeoutSkip \/ ExecInvalid
  BY DEF ExecStep, ExecFinished, ExecError, ExecWaiting, ExecTimeoutQuit,
         ExecTimeoutSkip, ExecInvalid
<1>1. /\ iLine < scriptSize /\ iLine < Len(script) /\ pc = "exec"
      /\ iLine \in Nat /\ scriptSize \in Nat /\ scriptSize <= Len(script)
      /\ Len(script) \in Nat
  <2>1. pc = "exec"
    BY <1>4 DEF Exec, AvrAt
  <2>2. /\ iLine \in Nat /\ scriptSize \in Nat /\ Len(script) \in Nat
        /\ iLine < scriptSize /\ scriptSize <= Len(script)
    BY <1>0, <2>1 DEF TypeOK
  <2> QED BY <2>1, <2>2
<1>2. /\ Current \in [iLine : Nat, isValid : BOOLEAN, line : Line]
      /\ Current.isValid => Current.line \in AllLines
      /\ Current.isValid => /\ Current.iLine < Len(script)
                            /\ Current.line = script[Current.iLine + 1]
  BY <1>0, <1>1, CurrentType
<1>3. Current.isValid => ProcessAction(Current.line) \in Outcomes
  BY <1>0, <1>2, ProcessActionType DEF ClientsOK, TypeOK
<1>5. ParseCached'
  BY <1>2, <1>4 DEF Exec, ParseCached
<1>6. (mode = "script" => tpc = "idle")'
  BY <1>4 DEF Exec, termVars, TypeInv
\* The variables Exec settles.
<1>7. /\ lineState' \in [iLine : Nat, isValid : BOOLEAN, line : Line]
      /\ UNCHANGED <<mode, script, lockScript, scriptSize, slot, tpc, typing,
                     scriptGL, gpc, queuedMenu, pressed>>
      /\ pc' = "board"
  BY <1>2, <1>4 DEF Exec, AvrAt, termVars
\* The history a resolved line adds.
<1>8. \A res \in Outcome : Resolve(res) =>
        /\ waits' \in Nat /\ pictured' \in BOOLEAN /\ log' \in Seq(LogEntry)
  <2> SUFFICES ASSUME NEW res \in Outcome, Resolve(res)
               PROVE  waits' \in Nat /\ pictured' \in BOOLEAN /\ log' \in Seq(LogEntry)
    OBVIOUS
  <2> DEFINE e == [line |-> iLine, cmd |-> Current.line, res |-> res, waits |-> waits,
                   budget |-> timeoutCycles, pictured |-> pictured /\ ~Reparse]
  <2>1. e \in LogEntry
    <3>1. /\ Current.line \in Line /\ waits \in Nat /\ pictured \in BOOLEAN
          /\ timeoutCycles \in -1..MaxTimeout
      BY <1>0, <1>2 DEF TypeOK
    <3> QED BY <1>1, <3>1 DEF LogEntry
  <2>2. log' = Append(log, e) /\ waits' = 0 /\ pictured' = FALSE
    BY DEF Resolve
  <2>3. log \in Seq(LogEntry)
    BY <1>0 DEF TypeOK
  <2> HIDE DEF e
  <2> QED BY <2>1, <2>2, <2>3, AppendProperties
\* The part of the type invariant that is left to the six actions.
<1> DEFINE Rest ==
      /\ iLine \in Nat /\ iLine <= Len(script)
      /\ state \in {"Finished", "Idle", "Running", "Timeout", "Error"}
      /\ timeoutCycles \in -1..MaxTimeout /\ timeoutCount \in Nat
      /\ quitOnTimeout \in BOOLEAN /\ execHold \in BOOLEAN /\ canAccept \in BOOLEAN
      /\ cmdStatus \in {"TermIdle", "TermSuccess", "TermFailed", "TermWaiting",
                        "TermTimedOut", "TermSyntax"}
      /\ key \in KeyNames \cup {None}
      /\ board \in BoardState /\ snap \in SnapState
      /\ waits \in Nat /\ pictured \in BOOLEAN /\ log \in Seq(LogEntry)
<1>9. SUFFICES Rest'
  BY <1>0, <1>1, <1>5, <1>6, <1>7 DEF TypeOK, TypeInv
<1>10. Rest
  BY <1>0 DEF TypeOK
<1> DEFINE r == ProcessAction(Current.line)
<1>11. ASSUME Current.isValid
       PROVE  /\ HeldBoard(r) \in BoardState
              /\ SetQuitFlag(SetPaused(HeldBoard(r), FALSE)) \in BoardState
              /\ SetQuitFlag(r.board) \in BoardState
              /\ SetPaused(r.board, FALSE) \in BoardState
              /\ r.board \in BoardState
  <2> HIDE DEF r
  <2>1. r.board \in BoardState
    BY <1>3, <1>11 DEF Outcomes, r
  <2>2. HeldBoard(r) \in BoardState
    BY <2>1, SetPausedType DEF HeldBoard
  <2>3. SetPaused(HeldBoard(r), FALSE) \in BoardState
    BY <2>2, SetPausedType
  <2> QED BY <2>1, <2>2, <2>3, SetPausedType, SetQuitFlagType
<1>12. ASSUME Current.isValid, NEW b \in BoardState, Client(r, b)
       PROVE  /\ timeoutCycles' \in -1..MaxTimeout /\ quitOnTimeout' \in BOOLEAN
              /\ key' \in KeyNames \cup {None}
              /\ board' \in BoardState /\ snap' \in SnapState
  BY <1>3, <1>12 DEF Client, Outcomes
<1>13. Entered \in {"Finished", "Idle", "Running", "Timeout", "Error"}
  BY <1>0 DEF Entered, TypeOK
<1>14. CASE ExecFinished
  <2>1. /\ Current.isValid
        /\ Client(r, IF execHold THEN SetPaused(r.board, FALSE) ELSE r.board)
        /\ execHold' = FALSE /\ MoveTo(iLine + 1, Entered) /\ timeoutCount' = 0
        /\ cmdStatus' = "TermSuccess" /\ Resolve("ok")
    BY <1>14 DEF ExecFinished
  <2> HIDE DEF r
  <2>2. /\ timeoutCycles' \in -1..MaxTimeout /\ quitOnTimeout' \in BOOLEAN
        /\ key' \in KeyNames \cup {None} /\ board' \in BoardState /\ snap' \in SnapState
    BY <1>11, <1>12, <2>1
  <2>3. waits' \in Nat /\ pictured' \in BOOLEAN /\ log' \in Seq(LogEntry)
    BY <1>8, <2>1 DEF Outcome
  <2>4. /\ iLine' = iLine + 1 /\ canAccept' \in BOOLEAN
        /\ state' \in {"Finished", "Idle", "Running", "Timeout", "Error"}
    BY <1>13, <2>1 DEF MoveTo
  <2>5. execHold' \in BOOLEAN
    BY <2>1, Zenon
  <2>6. timeoutCount' \in Nat
    BY <2>1
  <2>7. iLine' \in Nat /\ iLine' <= Len(script)
    BY <1>1, <2>4
  <2> QED BY <1>7, <2>1, <2>2, <2>3, <2>4, <2>5, <2>6, <2>7
<1>15. CASE ExecError
  <2>1. /\ Current.isValid /\ Client(r, SetQuitFlag(r.board))
        /\ state' = "Error" /\ iLine' = scriptSize
        /\ cmdStatus' = "TermFailed" /\ Resolve("error")
        /\ UNCHANGED <<canAccept, timeoutCount, execHold>>
    BY <1>15 DEF ExecError
  <2> HIDE DEF r
  <2> QED BY <1>1, <1>7, <1>8, <1>10, <1>11, <1>12, <2>1 DEF Outcome
<1>16. CASE ExecWaiting
  <2>1. /\ Current.isValid /\ Client(r, HeldBoard(r))
        /\ execHold' = (execHold \/ Holds(r))
        /\ timeoutCount' = timeoutCount + 1 /\ cmdStatus' = "TermWaiting"
        /\ MoveTo(iLine, Entered)
        /\ waits' = waits + 1 /\ pictured' = (pictured /\ ~Reparse)
        /\ log' = log
    BY <1>16 DEF ExecWaiting
  <2> HIDE DEF r
  <2>2. execHold' \in BOOLEAN /\ pictured' \in BOOLEAN
    BY <2>1
  <2>3. /\ timeoutCycles' \in -1..MaxTimeout /\ quitOnTimeout' \in BOOLEAN
        /\ key' \in KeyNames \cup {None} /\ board' \in BoardState /\ snap' \in SnapState
    BY <1>11, <1>12, <2>1
  <2>4. /\ iLine' = iLine /\ canAccept' \in BOOLEAN
        /\ state' \in {"Finished", "Idle", "Running", "Timeout", "Error"}
    BY <1>13, <2>1 DEF MoveTo
  <2>5. waits' \in Nat /\ log' \in Seq(LogEntry) /\ timeoutCount' \in Nat
    BY <1>10, <2>1
  <2> QED BY <1>1, <1>7, <2>1, <2>2, <2>3, <2>4, <2>5
<1>17. CASE ExecTimeoutQuit
  <2>1. /\ Current.isValid
        /\ Client(r, SetQuitFlag(SetPaused(HeldBoard(r), FALSE)))
        /\ execHold' = (execHold \/ Holds(r))
        /\ timeoutCount' \in {timeoutCount + 1, timeoutCount}
        /\ state' = "Timeout" /\ iLine' = scriptSize /\ Resolve("quit")
        /\ UNCHANGED <<canAccept, cmdStatus>>
    BY <1>17 DEF ExecTimeoutQuit
  <2> HIDE DEF r
  <2>2. execHold' \in BOOLEAN /\ timeoutCount' \in Nat
    BY <1>10, <2>1
  <2>3. /\ timeoutCycles' \in -1..MaxTimeout /\ quitOnTimeout' \in BOOLEAN
        /\ key' \in KeyNames \cup {None} /\ board' \in BoardState /\ snap' \in SnapState
    BY <1>11, <1>12, <2>1
  <2>4. waits' \in Nat /\ pictured' \in BOOLEAN /\ log' \in Seq(LogEntry)
    BY <1>8, <2>1 DEF Outcome
  <2> QED BY <1>1, <1>7, <1>10, <2>1, <2>2, <2>3, <2>4
<1>18. CASE ExecTimeoutSkip
  <2>1. /\ Current.isValid /\ Client(r, HeldBoard(r))
        /\ execHold' = (execHold \/ Holds(r))
        /\ MoveTo(iLine + 1, "Timeout") /\ timeoutCount' = 0
        /\ cmdStatus' = "TermTimedOut" /\ Resolve("timeout")
    BY <1>18 DEF ExecTimeoutSkip
  <2> HIDE DEF r
  <2>2. execHold' \in BOOLEAN
    BY <2>1
  <2> QED BY <1>1, <1>7, <1>8, <1>10, <1>11, <1>12, <2>1, <2>2 DEF MoveTo, Outcome
<1>19. CASE ExecInvalid
  <2>1. /\ state' = "Error" /\ iLine' = scriptSize
        /\ cmdStatus' = "TermSyntax" /\ Resolve("syntax")
        /\ UNCHANGED <<canAccept, timeoutCycles, timeoutCount, quitOnTimeout,
                       execHold, board, snap, key>>
    BY <1>19 DEF ExecInvalid
  <2> QED BY <1>1, <1>7, <1>8, <1>10, <2>1 DEF Outcome
<1> QED BY <1>4, <1>14, <1>15, <1>16, <1>17, <1>18, <1>19

LEMMA InitType ==
  ASSUME NoStdin, Init
  PROVE  TypeInv
<1> USE BoardAssumption, ScriptHostAssumption
<1>1. script \in Seq(ScriptLines \cup TypedLines) /\ Len(script) \in Nat
  <2>1. CASE HasScript
    <3>1. PICK n \in 1..MaxLines :
            script \in [1..n -> {l \in ScriptLines : Parses(l)}]
      BY <2>1 DEF Init
    <3>2. script \in [1..n -> ScriptLines \cup TypedLines] /\ n \in Nat
      BY <3>1
    <3> QED BY <3>2
  <2>2. CASE ~HasScript
    BY <2>2, EmptySeq DEF Init
  <2> QED BY <2>1, <2>2
<1>2. BoardInit \in BoardState
  BY BoardAssumption DEF BoardInit, BoardState, StateReset, ResetCause
<1>3. SnapInit \in SnapState
  BY DEF SnapInit, SnapState, SnapStates
<1>4. NoLine \in Line
  BY DEF NoLine, Line, Acts
<1>5. canAccept \in BOOLEAN
  BY DEF Init
<1>6. log \in Seq(LogEntry)
  BY EmptySeq DEF Init
<1>7. TypeOK
  <2>1. /\ scriptGL = Len(script) /\ iLine = 0 /\ scriptSize = 0
        /\ timeoutCycles = -1 /\ timeoutCount = 0 /\ pressed = 0 /\ waits = 0
        /\ lineState = [iLine |-> 0, isValid |-> FALSE, line |-> NoLine]
        /\ board = BoardInit /\ snap = SnapInit
    BY DEF Init
  <2>2. /\ mode \in Modes /\ state = "Idle" /\ cmdStatus = "TermIdle"
        /\ lockScript = None /\ pc = "loop" /\ tpc = "idle" /\ gpc = "idle"
        /\ slot = None /\ key = None /\ queuedMenu = None /\ typing = NoLine
        /\ quitOnTimeout = FALSE /\ execHold = FALSE /\ pictured = FALSE
    BY DEF Init
  <2>3. -1 \in -1..MaxTimeout
    OBVIOUS
  <2>4. lineState \in [iLine : Nat, isValid : BOOLEAN, line : Line]
    BY <1>4, <2>1
  <2>5. /\ quitOnTimeout \in BOOLEAN /\ execHold \in BOOLEAN /\ pictured \in BOOLEAN
    BY <2>2, Zenon
  <2>6. /\ iLine \in Nat /\ iLine <= Len(script)
        /\ scriptSize \in Nat /\ scriptSize <= Len(script)
        /\ scriptGL \in Nat /\ scriptGL <= Len(script)
        /\ timeoutCycles \in -1..MaxTimeout /\ timeoutCount \in Nat
        /\ pressed \in Nat /\ waits \in Nat
    BY <1>1, <2>1
  <2> QED BY <1>1, <1>2, <1>3, <1>5, <1>6, <2>1, <2>2, <2>4, <2>5, <2>6 DEF TypeOK
<1>8. ParseCached /\ (mode = "script" => tpc = "idle")
  BY DEF Init, ParseCached
<1> QED BY <1>7, <1>8 DEF TypeInv

(***************************************************************************)
(* The rest of the AVR thread's turn.                                      *)
(***************************************************************************)
LEMMA TurnType ==
  ASSUME NoStdin, TypeInv,
         \/ LoopTest \/ MenuLoad \/ MenuTake \/ KeyLoad \/ KeyTake
         \/ ReadLock \/ Read \/ BoardPaused \/ BoardRuns
  PROVE  TypeInv'
<1>1. TypeOK /\ ParseCached /\ (mode = "script" => tpc = "idle")
  BY DEF TypeInv
<1>2. UNCHANGED <<mode, script, lineState, tpc>>
  BY DEF LoopTest, MenuLoad, MenuTake, KeyLoad, KeyTake, ReadLock, Read,
         BoardPaused, BoardRuns, hostVars, termVars
<1>3. ParseCached' /\ (mode = "script" => tpc = "idle")'
  BY <1>1, <1>2 DEF ParseCached
<1>4. TypeOK'
  <2> USE DEF hostVars, termVars, slotVars, AvrAt
  <2>1. CASE LoopTest
    BY <1>1, <2>1 DEF LoopTest, TypeOK
  <2>2. CASE MenuLoad
    BY <1>1, <2>2, ScriptHostAssumption DEF MenuLoad, TypeOK
  <2>3. CASE MenuTake
    <3>1. slot \in MenuItems
      BY <1>1, <2>3 DEF MenuTake, TypeOK
    <3>2. MenuBoard(slot) \in BoardState
      <4>1. board \in BoardState /\ 0 \in Nat /\ 0 <= MaxWait
        BY <1>1, BoardAssumption DEF TypeOK
      <4>2. CASE slot \in BoardActions
        BY <4>1, <4>2, BoardProcessType DEF MenuBoard
      <4>3. CASE slot \notin BoardActions
        BY <4>1, <4>3 DEF MenuBoard
      <4> QED BY <4>2, <4>3
    <3>3. MenuSnap(slot) \in SnapState
      <4>1. snap \in SnapState /\ "Snapshot" \in SnapActions
        BY <1>1 DEF TypeOK, SnapActions
      <4> QED BY <4>1, SnapProcessType DEF MenuSnap
    <3> QED BY <1>1, <2>3, <3>2, <3>3 DEF MenuTake, TypeOK
  <2>4. CASE KeyLoad
    BY <1>1, <2>4, ScriptHostAssumption DEF KeyLoad, TypeOK
  <2>5. CASE KeyTake
    <3>1. BoardKeyPress(board, slot) \in BoardState /\ SnapKeyPress(snap, slot) \in SnapState
      BY <1>1, BoardKeyPressType, SnapKeyPressType DEF TypeOK
    <3> QED BY <1>1, <2>5, <3>1 DEF KeyTake, TypeOK
  <2>6. CASE ReadLock
    BY <1>1, <2>6 DEF ReadLock, TypeOK
  <2>7. CASE Read
    <3>1. SizesSeen = {Len(script)}
      BY <1>1, NoStdin, ScriptHostAssumption DEF SizesSeen, HasTerminal, TypeOK, NoStdin
    <3>2. /\ scriptSize' = Len(script) /\ Len(script) \in Nat
          /\ pc' = IF iLine >= Len(script) THEN "board" ELSE "exec"
          /\ lockScript' = IF HasTerminal THEN None ELSE lockScript
      BY <1>1, <2>7, <3>1 DEF Read, TypeOK
    <3>3. pc' = "exec" => iLine < scriptSize'
      BY <1>1, <3>2 DEF TypeOK
    <3> QED BY <1>1, <2>7, <3>2, <3>3 DEF Read, TypeOK
  <2>8. CASE BoardPaused
    BY <1>1, <2>8 DEF BoardPaused, TypeOK
  <2>9. CASE BoardRuns
    <3>1. board' \in BoardState
      BY <1>1, <2>9, BoardTurnType DEF BoardRuns, TypeOK
    <3> QED BY <1>1, <2>9, <3>1 DEF BoardRuns, TypeOK
  <2> QED BY <2>1, <2>2, <2>3, <2>4, <2>5, <2>6, <2>7, <2>8, <2>9
<1> QED BY <1>3, <1>4 DEF TypeInv

(***************************************************************************)
(* The terminal thread only ever appends to the script, so a cached parse  *)
(* stays the parse of its line.                                            *)
(***************************************************************************)
LEMMA TermType ==
  ASSUME NoStdin, TypeInv,
         \/ PushLock \/ Push \/ Accept \/ \E l \in TypedLines : Return(l)
  PROVE  TypeInv'
<1> USE DEF hostVars, termVars, slotVars, TermAt
<1>1. TypeOK /\ ParseCached /\ (mode = "script" => tpc = "idle")
  BY DEF TypeInv
<1>2. script \in Seq(AllLines) /\ Len(script) \in Nat
  BY <1>1 DEF TypeOK, AllLines
<1>3. CASE PushLock
  <2>1. TypeOK'
    BY <1>1, <1>3 DEF PushLock, TypeOK
  <2>2. ParseCached' /\ (mode = "script" => tpc = "idle")'
    BY <1>1, <1>3 DEF PushLock, ParseCached
  <2> QED BY <2>1, <2>2 DEF TypeInv
<1>4. CASE Push
  <2>1. typing \in AllLines
    BY <1>1, <1>4 DEF Push, TypeOK, AllLines
  <2>2. /\ script' = Append(script, typing)
        /\ UNCHANGED <<mode, lineState, iLine, scriptSize, scriptGL>>
    BY <1>4 DEF Push
  <2>3. /\ script' \in Seq(AllLines) /\ Len(script') = Len(script) + 1
        /\ \A i \in 1..Len(script) : script'[i] = script[i]
    BY <1>2, <2>1, <2>2, AppendProperties
  <2>4. /\ iLine \in Nat /\ iLine <= Len(script')
        /\ scriptSize \in Nat /\ scriptSize <= Len(script')
        /\ scriptGL \in Nat /\ scriptGL <= Len(script')
    BY <1>1, <1>2, <2>3 DEF TypeOK
  <2>5. TypeOK'
    BY <1>1, <1>4, <2>2, <2>3, <2>4 DEF Push, TypeOK, AllLines
  <2>6. ParseCached'
    <3> SUFFICES ASSUME lineState.isValid
                 PROVE  /\ lineState.iLine < Len(script')
                        /\ lineState.line = script'[lineState.iLine + 1]
      BY <2>2 DEF ParseCached
    <3>1. /\ lineState.iLine \in Nat /\ lineState.iLine < Len(script)
          /\ lineState.line = script[lineState.iLine + 1]
      BY <1>1 DEF ParseCached, TypeOK
    <3>2. lineState.iLine + 1 \in 1..Len(script)
      BY <1>2, <3>1
    <3> QED BY <1>2, <2>3, <3>1, <3>2
  <2>7. (mode = "script" => tpc = "idle")'
    BY <1>1, <1>4 DEF Push
  <2> QED BY <2>5, <2>6, <2>7 DEF TypeInv
<1>5. CASE Accept
  <2>1. TypeOK'
    <3>1. canAccept' \in BOOLEAN
      BY <1>5 DEF Accept
    <3> QED BY <1>1, <1>5, <3>1 DEF Accept, TypeOK
  <2>2. ParseCached' /\ (mode = "script" => tpc = "idle")'
    BY <1>1, <1>5 DEF Accept, ParseCached
  <2> QED BY <2>1, <2>2 DEF TypeInv
<1>6. ASSUME NEW l \in TypedLines, Return(l)
      PROVE  TypeInv'
  <2>1. TypeOK'
    <3>1. canAccept' \in BOOLEAN
      BY <1>6 DEF Return
    <3> QED BY <1>1, <1>6, <3>1 DEF Return, TypeOK
  <2>2. ParseCached' /\ (mode = "script" => tpc = "idle")'
    BY <1>1, <1>6 DEF Return, ParseCached, HasKeyboard
  <2> QED BY <2>1, <2>2 DEF TypeInv
<1> QED BY <1>3, <1>4, <1>5, <1>6

LEMMA GlType ==
  ASSUME NoStdin, TypeInv,
         \/ Frame \/ DrawTest \/ DrawLine
         \/ \E k \in Keys : Press(k)
         \/ \E m \in MenuItems : Select(m)
  PROVE  TypeInv'
<1> USE DEF hostVars, termVars, slotVars
<1>1. TypeOK /\ ParseCached /\ (mode = "script" => tpc = "idle")
  BY DEF TypeInv
<1>2. UNCHANGED <<mode, script, lineState, tpc>>
  BY DEF Frame, DrawTest, DrawLine, Press, Select
<1>3. ParseCached' /\ (mode = "script" => tpc = "idle")'
  BY <1>1, <1>2 DEF ParseCached
<1>4. CASE Frame
  <2>1. snap' \in SnapState
    BY <1>1, <1>4, FrameType DEF Frame, TypeOK
  <2>2. pictured' \in BOOLEAN
    BY <1>1, <1>4 DEF Frame, TypeOK
  <2> QED BY <1>1, <1>3, <1>4, <2>1, <2>2 DEF Frame, TypeOK, TypeInv
<1>5. CASE DrawTest
  BY <1>1, <1>3, <1>5 DEF DrawTest, TypeOK, TypeInv
<1>6. CASE DrawLine
  BY <1>1, <1>3, <1>6 DEF DrawLine, TypeOK, TypeInv
<1>7. ASSUME NEW k \in Keys, Press(k)
      PROVE  TypeInv'
  BY <1>1, <1>3, <1>7 DEF Press, TypeOK, TypeInv, KeyNames
<1>8. ASSUME NEW m \in MenuItems, Select(m)
      PROVE  TypeInv'
  BY <1>1, <1>3, <1>8 DEF Select, TypeOK, TypeInv
<1> QED BY <1>4, <1>5, <1>6, <1>7, <1>8

LEMMA StepType ==
  ASSUME NoStdin, TypeInv, [Next]_vars
  PROVE  TypeInv'
<1>1. CASE ExecStep
  BY <1>1, ExecType
<1>2. CASE \/ LoopTest \/ MenuLoad \/ MenuTake \/ KeyLoad \/ KeyTake
           \/ ReadLock \/ Read \/ BoardPaused \/ BoardRuns
  BY <1>2, TurnType
<1>3. CASE TermStep \/ \E l \in TypedLines : Return(l)
  BY <1>3, TermType DEF TermStep
<1>4. CASE GlStep \/ (\E k \in Keys : Press(k)) \/ (\E m \in MenuItems : Select(m))
  BY <1>4, GlType DEF GlStep
<1>5. CASE UNCHANGED vars
  <2>1. TypeOK'
    BY <1>5 DEF vars, hostVars, termVars, slotVars, TypeInv, TypeOK
  <2>2. ParseCached' /\ (mode = "script" => tpc = "idle")'
    BY <1>5 DEF vars, hostVars, termVars, TypeInv, ParseCached
  <2> QED BY <2>1, <2>2 DEF TypeInv
<1> QED BY <1>1, <1>2, <1>3, <1>4, <1>5 DEF Next, AvrStep

\* Every variable keeps its type, and no index the AVR thread holds ever
\* leaves the script, however the window's thread and it interleave.
THEOREM TypeCorrect ==
  ASSUME NoStdin
  PROVE  Spec => []TypeOK
<1>1. Init => TypeInv
  BY InitType
<1>2. TypeInv /\ [Next]_vars => TypeInv'
  BY StepType
<1>3. TypeInv => TypeOK
  BY DEF TypeInv
<1> QED BY <1>1, <1>2, <1>3, PTL DEF Spec

-----------------------------------------------------------------------------
(***************************************************************************)
(* Mutual exclusion.  The lock belongs to the thread that is where its     *)
(* holder would be; that the two places exclude each other follows.        *)
(***************************************************************************)
LockInv ==
  HasTerminal =>
    /\ lockScript = "avr"  <=> pc = "read"
    /\ lockScript = "term" <=> tpc = "push"

LEMMA StepLock ==
  ASSUME LockInv, [Next]_vars
  PROVE  LockInv'
<1> USE DEF LockInv, HasTerminal, AvrAt, TermAt, termVars, None
<1>1. CASE ReadLock
  BY <1>1 DEF ReadLock
<1>2. CASE Read
  BY <1>2 DEF Read
<1>3. CASE \/ LoopTest \/ MenuLoad \/ MenuTake \/ KeyLoad \/ KeyTake
           \/ BoardPaused \/ BoardRuns
  BY <1>3 DEF LoopTest, MenuLoad, MenuTake, KeyLoad, KeyTake, BoardPaused, BoardRuns
<1>4. CASE ExecStep
  <2>1. Exec
    BY <1>4 DEF ExecStep, ExecFinished, ExecError, ExecWaiting, ExecTimeoutQuit,
                ExecTimeoutSkip, ExecInvalid
  <2> QED BY <2>1 DEF Exec
<1>5. CASE TermStep
  BY <1>5 DEF TermStep, PushLock, Push, Accept
<1>6. CASE \/ GlStep
           \/ \E l \in TypedLines : Return(l)
           \/ \E k \in Keys : Press(k)
           \/ \E m \in MenuItems : Select(m)
  BY <1>6 DEF GlStep, Frame, DrawTest, DrawLine, Return, Press, Select
<1>7. CASE UNCHANGED vars
  BY <1>7 DEF vars
<1> QED BY <1>1, <1>2, <1>3, <1>4, <1>5, <1>6, <1>7 DEF Next, AvrStep

\* With the window's terminal the AVR thread never reads the script while the
\* terminal thread appends to it: the purpose of m_lckScript.
THEOREM Exclusion == Spec => []ScriptExclusive
<1>1. Init => LockInv
  BY DEF Init, LockInv, None
<1>2. LockInv /\ [Next]_vars => LockInv'
  BY StepLock
<1>3. LockInv => ScriptExclusive
  BY DEF LockInv, ScriptExclusive, NoRace
<1> QED BY <1>1, <1>2, <1>3, PTL DEF Spec

-----------------------------------------------------------------------------
(***************************************************************************)
(* What the log says.  A turn that executes a line either waits with it or *)
(* resolves it; the two predicates say all the proofs below need to know.  *)
(***************************************************************************)
Waited ==
  /\ Current.isValid /\ MayWait
  /\ iLine' = iLine /\ state' = Entered /\ log' = log
  /\ waits' = waits + 1
  /\ timeoutCount' = timeoutCount + 1 /\ timeoutCycles' = timeoutCycles

Resolved(res) ==
  /\ Resolve(res)
  /\ iLine' \in Nat /\ iLine' > iLine
  /\ res \notin Ends => iLine' = iLine + 1
  /\ res = "syntax" <=> ~Current.isValid
  /\ timeoutCount' = 0 \/ board'.quit \/ (res = "syntax" /\ timeoutCount' = timeoutCount)
  /\ res \in {"timeout", "quit"} => Current.line.act \in SnapActions \/ ~MayWait

LEMMA QuitSticks ==
  ASSUME NEW b \in BoardState
  PROVE  SetQuitFlag(b).quit
BY DEF SetQuitFlag, BoardState

LEMMA ExecShape ==
  ASSUME NoStdin, TypeInv, ExecStep
  PROVE  /\ pc = "exec" /\ pc' = "board"
         /\ script' = script /\ lineState' = Current
         /\ iLine \in Nat /\ iLine < Len(script)
         /\ Current.isValid => Current.line = script[iLine + 1] /\ Current.iLine = iLine
         /\ Waited \/ \E res \in Outcome : Resolved(res)
<1>1. TypeOK /\ ParseCached
  BY DEF TypeInv
<1>2. /\ Exec
      /\ \/ ExecFinished \/ ExecError \/ ExecWaiting
         \/ ExecTimeoutQuit \/ ExecTimeoutSkip \/ ExecInvalid
  BY DEF ExecStep, ExecFinished, ExecError, ExecWaiting, ExecTimeoutQuit,
         ExecTimeoutSkip, ExecInvalid
<1>3. pc = "exec" /\ pc' = "board" /\ script' = script /\ lineState' = Current
  BY <1>2 DEF Exec, AvrAt
<1>4. /\ iLine \in Nat /\ scriptSize \in Nat /\ Len(script) \in Nat
      /\ iLine < scriptSize /\ iLine < Len(script)
  <2>1. /\ iLine \in Nat /\ scriptSize \in Nat /\ Len(script) \in Nat
        /\ iLine < scriptSize /\ scriptSize <= Len(script)
    BY <1>1, <1>3 DEF TypeOK
  <2> QED BY <2>1
<1>5. Current.isValid => /\ Current.line \in AllLines
                         /\ Current.line = script[iLine + 1] /\ Current.iLine = iLine
  BY <1>1, <1>4, CurrentType
<1> DEFINE r == ProcessAction(Current.line)
<1>6. Current.isValid =>
        /\ r \in Outcomes
        /\ r.cycles # timeoutCycles => r.res = "Finished"
        /\ r.res = "Timeout" => Current.line.act \in SnapActions
  BY <1>1, <1>5, ProcessActionType DEF ClientsOK, TypeOK
<1>7. Current.isValid => /\ SetQuitFlag(r.board).quit
                         /\ SetQuitFlag(SetPaused(HeldBoard(r), FALSE)).quit
  <2> SUFFICES ASSUME Current.isValid
               PROVE  /\ SetQuitFlag(r.board).quit
                      /\ SetQuitFlag(SetPaused(HeldBoard(r), FALSE)).quit
    OBVIOUS
  <2> HIDE DEF r
  <2>1. r.board \in BoardState
    BY <1>6 DEF Outcomes
  <2>2. HeldBoard(r) \in BoardState
    BY <2>1, SetPausedType DEF HeldBoard
  <2>3. SetPaused(HeldBoard(r), FALSE) \in BoardState
    BY <2>2, SetPausedType
  <2> QED BY <2>1, <2>3, QuitSticks
<1>8. CASE ExecFinished
  <2>1. /\ Current.isValid /\ MoveTo(iLine + 1, Entered) /\ timeoutCount' = 0
        /\ Resolve("ok")
    BY <1>8 DEF ExecFinished
  <2>2. iLine' = iLine + 1
    BY <2>1 DEF MoveTo
  <2>3. Resolved("ok")
    BY <1>4, <2>1, <2>2 DEF Resolved, Ends
  <2> QED BY <1>3, <1>4, <1>5, <2>3 DEF Outcome
<1>9. CASE ExecError
  <2>1. /\ Current.isValid /\ Client(r, SetQuitFlag(r.board)) /\ iLine' = scriptSize
        /\ Resolve("error")
    BY <1>9 DEF ExecError
  <2>2. board'.quit
    BY <1>7, <2>1 DEF Client
  <2>3. Resolved("error")
    BY <1>4, <2>1, <2>2 DEF Resolved, Ends
  <2> QED BY <1>3, <1>4, <1>5, <2>3 DEF Outcome
<1>10. CASE ExecWaiting
  <2>1. /\ Current.isValid /\ MustWait(r) /\ MayWait /\ Client(r, HeldBoard(r))
        /\ timeoutCount' = timeoutCount + 1 /\ MoveTo(iLine, Entered)
        /\ waits' = waits + 1 /\ log' = log
    BY <1>10 DEF ExecWaiting
  <2>2. timeoutCycles' = timeoutCycles
    BY <1>6, <2>1 DEF Client, MustWait
  <2>3. iLine' = iLine /\ state' = Entered
    BY <1>4, <2>1 DEF MoveTo
  <2>4. Waited
    BY <2>1, <2>2, <2>3 DEF Waited
  <2> QED BY <1>3, <1>4, <1>5, <2>4
<1>11. CASE ExecTimeoutQuit
  <2>1. /\ Current.isValid /\ TimedOut(r)
        /\ Client(r, SetQuitFlag(SetPaused(HeldBoard(r), FALSE)))
        /\ iLine' = scriptSize /\ Resolve("quit")
    BY <1>11 DEF ExecTimeoutQuit
  <2>2. board'.quit
    BY <1>7, <2>1 DEF Client
  <2>3. Current.line.act \in SnapActions \/ ~MayWait
    BY <1>6, <2>1 DEF TimedOut
  <2>4. Resolved("quit")
    BY <1>4, <2>1, <2>2, <2>3 DEF Resolved, Ends
  <2> QED BY <1>3, <1>4, <1>5, <2>4 DEF Outcome
<1>12. CASE ExecTimeoutSkip
  <2>1. /\ Current.isValid /\ TimedOut(r) /\ MoveTo(iLine + 1, "Timeout")
        /\ timeoutCount' = 0 /\ Resolve("timeout")
    BY <1>12 DEF ExecTimeoutSkip
  <2>2. iLine' = iLine + 1
    BY <2>1 DEF MoveTo
  <2>3. Current.line.act \in SnapActions \/ ~MayWait
    BY <1>6, <2>1 DEF TimedOut
  <2>4. Resolved("timeout")
    BY <1>4, <2>1, <2>2, <2>3 DEF Resolved, Ends
  <2> QED BY <1>3, <1>4, <1>5, <2>4 DEF Outcome
<1>13. CASE ExecInvalid
  <2>1. /\ ~Current.isValid /\ iLine' = scriptSize /\ timeoutCount' = timeoutCount
        /\ Resolve("syntax")
    BY <1>13 DEF ExecInvalid
  <2>2. Resolved("syntax")
    BY <1>4, <2>1 DEF Resolved, Ends
  <2> QED BY <1>3, <1>4, <1>5, <2>2 DEF Outcome
<1> QED BY <1>2, <1>8, <1>9, <1>10, <1>11, <1>12, <1>13

\* Every other step leaves the place in the script and the log alone, and the
\* script itself but for a line appended to it.
LEMMA OtherShape ==
  ASSUME TypeInv, [Next]_vars, ~ExecStep
  PROVE  /\ UNCHANGED <<iLine, state, lineState, timeoutCycles, timeoutCount, waits, log>>
         /\ script' = script \/ \E l \in AllLines : script' = Append(script, l)
<1> USE DEF hostVars, termVars, slotVars
<1>1. CASE \/ LoopTest \/ MenuLoad \/ MenuTake \/ KeyLoad \/ KeyTake
           \/ ReadLock \/ Read \/ BoardPaused \/ BoardRuns
  BY <1>1 DEF LoopTest, MenuLoad, MenuTake, KeyLoad, KeyTake, ReadLock, Read,
              BoardPaused, BoardRuns
<1>2. CASE PushLock \/ Accept \/ GlStep
  BY <1>2 DEF PushLock, Accept, GlStep, Frame, DrawTest, DrawLine
<1>3. CASE Push
  <2>1. typing \in AllLines
    BY <1>3 DEF Push, TermAt, TypeInv, TypeOK, AllLines
  <2> QED BY <1>3, <2>1 DEF Push
<1>4. CASE \/ \E l \in TypedLines : Return(l)
           \/ \E k \in Keys : Press(k)
           \/ \E m \in MenuItems : Select(m)
  BY <1>4 DEF Return, Press, Select
<1>5. CASE UNCHANGED vars
  BY <1>5 DEF vars
<1> QED BY <1>1, <1>2, <1>3, <1>4, <1>5 DEF Next, AvrStep, TermStep

LogInv ==
  /\ LinesInOrder
  /\ RightLineExecuted
  /\ \A i \in 1..Len(log) : log[i].line < Len(script)
  /\ log # <<>> => log[Len(log)].line < iLine

LEMMA StepLog ==
  ASSUME NoStdin, TypeInv, LogInv, [Next]_vars
  PROVE  LogInv'
<1>1. /\ iLine \in Nat /\ log \in Seq(LogEntry) /\ Len(log) \in Nat
      /\ script \in Seq(AllLines) /\ Len(script) \in Nat
      /\ \A i \in 1..Len(log) : log[i] \in LogEntry /\ log[i].line \in Nat
  <2>1. iLine \in Nat /\ log \in Seq(LogEntry) /\ script \in Seq(AllLines)
    BY DEF TypeInv, TypeOK, AllLines
  <2>2. Len(log) \in Nat /\ Len(script) \in Nat
    BY <2>1
  <2>3. ASSUME NEW i \in 1..Len(log)
        PROVE  log[i] \in LogEntry
    BY <2>1
  <2>4. ASSUME NEW i \in 1..Len(log)
        PROVE  log[i].line \in Nat
    BY <2>3 DEF LogEntry
  <2> QED BY <2>1, <2>2, <2>3, <2>4
<1>2. CASE ~ExecStep
  <2>1. /\ UNCHANGED <<iLine, log>>
        /\ script' = script \/ \E l \in AllLines : script' = Append(script, l)
    BY <1>2, OtherShape
  <2>2. /\ Len(script') \in Nat /\ Len(script') >= Len(script)
        /\ \A i \in 1..Len(script) : script'[i] = script[i]
    <3>1. CASE script' = script
      BY <1>1, <3>1
    <3>2. ASSUME NEW l \in AllLines, script' = Append(script, l)
          PROVE  /\ Len(script') \in Nat /\ Len(script') >= Len(script)
                 /\ \A i \in 1..Len(script) : script'[i] = script[i]
      BY <1>1, <3>2, AppendProperties
    <3> QED BY <2>1, <3>1, <3>2
  <2>3. LinesInOrder'
    BY <2>1 DEF LogInv, LinesInOrder
  <2>4. ASSUME NEW i \in 1..Len(log)
        PROVE  /\ log[i].line < Len(script')
               /\ script'[log[i].line + 1] = script[log[i].line + 1]
    <3>1. log[i].line \in Nat /\ log[i].line < Len(script)
      BY <1>1 DEF LogInv
    <3>2. log[i].line + 1 \in 1..Len(script)
      BY <1>1, <3>1
    <3> QED BY <1>1, <2>2, <3>1, <3>2
  <2>5. RightLineExecuted'
    BY <2>1, <2>4 DEF LogInv, RightLineExecuted
  <2> QED BY <2>1, <2>3, <2>4, <2>5 DEF LogInv
<1>3. CASE ExecStep
  <2>1. /\ script' = script /\ iLine < Len(script)
        /\ Current.isValid => Current.line = script[iLine + 1]
        /\ Waited \/ \E res \in Outcome : Resolved(res)
    BY <1>3, ExecShape
  <2>2. CASE Waited
    BY <2>1, <2>2 DEF Waited, LogInv, LinesInOrder, RightLineExecuted
  <2>3. ASSUME NEW res \in Outcome, Resolved(res)
        PROVE  LogInv'
    <3> DEFINE e == [line |-> iLine, cmd |-> Current.line, res |-> res, waits |-> waits,
                     budget |-> timeoutCycles, pictured |-> pictured /\ ~Reparse]
               n == Len(log)
    <3>1. log' = Append(log, e)
      BY <2>3 DEF Resolved, Resolve
    <3>2. /\ e.line = iLine /\ e.res = res /\ e.cmd = Current.line
          /\ iLine' \in Nat /\ iLine' > iLine /\ (res \notin Ends => iLine' = iLine + 1)
          /\ res # "syntax" => e.cmd = script[iLine + 1]
      BY <2>1, <2>3 DEF Resolved
    <3> HIDE DEF e
    <3>3. /\ Len(log') = n + 1 /\ log'[n + 1] = e /\ log' # <<>>
          /\ \A i \in 1..n : log'[i] = log[i]
      BY <1>1, <3>1
    <3>4. /\ n > 0 => log[n].line < iLine
          /\ n > 0 /\ log[n].res \notin Ends => iLine = log[n].line + 1
          /\ n = 0 => iLine = 0
      <4>1. n > 0 => log # <<>>
        OBVIOUS
      <4>2. n = 0 => log = <<>>
        BY <1>1, EmptySeq
      <4> QED BY <4>1, <4>2 DEF LogInv, LinesInOrder
    <3>5. ASSUME NEW i \in 1..Len(log')
          PROVE  LET before == IF i = 1 THEN -1 ELSE log'[i - 1].line
                 IN  IF i > 1 /\ log'[i - 1].res \in Ends
                     THEN log'[i].line > before ELSE log'[i].line = before + 1
      <4>1. CASE i \in 1..n
        <5>1. /\ log'[i] = log[i]
              /\ i > 1 => log'[i - 1] = log[i - 1]
          BY <1>1, <3>3, <4>1
        <5> QED BY <4>1, <5>1 DEF LogInv, LinesInOrder
      <4>2. CASE i = n + 1
        <5>1. /\ log'[i].line = iLine
              /\ i > 1 => log'[i - 1] = log[n] /\ log[n].line \in Nat
          BY <1>1, <3>2, <3>3, <4>2
        <5> QED BY <1>1, <3>4, <4>2, <5>1
      <4> QED BY <1>1, <3>3, <4>1, <4>2
    <3>6. LinesInOrder'
      BY <1>1, <3>2, <3>3, <3>5 DEF LinesInOrder
    <3>7. ASSUME NEW i \in 1..Len(log')
          PROVE  /\ log'[i].line < Len(script')
                 /\ log'[i].res # "syntax" => log'[i].cmd = script'[log'[i].line + 1]
      <4>1. CASE i \in 1..n
        BY <1>1, <2>1, <3>3, <4>1 DEF LogInv, RightLineExecuted
      <4>2. CASE i = n + 1
        BY <1>1, <2>1, <3>2, <3>3, <4>2
      <4> QED BY <1>1, <3>3, <4>1, <4>2
    <3>8. log'[Len(log')].line < iLine'
      BY <1>1, <3>2, <3>3
    <3> QED BY <3>6, <3>7, <3>8 DEF LogInv, RightLineExecuted
  <2> QED BY <2>1, <2>2, <2>3
<1> QED BY <1>2, <1>3

LEMMA LogInvariant ==
  ASSUME NoStdin
  PROVE  Spec => [](TypeInv /\ LogInv)
<1>1. Init => TypeInv /\ LogInv
  <2>1. Init => LogInv
    <3> SUFFICES ASSUME Init
                 PROVE  LogInv
      OBVIOUS
    <3>1. log = <<>> /\ Len(log) = 0 /\ iLine = 0
      BY DEF Init
    <3>2. 1..Len(log) = {}
      BY <3>1
    <3> QED BY <3>1, <3>2 DEF LogInv, LinesInOrder, RightLineExecuted
  <2> QED BY <2>1, InitType
<1>2. TypeInv /\ LogInv /\ [Next]_vars => (TypeInv /\ LogInv)'
  BY StepType, StepLog
<1> QED BY <1>1, <1>2, PTL DEF Spec

\* The AVR thread resolves the lines one after the other, none twice, and
\* passes over none unless a line ended the script.
THEOREM InOrder ==
  ASSUME NoStdin
  PROVE  Spec => []LinesInOrder
<1>1. TypeInv /\ LogInv => LinesInOrder
  BY DEF LogInv
<1> QED BY <1>1, LogInvariant, PTL

\* What it executes for a line is that line, although ParseLine may leave the
\* line state of an earlier line in place and the script grows meanwhile.
THEOREM RightLine ==
  ASSUME NoStdin
  PROVE  Spec => []RightLineExecuted
<1>1. TypeInv /\ LogInv => RightLineExecuted
  BY DEF LogInv
<1> QED BY <1>1, LogInvariant, PTL

-----------------------------------------------------------------------------
(***************************************************************************)
(* Timeouts.  m_iTimeoutCount counts the waits of the current line, except *)
(* after a line that told the board to quit, whose count nobody resets;    *)
(* that is harmless because the AVR thread executes no line any more.      *)
(***************************************************************************)
Stopping == board.quit /\ pc \in {"board", "loop", "done"}

WaitInv ==
  /\ FullTimeout
  /\ timeoutCount = waits \/ Stopping
  /\ waits > 0 => /\ timeoutCycles >= 0 /\ waits <= timeoutCycles
                  /\ ~Reparse /\ lineState.isValid

LEMMA StoppingStays ==
  ASSUME TypeInv, Stopping, [Next]_vars, ~ExecStep
  PROVE  Stopping'
<1> USE DEF Stopping, AvrAt, termVars
<1>1. board \in BoardState
  BY DEF TypeInv, TypeOK
<1>2. ASSUME NEW clears \in BOOLEAN
      PROVE  BoardTurn(board, clears).quit = board.quit
  BY <1>1 DEF BoardTurn, BoardState
<1>3. CASE LoopTest
  BY <1>3 DEF LoopTest
<1>4. CASE BoardPaused
  BY <1>4 DEF BoardPaused
<1>5. CASE BoardRuns
  BY <1>2, <1>5 DEF BoardRuns
<1>6. CASE \/ MenuLoad \/ MenuTake \/ KeyLoad \/ KeyTake \/ ReadLock \/ Read
  BY <1>6 DEF MenuLoad, MenuTake, KeyLoad, KeyTake, ReadLock, Read
<1>7. CASE TermStep \/ GlStep
  BY <1>7 DEF TermStep, PushLock, Push, Accept, GlStep, Frame, DrawTest, DrawLine
<1>8. CASE \/ \E l \in TypedLines : Return(l)
           \/ \E k \in Keys : Press(k)
           \/ \E m \in MenuItems : Select(m)
  BY <1>8 DEF Return, Press, Select
<1>9. CASE UNCHANGED vars
  BY <1>9 DEF vars
<1> QED BY <1>3, <1>4, <1>5, <1>6, <1>7, <1>8, <1>9 DEF Next, AvrStep

LEMMA StepWait ==
  ASSUME NoStdin, TypeInv, WaitInv, [Next]_vars
  PROVE  WaitInv'
<1>1. /\ log \in Seq(LogEntry) /\ Len(log) \in Nat /\ waits \in Nat
      /\ timeoutCount \in Nat /\ timeoutCycles \in Int
  <2>1. log \in Seq(LogEntry) /\ waits \in Nat /\ timeoutCount \in Nat
    BY DEF TypeInv, TypeOK
  <2>2. timeoutCycles \in -1..MaxTimeout /\ MaxTimeout \in Nat
    BY ScriptHostAssumption DEF TypeInv, TypeOK
  <2> QED BY <2>1, <2>2
<1>2. CASE ~ExecStep
  <2>1. UNCHANGED <<iLine, state, lineState, timeoutCycles, timeoutCount, waits, log>>
    BY <1>2, OtherShape
  <2>2. Stopping => Stopping'
    BY <1>2, StoppingStays
  <2> QED BY <2>1, <2>2 DEF WaitInv, FullTimeout, Reparse
<1>3. CASE ExecStep
  <2>1. /\ pc = "exec" /\ pc' = "board" /\ lineState' = Current
        /\ Current.isValid => Current.iLine = iLine
        /\ Waited \/ \E res \in Outcome : Resolved(res)
    BY <1>3, ExecShape
  <2>2. timeoutCount = waits
    BY <2>1 DEF WaitInv, Stopping
  <2>3. CASE Waited
    <3>1. /\ timeoutCycles >= 0 /\ timeoutCount + 1 <= timeoutCycles
          /\ waits' = waits + 1 /\ timeoutCount' = timeoutCount + 1
          /\ timeoutCycles' = timeoutCycles /\ log' = log
      BY <2>3 DEF Waited, MayWait
    <3>2. Current.isValid /\ iLine' = iLine /\ state' = Entered
      BY <2>3 DEF Waited
    <3>3. ~Reparse' /\ lineState'.isValid
      BY <2>1, <3>2 DEF Reparse, Entered
    <3>4. FullTimeout'
      BY <3>1 DEF WaitInv, FullTimeout
    <3> QED BY <1>1, <2>2, <3>1, <3>3, <3>4 DEF WaitInv
  <2>4. ASSUME NEW res \in Outcome, Resolved(res)
        PROVE  WaitInv'
    <3> DEFINE e == [line |-> iLine, cmd |-> Current.line, res |-> res, waits |-> waits,
                     budget |-> timeoutCycles, pictured |-> pictured /\ ~Reparse]
               n == Len(log)
    <3>1. log' = Append(log, e) /\ waits' = 0
      BY <2>4 DEF Resolved, Resolve
    <3>2. timeoutCount' = waits' \/ Stopping'
      <4>1. CASE res = "syntax" /\ timeoutCount' = timeoutCount
        <5>1. ~Current.isValid
          BY <2>4, <4>1 DEF Resolved
        <5>2. ~(waits > 0)
          BY <5>1 DEF WaitInv, Current
        <5> QED BY <1>1, <2>2, <3>1, <4>1, <5>2
      <4>2. CASE board'.quit
        BY <2>1, <4>2 DEF Stopping
      <4>3. CASE timeoutCount' = 0
        BY <3>1, <4>3
      <4> QED BY <2>4, <4>1, <4>2, <4>3 DEF Resolved
    <3>3. res \in {"timeout", "quit"} /\ Current.line.act \notin SnapActions
            => waits = IF timeoutCycles >= 0 THEN timeoutCycles ELSE 0
      <4> SUFFICES ASSUME res \in {"timeout", "quit"}, Current.line.act \notin SnapActions
                   PROVE  waits = IF timeoutCycles >= 0 THEN timeoutCycles ELSE 0
        OBVIOUS
      <4>1. ~(timeoutCycles >= 0 /\ timeoutCount + 1 <= timeoutCycles)
        BY <2>4 DEF Resolved, MayWait
      <4>2. waits > 0 => timeoutCycles >= 0 /\ waits <= timeoutCycles
        BY DEF WaitInv
      <4> QED BY <1>1, <2>2, <4>1, <4>2
    <3>4. e.res = res /\ e.cmd = Current.line /\ e.waits = waits /\ e.budget = timeoutCycles
      OBVIOUS
    <3> HIDE DEF e
    <3>5. /\ Len(log') = n + 1 /\ log'[n + 1] = e
          /\ \A i \in 1..n : log'[i] = log[i]
      BY <1>1, <3>1
    <3>6. ASSUME NEW i \in 1..Len(log'),
                 log'[i].res \in {"timeout", "quit"}, log'[i].cmd.act \notin SnapActions
          PROVE  log'[i].waits = IF log'[i].budget >= 0 THEN log'[i].budget ELSE 0
      <4>1. CASE i \in 1..n
        BY <3>5, <3>6, <4>1 DEF WaitInv, FullTimeout
      <4>2. CASE i = n + 1
        BY <3>3, <3>4, <3>5, <3>6, <4>2
      <4> QED BY <1>1, <3>5, <4>1, <4>2
    <3>7. FullTimeout'
      BY <3>6 DEF FullTimeout
    <3> QED BY <3>1, <3>2, <3>7 DEF WaitInv
  <2> QED BY <2>1, <2>3, <2>4
<1> QED BY <1>2, <1>3

\* A line that is timed out was told to wait exactly as often as the timeout
\* in force allows, whatever the lines before it left behind.
THEOREM Timeouts ==
  ASSUME NoStdin
  PROVE  Spec => []FullTimeout
<1>1. Init => TypeInv /\ WaitInv
  <2> SUFFICES ASSUME Init
               PROVE  WaitInv
    BY InitType
  <2>1. Len(log) = 0 /\ waits = 0 /\ timeoutCount = 0
    BY DEF Init
  <2>2. 1..Len(log) = {}
    BY <2>1
  <2> QED BY <2>1, <2>2 DEF WaitInv, FullTimeout
<1>2. TypeInv /\ WaitInv /\ [Next]_vars => (TypeInv /\ WaitInv)'
  BY StepType, StepWait
<1>3. TypeInv /\ WaitInv => FullTimeout
  BY DEF WaitInv
<1> QED BY <1>1, <1>2, <1>3, PTL DEF Spec
-----------------------------------------------------------------------------
(***************************************************************************)
(* The status and the exit code.  What a turn that executes a line does to *)
(* the status and the state, beside Waited and Resolved.                   *)
(***************************************************************************)
LEMMA ExecOutcome ==
  ASSUME ExecStep
  PROVE  /\ UNCHANGED <<tpc, scriptGL, script>> /\ pc = "exec" /\ pc' = "board"
         /\ \/ log' = log /\ iLine' = iLine
               /\ state' = IF iLine = scriptSize THEN "Finished" ELSE Entered
            \/ \E res \in {"ok", "timeout"} :
                 /\ Resolve(res) /\ iLine' = iLine + 1 /\ cmdStatus' = StatusOf(res)
                 /\ state' \in IF iLine + 1 = scriptSize THEN {"Finished"}
                               ELSE {Entered, "Timeout"}
            \/ \E res \in Ends :
                 /\ Resolve(res) /\ iLine' = scriptSize
                 /\ cmdStatus' = IF res = "quit" THEN cmdStatus ELSE StatusOf(res)
                 /\ state' \in {"Error", "Timeout"}
<1>1. /\ Exec
      /\ \/ ExecFinished \/ ExecError \/ ExecWaiting
         \/ ExecTimeoutQuit \/ ExecTimeoutSkip \/ ExecInvalid
  BY DEF ExecStep, ExecFinished, ExecError, ExecWaiting, ExecTimeoutQuit,
         ExecTimeoutSkip, ExecInvalid
<1>2. UNCHANGED <<tpc, scriptGL, script>> /\ pc = "exec" /\ pc' = "board"
  BY <1>1 DEF Exec, AvrAt, termVars
<1>3. CASE ExecFinished
  BY <1>2, <1>3 DEF ExecFinished, MoveTo, StatusOf
<1>4. CASE ExecError
  BY <1>2, <1>4 DEF ExecError, StatusOf, Ends
<1>5. CASE ExecWaiting
  BY <1>2, <1>5 DEF ExecWaiting, MoveTo
<1>6. CASE ExecTimeoutQuit
  BY <1>2, <1>6 DEF ExecTimeoutQuit, Ends
<1>7. CASE ExecTimeoutSkip
  BY <1>2, <1>7 DEF ExecTimeoutSkip, MoveTo, StatusOf
<1>8. CASE ExecInvalid
  BY <1>2, <1>8 DEF ExecInvalid, StatusOf, Ends
<1> QED BY <1>1, <1>3, <1>4, <1>5, <1>6, <1>7, <1>8

\* What a resolved line leaves in the log.
LEMMA ResolveLog ==
  ASSUME TypeInv, NEW res, Resolve(res)
  PROVE  /\ Len(log) \in Nat /\ Len(log') = Len(log) + 1
         /\ log'[Len(log) + 1].res = res
         /\ \A i \in 1..Len(log) : log'[i] = log[i]
<1> DEFINE e == [line |-> iLine, cmd |-> Current.line, res |-> res, waits |-> waits,
                 budget |-> timeoutCycles, pictured |-> pictured /\ ~Reparse]
<1>1. log \in Seq(LogEntry) /\ e.res = res /\ log' = Append(log, e)
  BY DEF TypeInv, TypeOK, Resolve
<1> HIDE DEF e
<1> QED BY <1>1

\* While a typed line is on its way into the script, the status is that of nobody.
StatusInv ==
  tpc \in {"idle", "accept"} /\ iLine = Len(script) /\ log # <<>>
    => cmdStatus = StatusOf(log[Len(log)].res)

LEMMA StepStatus ==
  ASSUME NoStdin, TypeInv, StatusInv, [Next]_vars
  PROVE  StatusInv'
<1>1. CASE ExecStep
  <2>1. /\ iLine \in Nat /\ Len(script) \in Nat /\ iLine < Len(script)
    BY <1>1, ExecShape DEF TypeInv, TypeOK
  <2>2. UNCHANGED <<tpc, script>>
    BY <1>1, ExecOutcome
  <2>3. CASE iLine' = iLine
    BY <2>1, <2>2, <2>3 DEF StatusInv
  <2>4. ASSUME NEW res \in Ends \cup {"ok", "timeout"}, Resolve(res),
               cmdStatus' = IF res = "quit" THEN cmdStatus ELSE StatusOf(res)
        PROVE  StatusInv'
    <3>1. log'[Len(log')].res = res
      BY <2>4, ResolveLog
    <3>2. res = "quit" \/ cmdStatus' = StatusOf(res)
      BY <2>4
    <3> QED BY <2>4, <3>1, <3>2 DEF StatusInv, StatusOf, Ends
  <2>5. \/ iLine' = iLine
        \/ \E res \in {"ok", "timeout"} : Resolve(res) /\ cmdStatus' = StatusOf(res)
        \/ \E res \in Ends : /\ Resolve(res)
                             /\ cmdStatus' = IF res = "quit" THEN cmdStatus ELSE StatusOf(res)
    BY <1>1, ExecOutcome
  <2> QED BY <2>3, <2>4, <2>5
<1>2. CASE ~ExecStep
  <2>1. UNCHANGED <<iLine, log>>
    BY <1>2, OtherShape
  <2>2. CASE Push
    <3>1. /\ iLine \in Nat /\ Len(script) \in Nat /\ iLine <= Len(script)
          /\ Len(script') = Len(script) + 1
      BY <2>2 DEF Push, TypeInv, TypeOK
    <3> QED BY <2>1, <3>1 DEF StatusInv
  <2>3. CASE \E l \in TypedLines : Return(l)
    BY <2>3 DEF Return, TermAt, StatusInv
  <2>4. CASE PushLock
    BY <2>4 DEF PushLock, TermAt, StatusInv
  <2>5. CASE Accept
    BY <2>1, <2>5 DEF Accept, TermAt, StatusInv, StatusOf
  <2>6. CASE UNCHANGED <<cmdStatus, tpc, script>>
    BY <2>1, <2>6 DEF StatusInv, StatusOf
  <2>7. CASE \/ LoopTest \/ MenuLoad \/ MenuTake \/ KeyLoad \/ KeyTake
             \/ ReadLock \/ Read \/ BoardPaused \/ BoardRuns
    <3>1. UNCHANGED <<cmdStatus, tpc, script>>
      BY <2>7 DEF LoopTest, MenuLoad, MenuTake, KeyLoad, KeyTake, ReadLock, Read,
                  BoardPaused, BoardRuns, termVars
    <3> QED BY <2>6, <3>1
  <2>8. CASE \/ GlStep \/ \E k \in Keys : Press(k)
             \/ \E m \in MenuItems : Select(m)
    <3>1. UNCHANGED <<cmdStatus, tpc, script>>
      BY <2>8 DEF GlStep, Frame, DrawTest, DrawLine, Press, Select, termVars
    <3> QED BY <2>6, <3>1
  <2>9. CASE UNCHANGED vars
    <3>1. UNCHANGED <<cmdStatus, tpc, script>>
      BY <2>9 DEF vars, termVars
    <3> QED BY <2>6, <3>1
  <2> QED BY <1>2, <2>2, <2>3, <2>4, <2>5, <2>7, <2>8, <2>9 DEF Next, AvrStep, TermStep
<1> QED BY <1>1, <1>2

\* Whichever thread wrote it last, the status in the window is that of the last line, once
\* everything that was typed is resolved (KeyCB and OnAVRCycle of ScriptHost.cpp).
THEOREM Status ==
  ASSUME NoStdin
  PROVE  Spec => []StatusIsOfLastLine
<1>1. Init => TypeInv /\ StatusInv
  <2>1. Init => StatusInv
    BY DEF Init, StatusInv
  <2> QED BY <2>1, InitType
<1>2. TypeInv /\ StatusInv /\ [Next]_vars => (TypeInv /\ StatusInv)'
  BY StepType, StepStatus
<1>3. TypeInv /\ StatusInv => StatusIsOfLastLine
  BY DEF StatusInv, StatusIsOfLastLine
<1> QED BY <1>1, <1>2, <1>3, PTL DEF Spec

(***************************************************************************)
(* While nothing was typed, the AVR thread knows the size of the script,   *)
(* and a line that ends the script was the last: it is then at the end of  *)
(* the script, where no line is executed.                                  *)
(***************************************************************************)
ExitInv ==
  Len(script) = scriptGL =>
    /\ pc = "exec" => scriptSize = scriptGL
    /\ \/ /\ iLine = Len(log) /\ \A i \in 1..Len(log) : log[i].res \notin Ends
          /\ state = "Finished" => iLine = scriptGL
       \/ iLine = scriptGL /\ state \in {"Error", "Timeout"}

LEMMA StepExit ==
  ASSUME NoStdin, TypeInv, ExitInv, [Next]_vars
  PROVE  ExitInv'
<1>0. /\ iLine \in Nat /\ Len(script) \in Nat /\ scriptGL \in Nat /\ iLine <= Len(script)
      /\ scriptSize \in Nat /\ scriptGL <= Len(script) /\ Len(log) \in Nat
      /\ pc = "exec" => iLine < scriptSize
  BY DEF TypeInv, TypeOK
<1>1. CASE ExecStep
  <2>1. UNCHANGED <<script, scriptGL>> /\ pc = "exec" /\ pc' = "board"
    BY <1>1, ExecOutcome
  <2> SUFFICES ASSUME Len(script) = scriptGL
               PROVE  \/ /\ iLine' = Len(log') /\ \A i \in 1..Len(log') : log'[i].res \notin Ends
                         /\ state' = "Finished" => iLine' = scriptGL
                      \/ iLine' = scriptGL /\ state' \in {"Error", "Timeout"}
    BY <2>1 DEF ExitInv
  <2>2. /\ scriptSize = scriptGL /\ iLine < scriptGL
        /\ iLine = Len(log) /\ \A i \in 1..Len(log) : log[i].res \notin Ends
        /\ state # "Finished"
    BY <1>0, <2>1 DEF ExitInv
  <2>3. Entered # "Finished"
    BY <2>2 DEF Entered
  <2>4. CASE log' = log /\ iLine' = iLine /\ state' = Entered
    BY <2>2, <2>3, <2>4
  <2>5. ASSUME NEW res \in {"ok", "timeout"}, Resolve(res), iLine' = iLine + 1,
               state' \in IF iLine + 1 = scriptSize THEN {"Finished"} ELSE {Entered, "Timeout"}
        PROVE  /\ iLine' = Len(log') /\ \A i \in 1..Len(log') : log'[i].res \notin Ends
               /\ state' = "Finished" => iLine' = scriptGL
    <3>1. /\ Len(log') = Len(log) + 1 /\ log'[Len(log) + 1].res = res
          /\ \A i \in 1..Len(log) : log'[i] = log[i]
      BY <2>5, ResolveLog
    <3>2. ASSUME NEW i \in 1..Len(log') PROVE log'[i].res \notin Ends
      <4>1. CASE i \in 1..Len(log)
        BY <2>2, <3>1, <4>1
      <4>2. CASE i = Len(log) + 1
        BY <2>5, <3>1, <4>2 DEF Ends
      <4> QED BY <1>0, <3>1, <4>1, <4>2
    <3>3. state' = "Finished" => iLine' = scriptGL
      BY <2>2, <2>3, <2>5
    <3> QED BY <2>2, <2>5, <3>1, <3>2, <3>3
  <2>6. CASE \E res \in Ends : iLine' = scriptSize /\ state' \in {"Error", "Timeout"}
    BY <2>2, <2>6
  <2>7. iLine # scriptSize
    BY <1>0, <2>2
  <2> QED BY <1>1, <2>4, <2>5, <2>6, <2>7, ExecOutcome
<1>2. CASE ~ExecStep
  <2>1. UNCHANGED <<iLine, log, state>>
    BY <1>2, OtherShape
  <2>2. CASE Push
    <3>1. Len(script') = Len(script) + 1 /\ scriptGL' = scriptGL
      BY <2>2 DEF Push, TypeInv, TypeOK
    <3> QED BY <1>0, <3>1 DEF ExitInv
  <2>3. CASE Read
    <3>1. SizesSeen = {Len(script)}
      <4>1. mode \in Modes /\ (mode = "script" => tpc = "idle")
        BY DEF TypeInv, TypeOK
      <4> QED BY <4>1, NoStdin, ScriptHostAssumption DEF SizesSeen, HasTerminal, NoStdin
    <3>2. UNCHANGED <<script, scriptGL>> /\ scriptSize' = Len(script)
      BY <2>3, <3>1 DEF Read, termVars
    <3> QED BY <2>1, <3>2 DEF ExitInv
  <2>4. CASE UNCHANGED <<script, scriptGL, scriptSize>> /\ (pc' = "exec" => pc = "exec")
    BY <2>1, <2>4 DEF ExitInv
  <2>5. CASE LoopTest \/ MenuLoad \/ MenuTake \/ KeyLoad \/ KeyTake \/ ReadLock \/ BoardPaused
             \/ BoardRuns
    <3>1. UNCHANGED <<script, scriptGL, scriptSize>> /\ (pc' = "exec" => pc = "exec")
      BY <2>5 DEF LoopTest, MenuLoad, MenuTake, KeyLoad, KeyTake, ReadLock, BoardPaused,
                  BoardRuns, termVars, AvrAt
    <3> QED BY <2>4, <3>1
  <2>6. CASE \/ PushLock \/ Accept \/ GlStep
             \/ \E l \in TypedLines : Return(l)
             \/ \E k \in Keys : Press(k)
             \/ \E m \in MenuItems : Select(m)
    <3>1. UNCHANGED <<script, scriptGL, scriptSize>> /\ (pc' = "exec" => pc = "exec")
      BY <2>6 DEF PushLock, Accept, GlStep, Frame, DrawTest, DrawLine, Return, Press, Select,
                  termVars
    <3> QED BY <2>4, <3>1
  <2>7. CASE UNCHANGED vars
    <3>1. UNCHANGED <<script, scriptGL, scriptSize>> /\ (pc' = "exec" => pc = "exec")
      BY <2>7 DEF vars, termVars
    <3> QED BY <2>4, <3>1
  <2> QED BY <1>2, <2>2, <2>3, <2>5, <2>6, <2>7 DEF Next, AvrStep, TermStep
<1> QED BY <1>1, <1>2

\* A script run that ends with 0 has resolved every line of its file, none by an error or by
\* the timeout that quits (main() returns ScriptHost::GetState(), Finished being 0).
THEOREM ExitCode ==
  ASSUME NoStdin
  PROVE  Spec => []ExitCodeHonest
<1>1. Init => TypeInv /\ ExitInv
  <2>1. Init => ExitInv
    <3> SUFFICES ASSUME Init PROVE ExitInv
      OBVIOUS
    <3>1. log = <<>> /\ Len(log) = 0 /\ iLine = 0 /\ state = "Idle" /\ pc = "loop"
      BY DEF Init
    <3>2. 1..Len(log) = {}
      BY <3>1
    <3> QED BY <3>1, <3>2 DEF ExitInv
  <2> QED BY <2>1, InitType
<1>2. TypeInv /\ ExitInv /\ [Next]_vars => (TypeInv /\ ExitInv)'
  BY StepType, StepExit
<1>3. TypeInv /\ ExitInv => ExitCodeHonest
  BY DEF ExitInv, ExitCodeHonest
<1> QED BY <1>1, <1>2, <1>3, PTL DEF Spec

=============================================================================
