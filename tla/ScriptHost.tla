----------------------------- MODULE ScriptHost -----------------------------
(***************************************************************************)
(* The script engine: ScriptHost, the run loop of the primary board that   *)
(* drives it, and the key and menu slots through which the user reaches    *)
(* the same loop (parts/ScriptHost.cpp, parts/Board.cpp,                   *)
(* parts/KeyController.cpp).  Three threads take part:                     *)
(*   - the AVR thread runs Board::RunAVR; its place in a turn is pc;       *)
(*   - the terminal thread runs ScriptHost::KeyCB: GLUT's thread when the  *)
(*     terminal is drawn in the window, a stdin reader otherwise; its      *)
(*     place is tpc;                                                       *)
(*   - the GL thread fills the key and menu slots and draws frames.        *)
(* A line of a script is a record [act, arg].  "Garbage" stands for a line *)
(* not of the form Context::Action(args), "Unknown" for one whose context, *)
(* action or argument count is not registered, and "Fail" for an action    *)
(* whose client answers Error or Unhandled.                                *)
(***************************************************************************)
EXTENDS Integers, Sequences, Board, GLHelper

CONSTANTS
  Modes,        \* the ways of starting the program that are explored
  ScriptLines,  \* the lines a script file may hold
  TypedLines,   \* the lines a user may type
  Keys,         \* the keys a user may press
  MenuItems,    \* the menu entries a user may select
  MaxLines,     \* bound: lines of a script, the typed ones included
  MaxPressed,   \* bound: keys pressed and menu entries selected
  MaxTimeout    \* bound: the argument of SetTimeoutMs, in turns

None == "none"
Acts == BoardActions \cup SnapActions \cup
  {"Log", "SetTimeoutMs", "SetQuitOnTimeout", "Key", "Fail", "Garbage", "Unknown", None}
Line == [act : Acts, arg : Nat]

ASSUME ScriptHostAssumption ==
  /\ Modes \subseteq {"script", "scriptTerminal", "terminal", "stdin"}
  /\ ScriptLines \subseteq Line /\ TypedLines \subseteq Line
  /\ MaxLines \in Nat /\ MaxPressed \in Nat
  /\ MaxTimeout \in Nat
  /\ None \notin Keys \cup MenuItems
  /\ \A l \in ScriptLines \cup TypedLines :
       /\ l.act = "WaitMs" => l.arg \in 0..MaxWait
       /\ l.act = "SetTimeoutMs" => l.arg \in 0..MaxTimeout

VARIABLES
  mode,          \* how the program was started
  script,        \* m_script
  iLine,         \* m_iLine
  state,         \* m_state
  lineState,     \* GetLineState()
  timeoutCycles, \* m_iTimeoutCycles
  timeoutCount,  \* m_iTimeoutCount
  quitOnTimeout, \* m_bQuitOnTimeout
  execHold,      \* m_bIsExecHold
  canAccept,     \* m_bCanAcceptInput
  cmdStatus,     \* m_eCmdStatus
  lockScript,    \* who holds m_lckScript
  pc,            \* place of the AVR thread in RunAVR
  scriptSize,    \* its local scriptSize of OnAVRCycle
  slot,          \* its local copy of the key or menu slot
  tpc,           \* place of the terminal thread in KeyCB
  typing,        \* m_strCmd when Return is pressed
  scriptGL,      \* the length of m_scriptGL, the GL thread's copy of the file
  gpc,           \* place of the GL thread in ScriptHost::Draw
  key,           \* KeyController::m_key
  queuedMenu,    \* m_uiQueuedMenu
  board,         \* the primary board
  snap,          \* the snapshot client
  pressed,       \* counter for the bound MaxPressed
  waits,         \* history: times the current line was told to wait
  pictured,      \* history: a snapshot was taken since the line was parsed
  log            \* history: one record for each line that was resolved

(***************************************************************************)
(* A definition named Mut... is the one after it with a plausible mistake  *)
(* in it: the property it breaks shows that the run is able to fail.       *)
(***************************************************************************)
hostVars  == <<iLine, state, lineState, timeoutCycles, timeoutCount,
               quitOnTimeout, execHold, waits, log>>
termVars  == <<tpc, typing, gpc, scriptGL>>
slotVars  == <<key, queuedMenu, pressed>>
vars == <<mode, script, hostVars, canAccept, cmdStatus, lockScript, pc,
          scriptSize, slot, termVars, slotVars, board, snap, pictured>>

NoLine == [act |-> None, arg |-> 0]
HasScript   == mode \in {"script", "scriptTerminal"}
\* m_bIsTerminalEnabled: SetupAutocomplete ran.
HasTerminal == mode \in {"scriptTerminal", "terminal"}
\* Someone runs KeyCB: the window's terminal, or the thread of EnableStdio.
HasKeyboard == mode # "script"

-----------------------------------------------------------------------------
(***************************************************************************)
(* main(): Setup loads the script, which ValidateScript has accepted, so   *)
(* every line of it parses; without a script input is accepted at once.    *)
(***************************************************************************)
Parses(l) == l.act \notin {"Garbage", "Unknown"}

Init ==
  /\ mode \in Modes
  /\ IF HasScript
     THEN \E n \in 1..MaxLines :
            script \in [1..n -> {l \in ScriptLines : Parses(l)}]
     ELSE script = <<>>
  /\ iLine = 0
  /\ state = "Idle"
  /\ lineState = [iLine |-> 0, isValid |-> FALSE, line |-> NoLine]
  /\ timeoutCycles = -1
  /\ timeoutCount = 0
  /\ quitOnTimeout = FALSE
  /\ execHold = FALSE
  /\ canAccept = ~HasScript
  /\ cmdStatus = "TermIdle"
  /\ lockScript = None
  /\ pc = "loop"
  /\ scriptSize = 0
  /\ slot = None
  /\ tpc = "idle"
  /\ typing = NoLine
  /\ scriptGL = Len(script)
  /\ gpc = "idle"
  /\ key = None
  /\ queuedMenu = None
  /\ board = BoardInit
  /\ snap = SnapInit
  /\ pressed = 0
  /\ waits = 0 /\ pictured = FALSE
  /\ log = <<>>

-----------------------------------------------------------------------------
(***************************************************************************)
(* One turn of RunAVR: the quit flag, the menu slot, the key slot, the     *)
(* script, the board.  A slot is loaded and cleared in two steps, as the   *)
(* code does; the GL thread may store into it in between.                  *)
(***************************************************************************)
AvrAt(here, next) == pc = here /\ pc' = next

\* The clients of a menu entry, and what selecting it does (ProcessMenu).
MenuBoard(m) == IF m \in BoardActions THEN BoardProcess(board, m, 0).board ELSE board
MenuSnap(m)  == IF m = "AutoSnap" THEN SnapProcess(snap, "Snapshot", 0).snap ELSE snap

LoopTest ==
  /\ pc = "loop"
  /\ pc' = IF board.quit THEN "done" ELSE "menu"
  /\ UNCHANGED <<mode, script, hostVars, canAccept, cmdStatus, lockScript,
                 scriptSize, slot, termVars, slotVars, board, snap, pictured>>

\* ScriptHost::DispatchMenuCB
MenuLoad ==
  /\ pc = "menu"
  /\ pc' = IF queuedMenu = None THEN "key" ELSE "menuTake"
  /\ slot' = queuedMenu
  /\ UNCHANGED <<mode, script, hostVars, canAccept, cmdStatus, lockScript,
                 scriptSize, termVars, slotVars, board, snap, pictured>>

MenuTake ==
  /\ AvrAt("menuTake", "key")
  /\ queuedMenu' = None
  /\ slot' = None
  /\ board' = MenuBoard(slot)
  /\ snap' = MenuSnap(slot)
  /\ UNCHANGED <<mode, script, hostVars, canAccept, cmdStatus, lockScript,
                 scriptSize, termVars, key, pressed, pictured>>

MutKeyLoad ==
  /\ pc = "key"
  /\ pc' = CASE key # None -> "keyTake"
             [] key = None /\ board.paused  -> "board"
             [] key = None /\ ~board.paused -> "script"
  /\ slot' = key
  /\ UNCHANGED <<mode, script, hostVars, canAccept, cmdStatus, lockScript,
                 scriptSize, termVars, slotVars, board, snap, pictured>>

\* KeyController::OnAVRCycle
KeyLoad ==
  /\ pc = "key"
  /\ pc' = IF key = None THEN "script" ELSE "keyTake"
  /\ slot' = key
  /\ UNCHANGED <<mode, script, hostVars, canAccept, cmdStatus, lockScript,
                 scriptSize, termVars, slotVars, board, snap, pictured>>

KeyTake ==
  /\ AvrAt("keyTake", "script")
  /\ key' = None
  /\ slot' = None
  /\ board' = BoardKeyPress(board, slot)
  /\ snap' = SnapKeyPress(snap, slot)
  /\ UNCHANGED <<mode, script, hostVars, canAccept, cmdStatus, lockScript,
                 scriptSize, termVars, queuedMenu, pressed, pictured>>

(***************************************************************************)
(* ScriptHost::OnAVRCycle reads the script under m_lckScript only when the *)
(* terminal of the window is enabled.                                      *)
(***************************************************************************)
MutReadLock ==
  /\ AvrAt("script", "read")
  /\ UNCHANGED <<mode, script, hostVars, canAccept, cmdStatus, lockScript,
                 scriptSize, slot, termVars, slotVars, board, snap, pictured>>

ReadLock ==
  /\ AvrAt("script", "read")
  /\ HasTerminal => lockScript = None
  /\ lockScript' = IF HasTerminal THEN "avr" ELSE lockScript
  /\ UNCHANGED <<mode, script, hostVars, canAccept, cmdStatus, scriptSize,
                 slot, termVars, slotVars, board, snap, pictured>>

\* An unlocked read that meets push_back is a data race: it may see either size.
SizesSeen == IF tpc = "push" /\ ~HasTerminal
             THEN {Len(script), Len(script) + 1} ELSE {Len(script)}

Read ==
  /\ pc = "read"
  /\ lockScript' = IF HasTerminal THEN None ELSE lockScript
  /\ \E n \in SizesSeen :
       /\ scriptSize' = n
       /\ pc' = IF iLine >= n THEN "board" ELSE "exec"
  /\ UNCHANGED <<mode, script, hostVars, canAccept, cmdStatus, slot,
                 termVars, slotVars, board, snap, pictured>>

-----------------------------------------------------------------------------
(***************************************************************************)
(* ScriptHost::ParseLine: a line that has no parts leaves the rest of the  *)
(* line state, its number included, as the last line left it.              *)
(***************************************************************************)
MutParseLine(n) ==
  LET l == script[n + 1]
  IN CASE l.act = "Garbage" -> lineState
       [] l.act = "Unknown" -> [lineState EXCEPT !.isValid = FALSE, !.iLine = n]
       [] OTHER -> [iLine |-> n, isValid |-> TRUE, line |-> l]

ParseLine(n) ==
  LET l == script[n + 1]
  IN CASE l.act = "Garbage" -> [lineState EXCEPT !.isValid = FALSE]
       [] l.act = "Unknown" -> [lineState EXCEPT !.isValid = FALSE, !.iLine = n]
       [] OTHER -> [iLine |-> n, isValid |-> TRUE, line |-> l]

Reparse == lineState.iLine # iLine \/ state = "Idle"
Current == IF Reparse THEN ParseLine(iLine) ELSE lineState

\* What KeyCtl::Key puts into the key slot.
KeyNamed(n) == CASE n = 0 -> "z" [] n = 1 -> "q" [] n = 2 -> "r" [] OTHER -> "S"

(***************************************************************************)
(* ProcessAction of the line's client: everything a client may change, and *)
(* the LineStatus it returns.                                              *)
(***************************************************************************)
Same == [board |-> board, snap |-> snap, key |-> key, cycles |-> timeoutCycles,
         quitOn |-> quitOnTimeout, res |-> "Finished"]

ProcessAction(l) ==
  CASE l.act \in BoardActions ->
         LET r == BoardProcess(board, l.act, l.arg)
         IN  [Same EXCEPT !.board = r.board, !.res = r.res]
    [] l.act \in SnapActions ->
         LET r == SnapProcess(snap, l.act, l.arg)
         IN  [Same EXCEPT !.snap = r.snap, !.res = r.res]
    [] l.act = "SetTimeoutMs"     -> [Same EXCEPT !.cycles = l.arg]
    [] l.act = "SetQuitOnTimeout" -> [Same EXCEPT !.quitOn = (l.arg # 0)]
    [] l.act = "Key"              -> [Same EXCEPT !.key = KeyNamed(l.arg)]
    [] l.act = "Fail"             -> [Same EXCEPT !.res = "Error"]
    [] OTHER                      -> Same

\* HoldExec is a wait that pauses the board as well.
Holds(r)     == r.res = "HoldExec"
HeldBoard(r) == IF Holds(r) THEN SetPaused(r.board, TRUE) ELSE r.board
MustWait(r)  == r.res \in {"Waiting", "HoldExec"}

\* m_iTimeoutCycles>=0 && ++m_iTimeoutCount<=m_iTimeoutCycles
MayWait == timeoutCycles >= 0 /\ timeoutCount + 1 <= timeoutCycles

-----------------------------------------------------------------------------
(***************************************************************************)
(* The rest of OnAVRCycle, one action per LineStatus: parse the line if it *)
(* is new (under the lock), let its client act, act on the status.         *)
(***************************************************************************)
Exec ==
  /\ AvrAt("exec", "board")
  /\ Reparse => lockScript = None
  /\ lineState' = Current
  /\ UNCHANGED <<mode, script, lockScript, scriptSize, slot, termVars,
                 queuedMenu, pressed>>

Client(r, b) ==
  /\ board' = b /\ snap' = r.snap /\ key' = r.key
  /\ timeoutCycles' = r.cycles
  /\ quitOnTimeout' = r.quitOn

Resolve(res) ==
  /\ waits' = 0
  /\ pictured' = FALSE
  /\ log' = Append(log,
       [line |-> iLine, cmd |-> Current.line, res |-> res, waits |-> waits,
        budget |-> timeoutCycles, pictured |-> pictured /\ ~Reparse])

MutMoveTo(n, s) ==
  /\ iLine' = IF s = "Timeout" THEN n + 1 ELSE n
  /\ state' = IF n = scriptSize THEN "Finished" ELSE s
  /\ canAccept' = (canAccept \/ n = scriptSize)

\* The end of OnAVRCycle: the last line known to this turn ends the script.
MoveTo(n, s) ==
  /\ iLine' = n
  /\ state' = IF n = scriptSize THEN "Finished" ELSE s
  /\ canAccept' = (canAccept \/ n = scriptSize)

Entered == IF Reparse THEN "Running" ELSE state

ExecFinished ==
  /\ Exec /\ Current.isValid
  /\ LET r == ProcessAction(Current.line)
     IN  /\ r.res = "Finished"
         /\ Client(r, IF execHold THEN SetPaused(r.board, FALSE) ELSE r.board)
  /\ execHold' = FALSE
  /\ MoveTo(iLine + 1, Entered)
  /\ timeoutCount' = 0
  /\ cmdStatus' = "TermSuccess"
  /\ Resolve("ok")

MutExecError ==
  /\ Exec /\ Current.isValid
  /\ LET r == ProcessAction(Current.line)
     IN  /\ r.res = "Error"
         /\ Client(r, SetQuitFlag(r.board))
  /\ state' = "Error"
  /\ iLine' = scriptSize + 1
  /\ cmdStatus' = "TermFailed"
  /\ Resolve("error")
  /\ UNCHANGED <<canAccept, timeoutCount, execHold>>

ExecError ==
  /\ Exec /\ Current.isValid
  /\ LET r == ProcessAction(Current.line)
     IN  /\ r.res = "Error"
         /\ Client(r, SetQuitFlag(r.board))
  /\ state' = "Error"
  /\ iLine' = scriptSize
  /\ cmdStatus' = "TermFailed"
  /\ Resolve("error")
  /\ UNCHANGED <<canAccept, timeoutCount, execHold>>

ExecWaiting ==
  /\ Exec /\ Current.isValid
  /\ LET r == ProcessAction(Current.line)
     IN  /\ MustWait(r) /\ MayWait
         /\ Client(r, HeldBoard(r))
         /\ execHold' = (execHold \/ Holds(r))
  /\ timeoutCount' = timeoutCount + 1
  /\ cmdStatus' = "TermWaiting"
  /\ MoveTo(iLine, Entered)
  /\ waits' = waits + 1
  /\ pictured' = (pictured /\ ~Reparse)
  /\ UNCHANGED log

TimedOut(r) == r.res = "Timeout" \/ (MustWait(r) /\ ~MayWait)

MutExecTimeoutQuit ==
  /\ Exec /\ Current.isValid /\ quitOnTimeout
  /\ LET r == ProcessAction(Current.line)
     IN  /\ TimedOut(r)
         /\ Client(r, SetQuitFlag(SetPaused(HeldBoard(r), FALSE)))
         /\ execHold' = (execHold \/ Holds(r))
  /\ MoveTo(scriptSize, "Timeout")
  /\ timeoutCount' = 0
  /\ Resolve("quit")
  /\ UNCHANGED cmdStatus

ExecTimeoutQuit ==
  /\ Exec /\ Current.isValid /\ quitOnTimeout
  /\ LET r == ProcessAction(Current.line)
     IN  /\ TimedOut(r)
         /\ Client(r, SetQuitFlag(SetPaused(HeldBoard(r), FALSE)))
         /\ execHold' = (execHold \/ Holds(r))
         /\ timeoutCount' = IF MustWait(r) /\ timeoutCycles >= 0
                            THEN timeoutCount + 1 ELSE timeoutCount
  /\ state' = "Timeout"
  /\ iLine' = scriptSize
  /\ Resolve("quit")
  /\ UNCHANGED <<canAccept, cmdStatus>>

MutExecTimeoutSkip ==
  /\ Exec /\ Current.isValid /\ ~quitOnTimeout
  /\ LET r == ProcessAction(Current.line)
     IN  /\ TimedOut(r)
         /\ Client(r, HeldBoard(r))
         /\ execHold' = (execHold \/ Holds(r))
  /\ MoveTo(iLine + 1, "Timeout")
  /\ cmdStatus' = "TermTimedOut"
  /\ Resolve("timeout")
  /\ UNCHANGED timeoutCount

ExecTimeoutSkip ==
  /\ Exec /\ Current.isValid /\ ~quitOnTimeout
  /\ LET r == ProcessAction(Current.line)
     IN  /\ TimedOut(r)
         /\ Client(r, HeldBoard(r))
         /\ execHold' = (execHold \/ Holds(r))
  /\ MoveTo(iLine + 1, "Timeout")
  /\ timeoutCount' = 0
  /\ cmdStatus' = "TermTimedOut"
  /\ Resolve("timeout")

ExecInvalid ==
  /\ Exec /\ ~Current.isValid
  /\ state' = "Error"
  /\ iLine' = scriptSize
  /\ cmdStatus' = "TermSyntax"
  /\ Resolve("syntax")
  /\ UNCHANGED <<canAccept, timeoutCycles, timeoutCount, quitOnTimeout,
                 execHold, board, snap, key>>

-----------------------------------------------------------------------------
\* The rest of the turn: a paused board only sleeps; the AVR may stop for good.
BoardPaused ==
  /\ AvrAt("board", "loop")
  /\ board.paused
  /\ UNCHANGED <<mode, script, hostVars, canAccept, cmdStatus, lockScript,
                 scriptSize, slot, termVars, slotVars, board, snap, pictured>>

BoardRuns ==
  /\ pc = "board"
  /\ ~board.paused
  /\ \E clears \in BOOLEAN : board' = BoardTurn(board, clears)
  /\ pc' \in {"loop", "done"}
  /\ UNCHANGED <<mode, script, hostVars, canAccept, cmdStatus, lockScript,
                 scriptSize, slot, termVars, slotVars, snap, pictured>>

ExecStep == ExecFinished \/ ExecError \/ ExecWaiting \/ ExecTimeoutQuit
              \/ ExecTimeoutSkip \/ ExecInvalid
\* An exception that leaves the frame's callback ends the program, all threads of it.
Alive == gpc # "thrown"
AvrStep ==
  /\ Alive
  /\ \/ LoopTest \/ MenuLoad \/ MenuTake \/ KeyLoad \/ KeyTake \/ ReadLock
     \/ Read \/ ExecStep \/ BoardPaused \/ BoardRuns

-----------------------------------------------------------------------------
(***************************************************************************)
(* ScriptHost::KeyCB on Return: input is refused while the line is pushed  *)
(* under the lock, and accepted again when it is in the script.            *)
(***************************************************************************)
TermAt(here, next) == tpc = here /\ tpc' = next

\* In a window the terminal thread is the GL thread.
WindowThread == mode # "stdin"

Return(l) ==
  /\ HasKeyboard /\ Len(script) < MaxLines
  /\ TermAt("idle", "lock")
  /\ WindowThread => gpc = "idle"
  /\ canAccept
  /\ canAccept' = FALSE
  /\ cmdStatus' = "TermIdle"
  /\ typing' = l
  /\ UNCHANGED <<mode, script, hostVars, lockScript, pc, scriptSize, slot,
                 scriptGL, gpc, slotVars, board, snap, pictured>>

PushLock ==
  /\ TermAt("lock", "push")
  /\ lockScript = None
  /\ lockScript' = "term"
  /\ UNCHANGED <<mode, script, hostVars, canAccept, cmdStatus, pc, scriptSize,
                 slot, typing, scriptGL, gpc, slotVars, board, snap, pictured>>

Push ==
  /\ TermAt("push", "accept")
  /\ script' = Append(script, typing)
  /\ lockScript' = None
  /\ typing' = NoLine
  /\ UNCHANGED <<mode, hostVars, canAccept, cmdStatus, pc, scriptSize, slot,
                 scriptGL, gpc, slotVars, board, snap, pictured>>

MutAccept ==
  /\ TermAt("accept", "idle")
  /\ canAccept' = TRUE
  /\ cmdStatus' = "TermIdle"
  /\ UNCHANGED <<mode, script, hostVars, lockScript, pc, scriptSize,
                 slot, typing, scriptGL, gpc, slotVars, board, snap, pictured>>

Accept ==
  /\ TermAt("accept", "idle")
  /\ canAccept' = TRUE
  /\ UNCHANGED <<mode, script, hostVars, cmdStatus, lockScript, pc, scriptSize,
                 slot, typing, scriptGL, gpc, slotVars, board, snap, pictured>>

TermStep == PushLock \/ Push \/ Accept

-----------------------------------------------------------------------------
\* The GL thread: keys, menu entries, frames.
GlIdle == gpc = "idle" /\ (WindowThread => tpc = "idle")

Press(k) ==
  /\ GlIdle /\ pressed < MaxPressed
  /\ key' = k
  /\ pressed' = pressed + 1
  /\ UNCHANGED <<mode, script, hostVars, canAccept, cmdStatus, lockScript, pc,
                 scriptSize, slot, termVars, queuedMenu, board, snap, pictured>>

Select(m) ==
  /\ GlIdle /\ pressed < MaxPressed
  /\ queuedMenu' = m
  /\ pressed' = pressed + 1
  /\ UNCHANGED <<mode, script, hostVars, canAccept, cmdStatus, lockScript, pc,
                 scriptSize, slot, termVars, key, board, snap, pictured>>

Frame ==
  /\ GlIdle
  /\ \/ /\ FrameDelays(snap)
        /\ snap' = FrameDelay(snap) /\ UNCHANGED pictured
     \/ /\ FrameClaims(snap)
        /\ snap' = FrameClaim(snap) /\ UNCHANGED pictured
     \/ /\ FrameFinishes(snap)
        /\ \E c \in {0, 1} : snap' = FrameFinish(snap, c)
        /\ pictured' = (pictured \/ snap.act = "Snapshot")
  /\ UNCHANGED <<mode, script, hostVars, canAccept, cmdStatus, lockScript, pc,
                 scriptSize, slot, termVars, slotVars, board>>

\* ScriptHost::Draw tests m_iLine against m_scriptGL, then loads it again for at(), which
\* throws when the AVR thread has ended the file's last line in between.
DrawTest ==
  /\ GlIdle /\ HasTerminal
  /\ iLine < scriptGL
  /\ gpc' = "draw"
  /\ UNCHANGED <<mode, script, hostVars, canAccept, cmdStatus, lockScript, pc,
                 scriptSize, slot, tpc, typing, scriptGL, slotVars,
                 board, snap, pictured>>

DrawLine ==
  /\ gpc = "draw"
  /\ gpc' = IF iLine < scriptGL THEN "idle" ELSE "thrown"
  /\ UNCHANGED <<mode, script, hostVars, canAccept, cmdStatus, lockScript, pc,
                 scriptSize, slot, tpc, typing, scriptGL, slotVars,
                 board, snap, pictured>>

GlStep == Frame \/ DrawTest \/ DrawLine

Next ==
  \/ AvrStep
  \/ TermStep
  \/ GlStep
  \/ \E l \in TypedLines : Return(l)
  \/ \E k \in Keys : Press(k)
  \/ \E m \in MenuItems : Select(m)

Spec == Init /\ [][Next]_vars

(***************************************************************************)
(* The operating system runs every thread.  Nothing makes the user type,   *)
(* press or select, and nothing makes GLUT draw a frame.                   *)
(***************************************************************************)
Fairness == WF_vars(AvrStep) /\ WF_vars(TermStep) /\ WF_vars(DrawLine)
FairSpec == Spec /\ Fairness

-----------------------------------------------------------------------------
Outcome == {"ok", "error", "timeout", "quit", "syntax"}
LogEntry == [line : Nat, cmd : Line, res : Outcome, waits : Nat,
             budget : -1..MaxTimeout, pictured : BOOLEAN]
KeyNames == Keys \cup {"z", "q", "r", "S"}

\* Every variable has its type; the AVR thread never holds a line number or a
\* size that the script does not have (a .at() out of range ends the program).
TypeOK ==
  /\ mode \in Modes
  /\ script \in Seq(ScriptLines \cup TypedLines)
  /\ iLine \in Nat /\ iLine <= Len(script)
  /\ state \in {"Finished", "Idle", "Running", "Timeout", "Error"}
  /\ lineState \in [iLine : Nat, isValid : BOOLEAN, line : Line]
  /\ timeoutCycles \in -1..MaxTimeout /\ timeoutCount \in Nat
  /\ quitOnTimeout \in BOOLEAN /\ execHold \in BOOLEAN /\ canAccept \in BOOLEAN
  /\ cmdStatus \in {"TermIdle", "TermSuccess", "TermFailed", "TermWaiting",
                    "TermTimedOut", "TermSyntax"}
  /\ lockScript \in {None, "avr", "term"}
  /\ pc \in {"loop", "menu", "menuTake", "key", "keyTake", "script", "read",
             "exec", "board", "done"}
  /\ tpc \in {"idle", "lock", "push", "accept"}
  /\ gpc \in {"idle", "draw", "thrown"}
  /\ scriptSize \in Nat /\ scriptSize <= Len(script)
  /\ scriptGL \in Nat /\ scriptGL <= Len(script)
  /\ slot \in MenuItems \cup KeyNames \cup {None}
  /\ pc = "menuTake" => slot \in MenuItems
  /\ pc = "keyTake" => slot \in KeyNames
  /\ pc = "exec" => iLine < scriptSize
  /\ typing \in TypedLines \cup {NoLine}
  /\ tpc \in {"lock", "push"} => typing \in TypedLines
  /\ key \in KeyNames \cup {None} /\ queuedMenu \in MenuItems \cup {None}
  /\ board \in BoardState /\ snap \in SnapState
  /\ pressed \in Nat /\ waits \in Nat /\ pictured \in BOOLEAN
  /\ log \in Seq(LogEntry)

\* The lines the AVR thread resolved, in order: none twice, and none passed
\* over except by a line that ends the script (ScriptHost.cpp:669-800).
Ends == {"error", "quit", "syntax"}
LinesInOrder ==
  /\ \A i \in 1..Len(log) :
       LET before == IF i = 1 THEN -1 ELSE log[i - 1].line
       IN  IF i > 1 /\ log[i - 1].res \in Ends
           THEN log[i].line > before ELSE log[i].line = before + 1
  /\ log # <<>> /\ log[Len(log)].res \notin Ends
       => iLine = log[Len(log)].line + 1
  /\ log = <<>> => iLine = 0

\* What was executed for a line is that line: the cached parse is never one
\* of an earlier line (ParseLine leaves parts of the old state behind).
RightLineExecuted ==
  \A i \in 1..Len(log) :
    log[i].res # "syntax" => log[i].cmd = script[log[i].line + 1]

\* A line the host times out was told to wait exactly as often as the timeout
\* in force allows: no line inherits the count of another.
FullTimeout ==
  \A i \in 1..Len(log) :
    /\ log[i].res \in {"timeout", "quit"} /\ log[i].cmd.act \notin SnapActions
    => log[i].waits = IF log[i].budget >= 0 THEN log[i].budget ELSE 0

\* The exit code of a script run, State::Finished being 0: it is 0 only when
\* every line of the file was resolved, and none by an error or by the
\* timeout that quits (main() returns ScriptHost::GetState()).
ExitCodeHonest ==
  pc = "done" /\ HasScript /\ Len(script) = scriptGL /\ state = "Finished"
    => Len(log) = scriptGL /\ \A i \in 1..Len(log) : log[i].res \notin Ends

\* In the window's terminal, once everything typed was resolved the status
\* shown is the one of the last line, whichever thread wrote it last.
StatusOf(res) == CASE res = "ok" -> "TermSuccess" [] res = "error" -> "TermFailed"
                   [] res = "timeout" -> "TermTimedOut" [] res = "syntax" -> "TermSyntax"
                   [] OTHER -> cmdStatus
StatusIsOfLastLine ==
  tpc = "idle" /\ iLine = Len(script) /\ log # <<>>
    => cmdStatus = StatusOf(log[Len(log)].res)

\* The AVR thread never reads the script while another thread appends to it:
\* "String mutex... if interactive, for terminal->host" (ScriptHost.cpp:68).
NoRace == ~(pc = "read" /\ tpc = "push")

\* The same where the window's terminal is enabled, the mode the lock is for.
ScriptExclusive == HasTerminal => NoRace

\* "Waits the specified number of milliseconds" (Board.cpp:60): a WaitMs that
\* finishes has been told to wait once for each turn it names, whatever the
\* lines before it did.
WaitMsExact ==
  \A i \in 1..Len(log) :
    log[i].cmd.act = "WaitMs" /\ log[i].res = "ok" => log[i].waits = log[i].cmd.arg

\* "Takes a snap of the current GL rendering" (GLHelper.cpp:51): a Snapshot
\* that finishes was taken after its line began.
SnapshotFresh ==
  \A i \in 1..Len(log) :
    log[i].cmd.act = "Snapshot" /\ log[i].res = "ok" => log[i].pictured

\* "Pauses primary board execution until finished" (GLHelper.cpp:249): a script
\* without a Pause line leaves no board paused when all its lines are done.
HoldReleased == state = "Finished" => ~board.paused

\* Every line is resolved, or the board stops: no client can hold the script
\* for ever, paused or not, whatever timeout is set.  Only a frame that drew
\* the file's last line as it ended may have stopped the program before.
EveryLineResolved ==
  iLine < Len(script) ~> (iLine >= Len(script) \/ pc = "done" \/ ~Alive)
=============================================================================
