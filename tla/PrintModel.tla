---------------------------- MODULE PrintModel -----------------------------
(***************************************************************************)
(* The print that the 3D view draws (utility/GLPrint.cpp) and its export   *)
(* to a file (MK3SGL.cpp).  The AVR thread builds the print in OnEStep,    *)
(* under the lock of the print only where the vertices change; the GL      *)
(* thread draws it under the lock, clears it under the lock when it was    *)
(* asked to, and exports it without the lock.  The export is asked for and *)
(* its result collected by the AVR thread, for the script.                 *)
(*                                                                         *)
(* The first part is the print: a step of the extruder is cut where the    *)
(* lock is taken.  Where the head is does not matter to it: each step may  *)
(* extrude or not, turn or not.  The second part is the handshake of the   *)
(* export.  They share nothing but the vectors of the triangles.           *)
(***************************************************************************)
EXTENDS Integers, Sequences

CONSTANTS
  PrintTubes,      \* m_iVisType is not LINE: extrusions become triangles
  PrintMaxVerts,   \* bound: the vertices of a print
  PrintMaxClears   \* bound: the requests to clear it

ASSUME PrintAssumption ==
  PrintTubes \in BOOLEAN /\ PrintMaxVerts \in Nat /\ PrintMaxClears \in Nat

VARIABLES
  printPc,         \* where the AVR thread is in OnEStep; "dead" once it used an empty vector
  printFirst,      \* m_bFirst
  printExtruding,  \* m_bExtruding
  printVerts,      \* the vertices of m_fvDraw, and the normals of m_fvNorms
  printSegs,       \* m_ivStart and, where it is there already, m_ivCount
  printPath,       \* the length of m_vPath
  printAt,         \* it of AddSegment
  printTStart,     \* iTStart of AddSegment
  printTris,       \* the strips in m_fvTri and its like, each one unit long
  printStrips,     \* m_ivTStart and m_ivTCount
  printClear,      \* m_bClearPrints
  printClearing,   \* the GL thread has cleared, and m_bClearPrints is still set
  printTorn,       \* history: the last Clear fell into a step
  printClears      \* bound

printLines == <<printVerts, printSegs>>
printStripVars == <<printTris, printStrips>>
printStep == <<printPath, printAt, printTStart>>
printGl == <<printClear, printClearing, printTorn, printClears>>
printVars == <<printPc, printFirst, printExtruding, printLines, printStep, printStripVars, printGl>>

PrintInit ==
  /\ printPc = "idle" /\ printFirst = TRUE /\ printExtruding = FALSE
  /\ printVerts = 0 /\ printSegs = <<>> /\ printPath = 0 /\ printAt = 0 /\ printTStart = 0
  /\ printTris = 0 /\ printStrips = <<>>
  /\ printClear = FALSE /\ printClearing = FALSE /\ printTorn = FALSE /\ printClears = 0

Open == 0       \* the count of a segment that has none yet

\* A step begins.  The first one makes its place the end of the print so far, under the lock.
PrintBegin ==
  /\ printPc = "idle"
  /\ printFirst' = FALSE /\ printPc' = (IF printFirst THEN "first" ELSE "step")
  /\ UNCHANGED <<printExtruding, printLines, printStep, printStripVars, printGl>>

\* A step that stays where the print ends is ignored, as the first one is; so is the end of the
\* print, but for its place, when nothing is extruded before and after, or the line is straight.
PrintIgnore ==
  /\ printPc \in {"first", "step"} /\ printPc' = "idle"
  /\ UNCHANGED <<printFirst, printExtruding, printLines, printStep, printStripVars, printGl>>
\* bExtruding and m_bExtruding differ: the extrusion starts.  Its place goes into an empty path.
PrintStart ==
  /\ printPc = "step" /\ ~printExtruding
  /\ printPath' = 0 /\ printPc' = "start"
  /\ UNCHANGED <<printFirst, printExtruding, printLines, printAt, printTStart, printStripVars, printGl>>
\* (A definition named Mut... is the one after it with a plausible mistake in it.)
MutPrintStarted ==
  /\ printPc = "start" /\ printVerts < PrintMaxVerts
  /\ printSegs' = Append(printSegs, [start |-> printVerts + 1, count |-> Open])
  /\ printVerts' = printVerts + 1 /\ printPc' = "started"
  /\ UNCHANGED <<printFirst, printExtruding, printStep, printStripVars, printGl>>
PrintStarted ==     \* under the lock
  /\ printPc = "start" /\ printVerts < PrintMaxVerts
  /\ printSegs' = Append(printSegs, [start |-> printVerts, count |-> Open])
  /\ printVerts' = printVerts + 1 /\ printPc' = "started"
  /\ UNCHANGED <<printFirst, printExtruding, printStep, printStripVars, printGl>>
PrintExtrudes ==
  /\ printPc = "started"
  /\ printPath' = printPath + 1 /\ printExtruding' = TRUE /\ printPc' = "idle"
  /\ UNCHANGED <<printFirst, printLines, printAt, printTStart, printStripVars, printGl>>

\* The extrusion turns: the last normal is adjusted, and a vertex is added under the lock.
PrintTurn ==
  /\ printPc = "step" /\ printExtruding
  /\ IF printVerts = 0 THEN printPc' = "dead" /\ UNCHANGED printPath
     ELSE printPc' = "vertex" /\ printPath' = printPath + 1
  /\ UNCHANGED <<printFirst, printExtruding, printLines, printAt, printTStart, printStripVars, printGl>>
PrintVertex ==
  /\ printPc = "vertex" /\ printVerts < PrintMaxVerts
  /\ printVerts' = printVerts + 1 /\ printPc' = "idle"
  /\ UNCHANGED <<printFirst, printExtruding, printSegs, printStep, printStripVars, printGl>>

\* The extrusion ends: its vertices are counted under the lock; it becomes triangles.
PrintEnd ==
  /\ printPc = "step" /\ printExtruding
  /\ printPath' = printPath + 1 /\ printPc' = "end"
  /\ UNCHANGED <<printFirst, printExtruding, printLines, printAt, printTStart, printStripVars, printGl>>
PrintCount ==
  /\ printPc = "end"
  /\ IF printSegs = <<>> THEN printPc' = "dead" /\ UNCHANGED <<printSegs, printAt>>
     ELSE /\ printSegs' = [printSegs EXCEPT ![Len(printSegs)].count =
                              printVerts - printSegs[Len(printSegs)].start]
          /\ printAt' = 1 /\ printPc' = "segment"
  /\ UNCHANGED <<printFirst, printExtruding, printVerts, printPath, printTStart, printStripVars, printGl>>

\* AddSegment: each point of the path but the last is skipped or becomes a strip, whose start
\* is taken before the lock and its count under it.  A path that was emptied has no end before
\* its last point.
PrintSegmentsDone ==
  /\ printPc = "segment" /\ (~PrintTubes \/ printAt = printPath)
  /\ printExtruding' = FALSE /\ printPc' = "idle" /\ printAt' = 0
  /\ UNCHANGED <<printFirst, printLines, printPath, printTStart, printStripVars, printGl>>
PrintSegment ==
  /\ printPc = "segment" /\ PrintTubes /\ printAt # printPath
  /\ IF printPath < printAt THEN printPc' = "dead" /\ UNCHANGED <<printAt, printTStart>>
     ELSE \/ printAt' = printAt + 1 /\ UNCHANGED <<printPc, printTStart>>
          \/ printTStart' = printTris /\ printPc' = "strip" /\ UNCHANGED printAt
  /\ UNCHANGED <<printFirst, printExtruding, printLines, printPath, printStripVars, printGl>>
PrintStrip ==
  /\ printPc = "strip"
  /\ printTris' = printTris + 1
  /\ printStrips' = Append(printStrips, [start |-> printTStart, count |-> printTris' - printTStart])
  /\ printAt' = printAt + 1 /\ printTStart' = 0 /\ printPc' = "segment"
  /\ UNCHANGED <<printFirst, printExtruding, printLines, printPath, printGl>>

\* ClearPrint of a key, the script or another process; then Clear, in the next Draw, with the
\* request taken back after it.  A first step that is cleared is an ordinary one.
PrintAskClear ==
  /\ printClears < PrintMaxClears /\ printClears' = printClears + 1
  /\ printClear' = TRUE
  /\ UNCHANGED <<printPc, printFirst, printExtruding, printLines, printStep, printStripVars,
                 printClearing, printTorn>>
PrintDoClear ==
  /\ printClear /\ ~printClearing /\ printClearing' = TRUE
  /\ printVerts' = 0 /\ printSegs' = <<>> /\ printPath' = 0 /\ printTris' = 0 /\ printStrips' = <<>>
  /\ printExtruding' = FALSE /\ printFirst' = TRUE
  /\ printPc' = (IF printPc = "first" THEN "step" ELSE printPc)
  /\ printTorn' = (printPc # "idle")
  /\ UNCHANGED <<printAt, printTStart, printClear, printClears>>
PrintCleared ==
  /\ printClearing /\ printClearing' = FALSE /\ printClear' = FALSE
  /\ UNCHANGED <<printPc, printFirst, printExtruding, printLines, printStep, printStripVars,
                 printTorn, printClears>>

PrintNext ==
  \/ PrintBegin \/ PrintIgnore \/ PrintStart \/ PrintStarted \/ PrintExtrudes
  \/ PrintTurn \/ PrintVertex \/ PrintEnd \/ PrintCount
  \/ PrintSegmentsDone \/ PrintSegment \/ PrintStrip
  \/ PrintAskClear \/ PrintDoClear \/ PrintCleared

PrintSpec == PrintInit /\ [][PrintNext]_printVars

PrintTypeOK ==
  /\ printPc \in {"idle", "first", "step", "start", "started", "vertex", "end", "segment", "strip", "dead"}
  /\ {printFirst, printExtruding, printClear, printClearing, printTorn} \subseteq BOOLEAN
  /\ {printVerts, printPath, printAt, printTStart, printTris} \subseteq Nat
  /\ printSegs \in Seq([start : Nat, count : Nat])
  /\ printStrips \in Seq([start : Nat, count : Int])

-----------------------------------------------------------------------------
(* The export *)

VARIABLES
  plyLine,        \* the line of the script: "plain" and "file" export, "mouse" queues an action
                  \* of the mouse or the camera, "other" does neither
  plyQueued,      \* m_iQueuedAct: none, an action that the GL thread is to do, or done (-2)
  plyLeft,        \* history: what is queued is not of the line that now waits
  plyLook,        \* ProcessAction has twice seen no result, and will look at m_bExportPLY
  plyHeld,        \* m_bIsExecHold, and the board is paused
  plyBusy,        \* m_bExportPLY
  plyFN,          \* whose name m_pExportFN points at: none, the line's, or an earlier one's
  plyResult,      \* m_iExportPLYResult
  plyGl,          \* where the GL thread is in the export
  plyStory        \* history: what was written since the line began (wrote), the export line
                  \* before it (after), whether the print grew while it was written (torn), and
                  \* the last export line that finished, with its wrote and after, and whether
                  \* an action in the queue finished it (done);
                  \* none of it once there was an export that no line waited for (stray)

plyVars == <<plyLine, plyQueued, plyLeft, plyLook, plyHeld, plyBusy, plyFN, plyResult, plyGl, plyStory>>

Exports == {"plain", "file"}
Untold == [stray |-> FALSE, torn |-> FALSE, wrote |-> {}, after |-> "other",
           done |-> [kind |-> "other", after |-> "other", wrote |-> {}, queue |-> FALSE]]
Tell(story) == plyStory' = IF plyStory.stray THEN plyStory ELSE story
Stray == plyStory' = [Untold EXCEPT !.stray = TRUE]

PlyInit ==
  /\ plyLine = "other" /\ plyQueued = "none" /\ plyLeft = FALSE
  /\ plyLook = FALSE /\ plyHeld = FALSE /\ plyBusy = FALSE
  /\ plyFN = "none" /\ plyResult = 0 /\ plyGl = "idle" /\ plyStory = Untold

\* The line, or one before it, has an export under way or the pointer set.
PlyUnderWay == plyBusy \/ plyGl # "idle" \/ plyResult # 0 \/ plyFN = "line"
PlyQueue == <<plyQueued, plyLeft>>

\* ParseLine of the next line takes the place of the arguments of the last one.
PlyParse(kind) ==
  /\ plyLine = "other" /\ plyLine' = kind
  /\ plyFN' = (IF plyFN = "line" THEN "earlier" ELSE plyFN)
  /\ Tell([plyStory EXCEPT !.wrote = {}])
  /\ UNCHANGED <<PlyQueue, plyLook, plyHeld, plyBusy, plyResult, plyGl>>

\* ProcessAction, on each turn of the board.  As long as an action is queued every line waits;
\* once it is done, the line that calls next finishes, whatever it asked for.
PlyQueueDone ==
  /\ plyLine # "other" /\ ~plyLook /\ plyQueued = "done"
  /\ plyQueued' = "none" /\ plyLeft' = FALSE
  /\ plyLine' = "other" /\ plyHeld' = FALSE
  /\ IF plyLine \notin Exports THEN UNCHANGED plyStory
     ELSE IF PlyUnderWay THEN Stray
     ELSE Tell([plyStory EXCEPT !.done = [kind |-> plyLine, after |-> plyStory.after,
                                          wrote |-> plyStory.wrote, queue |-> TRUE]])
  /\ UNCHANGED <<plyLook, plyBusy, plyFN, plyResult, plyGl>>
\* A line for the mouse or the camera queues its action.
PlyMouse ==
  /\ plyLine = "mouse" /\ ~plyLook /\ plyQueued = "none"
  /\ plyQueued' = "queued" /\ plyLeft' = FALSE
  /\ UNCHANGED <<plyLine, plyLook, plyHeld, plyBusy, plyFN, plyResult, plyGl, plyStory>>
\* A result is collected, and the line is over: one that finishes resumes the board, a failure is
\* a timeout and does not.
PlyCall ==
  /\ plyLine \in Exports /\ ~plyLook /\ plyQueued = "none"
  /\ plyFN' = (IF plyLine = "file" THEN "line" ELSE plyFN)
  /\ IF plyResult > 0
     THEN /\ plyResult' = 0 /\ plyLine' = "other" /\ plyHeld' = (plyHeld /\ plyResult = 1)
          /\ Tell([plyStory EXCEPT !.after = plyLine,
                     !.done = [kind |-> plyLine, after |-> plyStory.after, wrote |-> plyStory.wrote,
                               queue |-> FALSE]])
          /\ UNCHANGED plyLook
     ELSE plyLook' = TRUE /\ UNCHANGED <<plyResult, plyLine, plyHeld, plyStory>>
  /\ UNCHANGED <<PlyQueue, plyBusy, plyGl>>
\* No result: an export is asked for unless one is on its way, and the board is held.  The GL
\* thread may have come to its end between the looks at the result and at m_bExportPLY.
MutPlyAsk ==
  /\ plyLook /\ plyLook' = FALSE
  /\ plyBusy' = TRUE
  /\ IF ~plyBusy /\ plyResult # 0 THEN Stray ELSE UNCHANGED plyStory
  /\ UNCHANGED <<plyLine, PlyQueue, plyHeld, plyFN, plyResult, plyGl>>
PlyAsk ==
  /\ plyLook /\ plyLook' = FALSE
  /\ plyBusy' = TRUE /\ plyHeld' = TRUE
  /\ IF ~plyBusy /\ plyResult # 0 THEN Stray ELSE UNCHANGED plyStory
  /\ UNCHANGED <<plyLine, PlyQueue, plyFN, plyResult, plyGl>>
\* The line waited too long, and leaves what it asked for behind.
PlyGiveUp ==
  /\ plyLine # "other" /\ ~plyLook /\ (plyHeld \/ plyQueued # "none")
  /\ plyLine' = "other" /\ plyLeft' = (plyQueued # "none")
  /\ IF PlyUnderWay THEN Stray ELSE UNCHANGED plyStory
  /\ UNCHANGED <<plyQueued, plyLook, plyHeld, plyBusy, plyFN, plyResult, plyGl>>
\* Another line finishes, and resumes the board.  One for the 3D view only takes note of an
\* action that is done.
PlyOther ==
  /\ plyLine = "other" /\ plyHeld' = FALSE
  /\ \/ UNCHANGED PlyQueue
     \/ plyQueued = "done" /\ plyQueued' = "none" /\ plyLeft' = FALSE
  /\ UNCHANGED <<plyLine, plyLook, plyBusy, plyFN, plyResult, plyGl, plyStory>>
\* The menu calls ProcessAction once, and neither waits nor holds: it takes note of an action
\* that is done, queues one, or exports.
PlyMenu ==
  /\ ~plyLook
  /\ \/ /\ plyQueued = "done" /\ plyQueued' = "none" /\ plyLeft' = FALSE
        /\ UNCHANGED <<plyBusy, plyResult, plyStory>>
     \/ /\ plyQueued = "none" /\ plyQueued' = "queued" /\ plyLeft' = TRUE
        /\ UNCHANGED <<plyBusy, plyResult, plyStory>>
     \/ /\ plyQueued = "none" /\ Stray
        /\ IF plyResult > 0 THEN plyResult' = 0 /\ UNCHANGED plyBusy
           ELSE plyBusy' = TRUE /\ UNCHANGED plyResult
        /\ UNCHANGED PlyQueue
  /\ UNCHANGED <<plyLine, plyLook, plyHeld, plyFN, plyGl>>
\* The board runs: the print grows, under a lock that the export does not take.
PlyPrint ==
  /\ ~plyHeld /\ ~plyLook
  /\ Tell([plyStory EXCEPT !.torn = @ \/ plyGl \in {"plain", "line", "earlier"}])
  /\ UNCHANGED <<plyLine, PlyQueue, plyLook, plyHeld, plyBusy, plyFN, plyResult, plyGl>>

\* Draw: the vectors are written to the file of the pointer, or to Export.ply; then the pointer
\* is reset, the result set, and the request taken back.
PlyExport ==
  /\ plyBusy /\ plyGl = "idle" /\ plyGl' = (IF plyFN = "none" THEN "plain" ELSE plyFN)
  /\ UNCHANGED <<plyLine, PlyQueue, plyLook, plyHeld, plyBusy, plyFN, plyResult, plyStory>>
PlyWritten ==
  /\ plyGl \in {"plain", "line", "earlier"} /\ plyGl' = "written"
  /\ plyFN' = (IF plyGl = "plain" THEN plyFN ELSE "none")
  /\ Tell([plyStory EXCEPT !.wrote = @ \cup {plyGl}])
  /\ UNCHANGED <<plyLine, PlyQueue, plyLook, plyHeld, plyBusy, plyResult>>
PlySetResult ==
  /\ plyGl = "written" /\ plyGl' = "result"
  /\ plyResult' \in {1, 2}
  /\ UNCHANGED <<plyLine, PlyQueue, plyLook, plyHeld, plyBusy, plyFN, plyStory>>
PlyEnd ==
  /\ plyGl = "result" /\ plyGl' = "idle" /\ plyBusy' = FALSE
  /\ UNCHANGED <<plyLine, PlyQueue, plyLook, plyHeld, plyFN, plyResult, plyStory>>
\* And an action in the queue is done.
PlyView ==
  /\ plyGl = "idle" /\ plyQueued = "queued" /\ plyQueued' = "done"
  /\ UNCHANGED <<plyLine, plyLeft, plyLook, plyHeld, plyBusy, plyFN, plyResult, plyGl, plyStory>>

PlyNext ==
  \/ \E kind \in Exports \cup {"mouse"} : PlyParse(kind)
  \/ PlyQueueDone \/ PlyMouse \/ PlyView \/ PlyCall \/ PlyAsk \/ PlyGiveUp \/ PlyOther \/ PlyMenu \/ PlyPrint
  \/ PlyExport \/ PlyWritten \/ PlySetResult \/ PlyEnd

PlySpec == PlyInit /\ [][PlyNext]_plyVars

PlyTypeOK ==
  /\ plyLine \in Exports \cup {"other", "mouse"} /\ plyQueued \in {"none", "queued", "done"}
  /\ {plyStory.after, plyStory.done.kind, plyStory.done.after} \subseteq Exports \cup {"other"}
  /\ {plyLeft, plyLook, plyHeld, plyBusy, plyStory.stray, plyStory.torn, plyStory.done.queue} \subseteq BOOLEAN
  /\ plyFN \in {"none", "line", "earlier"} /\ plyResult \in 0..2
  /\ plyGl \in {"idle", "plain", "line", "earlier", "written", "result"}
  /\ {plyStory.wrote, plyStory.done.wrote} \subseteq SUBSET {"plain", "line", "earlier"}

-----------------------------------------------------------------------------
\* The parts follow each other without a gap, from 0 to the end.
Follow(parts, end) ==
  /\ \A i \in 1..Len(parts) : parts[i].start = IF i = 1 THEN 0
                                              ELSE parts[i - 1].start + parts[i - 1].count
  /\ parts # <<>> => parts[Len(parts)].start + parts[Len(parts)].count = end

\* Whenever the GL thread has the lock, the segments are the vertices in order, and the strips
\* are the triangles: what it draws is there, and is all there is.  Only the last segment may
\* have no count, while it is extruded.  A Clear between two steps, even in the middle of an
\* extrusion, does no harm, though the code advises against it; one that falls into a step
\* may leave m_bExtruding set over empty vectors, which the next steps then use, until the
\* next Clear.
PrintWhole ==
  LET last == Len(printSegs)
      open == last > 0 /\ printSegs[last].count = Open
      Counted == IF open THEN [printSegs EXCEPT ![last].count = printVerts - printSegs[last].start]
                         ELSE printSegs
  IN ~printTorn =>
       /\ printPc # "dead"
       /\ Follow(Counted, printVerts) /\ (printSegs = <<>> => printVerts = 0)
       /\ \A i \in 1..last : Counted[i].count > 0
       /\ open <=> printPc = "started" \/ (printExtruding /\ printPc \notin {"segment", "strip"})
       /\ Follow(printStrips, printTris) /\ (printStrips = <<>> => printTris = 0)

\* A line that finishes has written its own file once, while the print stood still - unless
\* an export was asked for that no line waited for: by the menu, by a line that was given up,
\* by one that an action in the queue finished while its export was under way, or by a line
\* that saw no result and then no export on its way, because it ended in between.
\* Then a line may be done with the result of another.  And a plain export after one to a file
\* goes to the pointer which the call that collected the result set again, and that now is to
\* the arguments of a line that has none.
\* A line that finds an action of the mouse or the camera done (MK3SGL.cpp:299) finishes with
\* no file at all.  An export finds one only if an earlier line was given up while it waited
\* for it, or the menu queued it.
PlyHonest ==
  /\ ~plyStory.stray =>
       /\ ~plyStory.torn
       /\ plyStory.done.queue => plyStory.done.wrote = {}
       /\ ~plyStory.done.queue /\ plyStory.done.kind = "file" => plyStory.done.wrote = {"line"}
       /\ ~plyStory.done.queue /\ plyStory.done.kind = "plain" =>
            plyStory.done.wrote = IF plyStory.done.after = "file" THEN {"earlier"} ELSE {"plain"}
  /\ plyLine \in Exports /\ plyQueued # "none" => plyLeft

\* What is drawn and exported is the print (PrintWhole, PlyHonest).
PrintHonest == PrintWhole /\ PlyHonest
=============================================================================
