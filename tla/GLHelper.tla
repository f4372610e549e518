------------------------------ MODULE GLHelper ------------------------------
(***************************************************************************)
(* The snapshot client (parts/components/GLHelper.cpp).  The AVR thread    *)
(* asks for a picture and polls for it; the GL thread takes it two frames  *)
(* later.  m_iState is the only hand-over between the two threads.         *)
(***************************************************************************)
EXTENDS Naturals

SnapStates == {"Idle", "Done", "Queued", "Queued2", "Busy"}

SnapState ==
  [st      : SnapStates,               \* m_iState
   act     : {"None", "Snapshot", "CheckPixel"},   \* m_iAct
   keySnap : BOOLEAN,                  \* m_bIsKeySnap
   color   : {0, 1}]                   \* m_color, as far as CheckPixel tells

SnapInit == [st |-> "Idle", act |-> "None", keySnap |-> FALSE, color |-> 0]

SnapActions == {"Snapshot", "CheckPixel"}

(***************************************************************************)
(* GLHelper::ProcessAction: Idle starts a request, Done collects the       *)
(* picture whoever asked for it, anything else is still in progress.       *)
(***************************************************************************)
SnapProcess(s, act, arg) ==
  CASE s.st = "Idle" ->
         [snap |-> [s EXCEPT !.st = "Queued", !.act = act], res |-> "HoldExec"]
    [] s.st = "Done" ->
         [snap |-> [s EXCEPT !.st = "Idle"],
          res  |-> IF act = "CheckPixel" /\ s.color # arg
                   THEN "Timeout" ELSE "Finished"]
    [] OTHER -> [snap |-> s, res |-> "HoldExec"]

\* GLHelper::OnKeyPress('S'): the LineStatus of the request is ignored.
SnapKeyPress(s, key) ==
  IF key = "S"
  THEN SnapProcess([s EXCEPT !.keySnap = TRUE], "Snapshot", 0).snap
  ELSE s

(***************************************************************************)
(* GLHelper::OnDraw, in the GL thread: a frame passes a queued request on, *)
(* the next one claims it and finishes it.  A finished snapshot that a key *)
(* asked for goes straight back to Idle: nobody will collect it.           *)
(***************************************************************************)
FrameDelays(s) == s.st = "Queued"
FrameDelay(s)  == [s EXCEPT !.st = "Queued2"]

FrameClaims(s) == s.st = "Queued2"
FrameClaim(s)  == [s EXCEPT !.st = "Busy"]

FrameFinishes(s) == s.st = "Busy"
FrameFinish(s, color) ==
  IF s.act = "CheckPixel"
  THEN [s EXCEPT !.st = "Done", !.color = color]
  ELSE [s EXCEPT !.st = IF s.keySnap THEN "Idle" ELSE "Done",
                 !.keySnap = FALSE]
=============================================================================
