------------------------- MODULE SerialLineMonitor -------------------------
(***************************************************************************)
(* The script client that waits for lines of the firmware's serial output  *)
(* and sends it G-code (parts/components/SerialLineMonitor.cpp), under the *)
(* script host: in every turn of the AVR thread the firmware may complete  *)
(* a line or raise XON or XOFF, and then the host polls the line of the    *)
(* script it is at, or gives it up when its time is over, or goes on to    *)
(* the next.  The host does not tell a client that it gave up.             *)
(*                                                                         *)
(* A line of output is known when its newline is in; a G-code is sent a    *)
(* character in each poll.                                                 *)
(***************************************************************************)
EXTENDS Naturals, Sequences

CONSTANTS
  MonLines,              \* the lines the firmware prints
  MonTexts,              \* the arguments of the script
  MonPartOf,             \* <<text, line>>: the line contains the text
  MonCodeLength,         \* characters of a G-code with its newline
  MonMaxRequests,        \* bound: lines of the script
  MonMaxLines            \* bound: lines of the firmware

MonNoText == "no text"

ASSUME SerialLineMonitorAssumption ==
  /\ MonNoText \notin MonTexts
  /\ MonPartOf \subseteq MonTexts \X MonLines
  /\ MonCodeLength \in Nat \ {0}
  /\ MonMaxRequests \in Nat /\ MonMaxLines \in Nat

MonWaits == {"WaitForLine", "WaitForContains", "NextLineMustBe"}
MonActions == MonWaits \cup {"SendGCode"}
MonTypes == {"None", "Full", "Contains", "MustBe"}
MonNoRequest == [id |-> "none"]
MonRequest == [id : MonActions, arg : MonTexts]

VARIABLES
  monType, monMatch, monMatched, monLineCt,     \* m_type, m_strMatch, m_bMatched, m_iLineCt
  monCode, monSent,      \* m_strGCode, and how far m_itGCode is in it
  monXOn,                \* m_bXOn
  monTurn,               \* who is next in this turn
  monRequest,            \* the line of the script that is polled
  monSeen,               \* history: the lines completed since its first poll
  monOut,                \* history: the characters sent for it, as <<code, position>>
  monEnded,              \* history: the last request that ended, and how
  monGivenUp,            \* history: texts of waits, and whether a G-code, given up
  monLines, monRequests  \* counters for the bounds

monClient == <<monType, monMatch, monMatched, monLineCt, monCode, monSent>>
monHistory == <<monSeen, monOut, monEnded, monGivenUp>>
monVars == <<monClient, monXOn, monTurn, monRequest, monHistory, monLines, monRequests>>

MonInit ==
  /\ monType = "None" /\ monMatch = MonNoText /\ monMatched = FALSE /\ monLineCt = 0
  /\ monCode = MonNoText /\ monSent = 0 /\ monXOn = TRUE
  /\ monTurn = "avr" /\ monRequest = MonNoRequest
  /\ monSeen = <<>> /\ monOut = <<>>
  /\ monEnded = [status |-> "none"]
  /\ monGivenUp = [texts |-> {}, code |-> FALSE]
  /\ monLines = 0 /\ monRequests = 0

MonMatches(line) ==
  IF monType = "Contains" THEN <<monMatch, line>> \in MonPartOf ELSE line = monMatch

-----------------------------------------------------------------------------
(***************************************************************************)
(* The firmware's part of a turn.  (A definition named Mut... is the one   *)
(* after it with a plausible mistake in it.)                               *)
(***************************************************************************)
MonAvr == monTurn = "avr" /\ monTurn' = "script"

\* OnByteIn with a newline, and OnNewLine.
MonNewLine(line) ==
  /\ MonAvr /\ monLines < MonMaxLines /\ monLines' = monLines + 1
  /\ IF monType = "None" THEN UNCHANGED <<monLineCt, monMatched>>
     ELSE monLineCt' = monLineCt + 1 /\ monMatched' = MonMatches(line)
  /\ monSeen' = IF monRequest = MonNoRequest THEN monSeen ELSE Append(monSeen, line)
  /\ UNCHANGED <<monType, monMatch, monCode, monSent, monXOn, monRequest, monOut, monEnded,
                 monGivenUp, monRequests>>

\* OnXOnIn, OnXOffIn, or nothing.
MonFlow ==
  /\ MonAvr /\ monXOn' \in BOOLEAN
  /\ UNCHANGED <<monClient, monRequest, monHistory, monLines, monRequests>>

-----------------------------------------------------------------------------
(***************************************************************************)
(* The script's part of a turn: ProcessAction for the current request.     *)
(***************************************************************************)
MonReset == monMatch' = MonNoText /\ monType' = "None" /\ monMatched' = FALSE

MonWaiting(r) == monRequest' = r /\ UNCHANGED monEnded
MonEnd(r, status) ==
  /\ monEnded' = [request |-> r, status |-> status, seen |-> monSeen', out |-> monOut',
                  owed |-> r.arg \in monGivenUp.texts
                             \/ (r.id = "SendGCode" /\ monGivenUp.code)]
  /\ monRequest' = MonNoRequest

\* A wait for this text is already on.
MonAgain(r, out) ==
  /\ monType # "None" /\ monMatch = r.arg
  /\ monOut' = out
  /\ UNCHANGED <<monLineCt, monCode, monSent>>
  /\ \/ /\ monLineCt > 0 /\ ~monMatched /\ r.id = "NextLineMustBe"
        /\ MonReset /\ MonEnd(r, "Timeout")
     \/ /\ ~monMatched /\ ~(monLineCt > 0 /\ r.id = "NextLineMustBe")
        /\ UNCHANGED <<monMatch, monType, monMatched>> /\ MonWaiting(r)
     \/ monMatched /\ MonReset /\ MonEnd(r, "Finished")

MutMonBegin(r, out) ==
  /\ monType = "None" \/ monMatch # r.arg
  /\ r.id \in MonWaits
  /\ monMatch' = r.arg /\ UNCHANGED monMatched
  /\ monType' = CASE r.id = "WaitForLine" -> "Full" [] r.id = "WaitForContains" -> "Contains"
                  [] OTHER -> "MustBe"
  /\ monLineCt' = IF r.id = "NextLineMustBe" THEN 0 ELSE monLineCt
  /\ monOut' = out
  /\ UNCHANGED <<monCode, monSent>> /\ MonWaiting(r)

MonBegin(r, out) ==
  /\ monType = "None" \/ monMatch # r.arg
  /\ r.id \in MonWaits
  /\ monMatch' = r.arg /\ monMatched' = FALSE
  /\ monType' = CASE r.id = "WaitForLine" -> "Full" [] r.id = "WaitForContains" -> "Contains"
                  [] OTHER -> "MustBe"
  /\ monLineCt' = IF r.id = "NextLineMustBe" THEN 0 ELSE monLineCt
  /\ monOut' = out
  /\ UNCHANGED <<monCode, monSent>> /\ MonWaiting(r)

\* SendGCode and SendChar: a code that was not sent to its end goes first.
MonSend(r, out) ==
  LET code == IF monCode = MonNoText THEN r.arg ELSE monCode
      sent == IF monCode = MonNoText THEN 0 ELSE monSent
  IN /\ monType = "None" \/ monMatch # r.arg
     /\ r.id = "SendGCode"
     /\ UNCHANGED <<monType, monMatch, monMatched, monLineCt>>
     /\ IF ~monXOn
        THEN monCode' = code /\ monSent' = sent /\ monOut' = out /\ MonWaiting(r)
        ELSE /\ monOut' = Append(out, <<code, sent>>)
             /\ IF sent + 1 < MonCodeLength
                THEN monCode' = code /\ monSent' = sent + 1 /\ MonWaiting(r)
                ELSE monCode' = MonNoText /\ monSent' = 0 /\ MonEnd(r, "Finished")

MonScript == monTurn = "script" /\ monTurn' = "avr" /\ UNCHANGED <<monXOn, monLines>>

MonProcess(r, seen, out) ==
  /\ monSeen' = seen
  /\ MonAgain(r, out) \/ MonBegin(r, out) \/ MonSend(r, out)
  /\ UNCHANGED monGivenUp

\* The next line of the script, and its first poll.
MonFirstPoll(r) ==
  /\ MonScript /\ monRequest = MonNoRequest /\ monRequests < MonMaxRequests
  /\ monRequests' = monRequests + 1
  /\ MonProcess(r, <<>>, <<>>)

MonPoll ==
  /\ MonScript /\ monRequest # MonNoRequest
  /\ MonProcess(monRequest, monSeen, monOut)
  /\ UNCHANGED monRequests

\* The host's timeout.
MonGiveUp ==
  /\ MonScript /\ monRequest # MonNoRequest /\ monRequest' = MonNoRequest
  /\ monGivenUp' = IF monRequest.id = "SendGCode" THEN [monGivenUp EXCEPT !.code = TRUE]
                   ELSE [monGivenUp EXCEPT !.texts = @ \cup {monRequest.arg}]
  /\ UNCHANGED <<monClient, monSeen, monOut, monEnded, monRequests>>

\* The script is elsewhere, or ended.
MonOther ==
  /\ MonScript /\ monRequest = MonNoRequest
  /\ UNCHANGED <<monClient, monRequest, monHistory, monRequests>>

MonNext ==
  \/ \E line \in MonLines : MonNewLine(line)
  \/ MonFlow \/ MonPoll \/ MonGiveUp \/ MonOther
  \/ \E r \in MonRequest : MonFirstPoll(r)

MonSpec == MonInit /\ [][MonNext]_monVars
-----------------------------------------------------------------------------
(***************************************************************************)
(* Properties.                                                             *)
(***************************************************************************)
MonTypeOK ==
  /\ monType \in MonTypes /\ monMatch \in MonTexts \cup {MonNoText}
  /\ monMatched \in BOOLEAN /\ monLineCt \in 0..MonMaxLines
  /\ monCode \in MonTexts \cup {MonNoText} /\ monSent \in 0..MonCodeLength - 1
  /\ monXOn \in BOOLEAN /\ monTurn \in {"avr", "script"}
  /\ monRequest \in MonRequest \cup {MonNoRequest}
  /\ monSeen \in Seq(MonLines) /\ Len(monSeen) <= MonMaxLines
  /\ monGivenUp \in [texts : SUBSET MonTexts, code : BOOLEAN]
  /\ monLines \in 0..MonMaxLines /\ monRequests \in 0..MonMaxRequests

\* A wait is answered with what happened since it began: it finishes at the line it
\* asked for, NextLineMustBe judges the first line and no other, and a G-code is
\* reported sent when all of it was, in order - unless an earlier request for the
\* same text, or an earlier G-code, was given up and is still in the client.
MonHonest ==
  LET e == monEnded
      last == e.seen[Len(e.seen)]
  IN monEnded.status # "none" /\ ~e.owed =>
       CASE e.request.id = "SendGCode" ->
              e.out = [k \in 1..MonCodeLength |-> <<e.request.arg, k - 1>>]
         [] e.request.id = "WaitForLine" -> e.seen # <<>> /\ last = e.request.arg
         [] e.request.id = "WaitForContains" ->
              e.seen # <<>> /\ <<e.request.arg, last>> \in MonPartOf
         [] OTHER -> /\ e.seen # <<>>
                     /\ (e.status = "Finished") = (e.seen[1] = e.request.arg)
=============================================================================
