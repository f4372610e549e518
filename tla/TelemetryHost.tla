--------------------------- MODULE TelemetryHost ---------------------------
(***************************************************************************)
(* The script client that waits for the value of a signal (ProcessAction   *)
(* in parts/TelemetryHost.cpp), under the script host: it polls the line   *)
(* of the script it is at, gives it up when its time is over, or goes on   *)
(* to the next; signals change in between.  The host does not tell the     *)
(* client that it gave up.  The trace file is left out.                    *)
(***************************************************************************)
EXTENDS Naturals

CONSTANTS
  TelSignals,            \* m_mIRQs
  TelUnknown,            \* a name that is not in it
  TelMax,                \* values of signals, and of arguments, are 0..TelMax
  TelMaxRequests         \* bound: lines of the script

ASSUME TelemetryHostAssumption ==
  /\ TelUnknown \notin TelSignals /\ TelMax \in Nat /\ TelMaxRequests \in Nat

TelValues == 0..TelMax
TelActions == {"WaitFor", "WaitForGT", "WaitForLT", "IsEqual"}
TelNoSignal == "no signal"
TelNoRequest == [id |-> "none"]
TelRequest == [id : TelActions, name : TelSignals \cup {TelUnknown}, arg : TelValues]

VARIABLES
  telValue,              \* the value of each signal
  telCurrent, telMatch,  \* m_pCurrentIRQ, m_uiMatchVal
  telRequest,            \* the line of the script that is polled
  telEnded,              \* history: the last line that ended, and how
  telOwed,               \* history: the last line was given up, or was not equal
  telRequests            \* counter for the bound

telVars == <<telValue, telCurrent, telMatch, telRequest, telEnded, telOwed, telRequests>>

TelInit ==
  /\ telValue = [s \in TelSignals |-> 0]
  /\ telCurrent = TelNoSignal /\ telMatch = 0
  /\ telRequest = TelNoRequest /\ telEnded = [status |-> "none"]
  /\ telOwed = FALSE /\ telRequests = 0

TelHolds(id, value, arg) ==
  CASE id = "WaitForLT" -> value < arg
    [] id = "WaitForGT" -> value > arg
    [] OTHER -> value = arg

TelSignalChanges ==
  /\ telValue' \in [TelSignals -> TelValues]
  /\ UNCHANGED <<telCurrent, telMatch, telRequest, telEnded, telOwed, telRequests>>

TelEnd(r, status) ==
  /\ telEnded' = [request |-> r, status |-> status, owed |-> telOwed,
                  values |-> telValue]
  /\ telRequest' = TelNoRequest

\* A name is only looked at when no wait is on.
TelUnknownName(r) ==
  /\ telCurrent = TelNoSignal /\ r.name = TelUnknown
  /\ TelEnd(r, "Error")
  /\ UNCHANGED <<telCurrent, telMatch, telOwed>>

\* (A definition named Mut... is the one after it with a plausible mistake in it.)
MutTelCompare(r) ==
  LET signal == IF telCurrent = TelNoSignal THEN r.name ELSE telCurrent
      match == IF telCurrent = TelNoSignal THEN r.arg ELSE telMatch
  IN /\ telCurrent # TelNoSignal \/ r.name # TelUnknown
     /\ telMatch' = match
     /\ telCurrent' = signal
     /\ IF TelHolds(r.id, telValue[signal], match)
        THEN TelEnd(r, "Finished") /\ telOwed' = FALSE
        ELSE IF r.id = "IsEqual" THEN TelEnd(r, "Timeout") /\ telOwed' = TRUE
        ELSE telRequest' = r /\ UNCHANGED <<telEnded, telOwed>>

\* The signal and the value are those of the wait that is on; only a match ends it.
TelCompare(r) ==
  LET signal == IF telCurrent = TelNoSignal THEN r.name ELSE telCurrent
      match == IF telCurrent = TelNoSignal THEN r.arg ELSE telMatch
  IN /\ telCurrent # TelNoSignal \/ r.name # TelUnknown
     /\ telMatch' = match
     /\ IF TelHolds(r.id, telValue[signal], match)
        THEN telCurrent' = TelNoSignal /\ TelEnd(r, "Finished") /\ telOwed' = FALSE
        ELSE /\ telCurrent' = signal
             /\ IF r.id = "IsEqual" THEN TelEnd(r, "Timeout") /\ telOwed' = TRUE
                ELSE telRequest' = r /\ UNCHANGED <<telEnded, telOwed>>

TelProcess(r) == (TelUnknownName(r) \/ TelCompare(r)) /\ UNCHANGED telValue

TelFirstPoll(r) ==
  /\ telRequest = TelNoRequest /\ telRequests < TelMaxRequests
  /\ telRequests' = telRequests + 1
  /\ TelProcess(r)

TelPoll ==
  /\ telRequest # TelNoRequest
  /\ TelProcess(telRequest)
  /\ UNCHANGED telRequests

\* The host's timeout.
TelGiveUp ==
  /\ telRequest # TelNoRequest /\ telRequest' = TelNoRequest
  /\ telOwed' = TRUE
  /\ UNCHANGED <<telValue, telCurrent, telMatch, telEnded, telRequests>>

TelNext ==
  TelSignalChanges \/ TelPoll \/ TelGiveUp \/ \E r \in TelRequest : TelFirstPoll(r)

TelSpec == TelInit /\ [][TelNext]_telVars
-----------------------------------------------------------------------------
TelTypeOK ==
  /\ telValue \in [TelSignals -> TelValues]
  /\ telCurrent \in TelSignals \cup {TelNoSignal} /\ telMatch \in TelValues
  /\ telRequest \in TelRequest \cup {TelNoRequest}
  /\ telOwed \in BOOLEAN /\ telRequests \in 0..TelMaxRequests

\* A wait, or a check, is answered about the signal and the value that its own line
\* names - unless the line before it was given up or was not equal, for then the
\* client still holds that line's signal and value.
TelHonest ==
  LET e == telEnded
  IN e.status # "none" /\ ~e.owed =>
       IF e.request.name = TelUnknown THEN e.status = "Error"
       ELSE /\ e.status # "Error"
            /\ (e.status = "Finished") =
                 TelHolds(e.request.id, e.values[e.request.name], e.request.arg)
=============================================================================
