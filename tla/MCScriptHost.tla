---------------------------- MODULE MCScriptHost ----------------------------
(***************************************************************************)
(* Instances of ScriptHost for TLC: scripts of up to two lines, and one    *)
(* typed line, over one line of each kind that behaves differently.        *)
(***************************************************************************)
EXTENDS ScriptHost

L(act, arg) == [act |-> act, arg |-> arg]

MCScriptLines ==
  {L("Log", 0), L("WaitMs", 2), L("WaitForReset", 0), L("SetTimeoutMs", 2),
   L("SetQuitOnTimeout", 1), L("Snapshot", 0), L("CheckPixel", 1),
   L("Quit", 0), L("Fail", 0), L("Key", 0)}

MCWaitLines == {L("WaitMs", 2), L("SetTimeoutMs", 2)}
MCSnapLines == {L("Snapshot", 0)}

MCTypedLines == {L("Garbage", 0), L("Unknown", 0), L("WaitMs", 1), L("Pause", 0)}
=============================================================================
