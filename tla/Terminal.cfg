SPECIFICATION FairSpec
CONSTANTS
  MaxWait = 2
  Modes = {"script", "scriptTerminal", "terminal"}
  ScriptLines <- MCScriptLines
  TypedLines <- MCTypedLines
  Keys = {"z", "r", "S"}
  MenuItems = {"AutoSnap"}
  MaxLines = 2
  MaxPressed = 1
  MaxTimeout = 2
INVARIANTS
  TypeOK
  RightLineExecuted
  StatusIsOfLastLine
  ScriptExclusive
PROPERTIES
  EveryLineResolved
CHECK_DEADLOCK FALSE
