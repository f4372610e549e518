SPECIFICATION Spec
CONSTANTS
  MaxWait = 2
  Modes = {"script"}
  ScriptLines <- MCScriptLines
  TypedLines <- MCTypedLines
  Keys = {"z", "r", "S"}
  MenuItems = {"AutoSnap"}
  MaxLines = 3
  MaxPressed = 1
  MaxTimeout = 2
INVARIANTS
  LinesInOrder
  FullTimeout
  ExitCodeHonest
CHECK_DEADLOCK FALSE
