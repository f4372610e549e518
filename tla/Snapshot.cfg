SPECIFICATION Spec
CONSTANTS
  MaxWait = 2
  Modes = {"script"}
  ScriptLines <- MCSnapLines
  TypedLines <- MCTypedLines
  Keys = {}
  MenuItems = {}
  MaxLines = 2
  MaxPressed = 0
  MaxTimeout = 2
INVARIANT
  SnapshotFresh
CHECK_DEADLOCK FALSE
