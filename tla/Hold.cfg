SPECIFICATION Spec
CONSTANTS
  MaxWait = 2
  Modes = {"script"}
  ScriptLines <- MCSnapLines
  TypedLines <- MCTypedLines
  Keys = {}
  MenuItems = {}
  MaxLines = 1
  MaxPressed = 0
  MaxTimeout = 2
INVARIANT
  HoldReleased
CHECK_DEADLOCK FALSE
