SPECIFICATION Spec
CONSTANTS
  MaxWait = 2
  Modes = {"script"}
  ScriptLines <- MCWaitLines
  TypedLines <- MCTypedLines
  Keys = {}
  MenuItems = {}
  MaxLines = 3
  MaxPressed = 0
  MaxTimeout = 2
INVARIANT
  WaitMsExact
CHECK_DEADLOCK FALSE
