SPECIFICATION Spec
CONSTANTS
  MaxWait = 2
  Modes = {"stdin"}
  ScriptLines <- MCScriptLines
  TypedLines <- MCTypedLines
  Keys = {}
  MenuItems = {}
  MaxLines = 1
  MaxPressed = 0
  MaxTimeout = 2
INVARIANT
  NoRace
CHECK_DEADLOCK FALSE
