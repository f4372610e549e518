SPECIFICATION FairSpec
CONSTANTS
  Bytes = {"nl", "x"}
  Newline = "nl"
  FifoSize = 2
  BufSize = 2
  RxSize = 1
  TtySize = 1
  MaxSent = 2
  MaxTyped = 2
  MaxResets = 1
PROPERTIES
  InputArrives
  CallbacksReturn
  Joins
CHECK_DEADLOCK FALSE
