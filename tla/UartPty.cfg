SPECIFICATION Spec
CONSTANTS
  Bytes = {"nl", "x"}
  Newline = "nl"
  FifoSize = 1
  BufSize = 2
  RxSize = 1
  TtySize = 2
  MaxSent = 3
  MaxTyped = 3
  MaxResets = 1
INVARIANTS
  TypeOK
  NothingRefused
  FlushArmed
PROPERTIES
  ChannelImplemented
CHECK_DEADLOCK FALSE
