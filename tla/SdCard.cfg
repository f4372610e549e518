SPECIFICATION Spec
CONSTANTS
  Images = {"large", "protected", "odd", "empty", "missing", "unreadable"}
  FirstImage = "large"
  Missing = {"missing"}
  Unreadable = {"unreadable"}
  ReadOnly = {"protected"}
  Length <- MCLength
  Unit = 2
  BlockSize = 2
  CsdSize = 2
  CmdSize = 2
  Bytes = {0, 1}
  Blank = 0
  Addresses = {1, 4}
  MaxMounts = 3
INVARIANTS
  TypeOK
  OperationMapped
  NeverWaits
  RegisterHonest
  CardWhole
PROPERTIES
  DeviceImplemented
CHECK_DEADLOCK FALSE
