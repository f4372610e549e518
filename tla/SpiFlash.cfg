SPECIFICATION Spec
CONSTANTS
  Bits = {1}
  TotalSize = 32
  PageSize = 2
  SectorSize = 4
  Block32Size = 8
  Block64Size = 16
  UidSize = 2
  RawAddresses = {1, 52}
  SentBytes <- MCSentBytes
  FillBytes <- MCFillBytes
  Chunks <- MCChunks
  CutLengths = {0, 32}
  MaxSelects = 4
  MaxScripts = 1
  MaxBoots = 2
INVARIANTS
  TypeOK
  RoundTrip
PROPERTIES
  NorImplemented
CHECK_DEADLOCK FALSE
