SPECIFICATION PartsSpec
CONSTANTS
  LcdWidth = 2
  LcdHeight = 4
  LcdCommands = {1, 40, 231, 240}
  LcdChars = {65}
  LcdTexts = {65}
  LcdMaxBytes = 3
  LcdMaxScripts = 2
  MonLines = {"ok", "ok 1"}
  MonTexts = {"ok", "G1"}
  MonPartOf <- MCPartOf
  MonCodeLength = 2
  MonMaxRequests = 3
  MonMaxLines = 2
  TelSignals = {"fan", "heater"}
  TelUnknown = "unknown"
  TelMax = 1
  TelMaxRequests = 3
  SnifIntDigits = 2
  SnifMaxBytes = 6
  TmcWrites <- MCTmcWrites
  TmcReads = {"GSTAT", "DRV_STATUS"}
  TmcMixes <- MCTmcMixes
  TmcMaxPos = 1
  TmcStart = 1
  TmcMaxCommands = 2
  TmcMaxScripts = 1
  A4MaxPos = 40
  A4Start = 20
  A4Inverted = TRUE
  I2cOther = 97
  I2cReads = {2, 14}
  I2cWrites <- MCI2cWrites
  I2cMaxTransactions = 2
  I2cMaxEvents = 2
  InpModulus = 8
  IrScripted = {"AUTO", "v4_FILAMENT", "v4_NO_FILAMENT"}
  MmuMaxActs = 2
  StSize = 2
  StBytes = {0, 255}
  StMaxWrites = 2
  HeatMax = 3
  ThPowers = {0, 128, 255}
  FanMaxRpm = 2000
  FanSoftTimes = {0, 1, 129, 256}
  PipeCapacity = 1
  PipeMaxBytes = 2
  ExpAddresses = {0, 1, 9, 10, 18, 63}
  ExpMaxBytes = 9
  ExpMaxEvents = 1
  ShiftWidth = 3
  AnaTable <- MCAnaTable
  AnaOversample = 1
  AnaTemps <- MCAnaTemps
  AnaVolts = {120, 240}
  AnaScales = {1, 10}
  PindaXs = {0, 1}
  PindaYs = {0}
  PindaZs = {0, 2, 4, 8}
  PindaMesh = {1, 9}
  PindaZones = {1}
  BeepClock = 16000000
  BeepTimeout = 1600000
  BeepTimes = {200, 16000, 1600000, 20000000}
  PrintTubes = TRUE
  PrintMaxVerts = 4
  PrintMaxClears = 2
INVARIANTS
  PartsTypeOK
  LcdMirror
  LcdInSync
  LcdWaitFinds
  WaitersHonest
  DriversHonest
  FilamentTold
  InputsSettle
  MmuHonest
  StKept
  PwmHonest
  PipeHonest
  SignalsHonest
  SensorsHonest
  PrintHonest
PROPERTIES
  SnifFaithful
CHECK_DEADLOCK FALSE
