------------------------------ MODULE MCParts ------------------------------
(***************************************************************************)
(* The instances of the small parts for TLC.  Apart from the boards that   *)
(* wire them, they share no state: one is chosen at the start, takes all   *)
(* the steps, and the others stay as they were.  What a part chooses at    *)
(* the start is chosen only if it is the one.                              *)
(***************************************************************************)
EXTENDS Hd44780, SerialLineMonitor, TelemetryHost, GCodeSniffer, Tmc2130, A4982, I2cSensor,
        Inputs, Mmu2, Storage, Thermal, SerialPipe, Signals, Analog, Pinda, Beeper, PrintModel

MCPartOf == {<<"ok", "ok">>, <<"ok", "ok 1">>}
MCTmcWrites == {<<"GCONF", 1>>, <<"GCONF", 3>>, <<"CHOPCONF", 3>>}
MCTmcMixes == {[rw |-> "write", reg |-> "GCONF", data |-> 3]}
MCI2cWrites == {<<14, 240>>, <<127, 1>>}
MCAnaTable ==
  [t \in {"amb", "uv"} |-> IF t = "amb" THEN <<<<25, 125>>, <<105, 80>>, <<563, 25>>, <<1008, -40>>>>
                           ELSE <<<<73, 125>>, <<248, 80>>, <<770, 25>>, <<1016, -40>>>>]
MCAnaTemps == {-10, 100}

VARIABLE part

Parts == {"lcd", "mon", "tel", "snif", "tmc", "a4", "i2c", "inp", "btn", "mmu", "st",
          "heat", "fan", "beep", "pipe", "exp", "sh", "mux", "ana", "volt", "pinda", "print", "ply"}

\* One state of the parts that are not chosen.
Rest ==
  /\ part # "tmc" => ~tmcFree
  /\ part # "i2c" => ~i2cNative /\ patState = "AUTO"
  /\ part # "btn" => ~btnToggle
  /\ part # "mmu" => ~mmuSideband
  /\ part # "st" => stFile["flash"] = StNoFile
  /\ part # "heat" => heatHotend
  /\ part # "fan" => fanKind = "hard"
  /\ part # "volt" => voltV = 120 /\ voltScale = 1
  /\ part # "pinda" => ~pindaMK2 /\ pindaX = 0 /\ pindaMesh = [p \in Places |-> 1]
                       /\ pindaZone = [p \in Places |-> NoZone]

PartsInit ==
  /\ part \in Parts
  /\ LcdInit
  /\ MonInit
  /\ TelInit
  /\ SnifInit
  /\ TmcInit
  /\ A4Init
  /\ I2cInit
  /\ InpInit
  /\ BtnInit
  /\ MmuInit
  /\ StInit
  /\ HeatInit
  /\ FanInit
  /\ BeepInit
  /\ PipeInit
  /\ ExpInit
  /\ ShInit
  /\ MuxInit
  /\ AnaInit
  /\ VoltInit
  /\ PindaInit
  /\ PrintInit
  /\ PlyInit
  /\ Rest

TextVars == <<lcdVars, monVars, telVars, snifVars>>
TextNext ==
  \/ /\ part = "lcd" /\ LcdNext
     /\ UNCHANGED <<monVars, telVars, snifVars>>
  \/ /\ part = "mon" /\ MonNext
     /\ UNCHANGED <<lcdVars, telVars, snifVars>>
  \/ /\ part = "tel" /\ TelNext
     /\ UNCHANGED <<lcdVars, monVars, snifVars>>
  \/ /\ part = "snif" /\ SnifNext
     /\ UNCHANGED <<lcdVars, monVars, telVars>>

MotionVars == <<tmcVars, a4Vars, i2cVars, inpVars, btnVars, mmuVars>>
MotionNext ==
  \/ /\ part = "tmc" /\ TmcNext
     /\ UNCHANGED <<a4Vars, i2cVars, inpVars, btnVars, mmuVars>>
  \/ /\ part = "a4" /\ A4Next
     /\ UNCHANGED <<tmcVars, i2cVars, inpVars, btnVars, mmuVars>>
  \/ /\ part = "i2c" /\ I2cNext
     /\ UNCHANGED <<tmcVars, a4Vars, inpVars, btnVars, mmuVars>>
  \/ /\ part = "inp" /\ InpNext
     /\ UNCHANGED <<tmcVars, a4Vars, i2cVars, btnVars, mmuVars>>
  \/ /\ part = "btn" /\ BtnNext
     /\ UNCHANGED <<tmcVars, a4Vars, i2cVars, inpVars, mmuVars>>
  \/ /\ part = "mmu" /\ MmuNext
     /\ UNCHANGED <<tmcVars, a4Vars, i2cVars, inpVars, btnVars>>

PowerVars == <<stVars, heatVars, fanVars, beepVars, pipeVars>>
PowerNext ==
  \/ /\ part = "st" /\ StNext
     /\ UNCHANGED <<heatVars, fanVars, beepVars, pipeVars>>
  \/ /\ part = "heat" /\ HeatNext
     /\ UNCHANGED <<stVars, fanVars, beepVars, pipeVars>>
  \/ /\ part = "fan" /\ FanNext
     /\ UNCHANGED <<stVars, heatVars, beepVars, pipeVars>>
  \/ /\ part = "beep" /\ BeepNext
     /\ UNCHANGED <<stVars, heatVars, fanVars, pipeVars>>
  \/ /\ part = "pipe" /\ PipeNext
     /\ UNCHANGED <<stVars, heatVars, fanVars, beepVars>>

SignalVars == <<expVars, shVars, muxVars, anaVars, voltVars>>
SignalNext ==
  \/ /\ part = "exp" /\ ExpNext
     /\ UNCHANGED <<shVars, muxVars, anaVars, voltVars>>
  \/ /\ part = "sh" /\ ShNext
     /\ UNCHANGED <<expVars, muxVars, anaVars, voltVars>>
  \/ /\ part = "mux" /\ MuxNext
     /\ UNCHANGED <<expVars, shVars, anaVars, voltVars>>
  \/ /\ part = "ana" /\ AnaNext
     /\ UNCHANGED <<expVars, shVars, muxVars, voltVars>>
  \/ /\ part = "volt" /\ VoltNext
     /\ UNCHANGED <<expVars, shVars, muxVars, anaVars>>

ViewVars == <<pindaVars, printVars, plyVars>>
ViewNext ==
  \/ /\ part = "pinda" /\ PindaNext
     /\ UNCHANGED <<printVars, plyVars>>
  \/ /\ part = "print" /\ PrintNext
     /\ UNCHANGED <<pindaVars, plyVars>>
  \/ /\ part = "ply" /\ PlyNext
     /\ UNCHANGED <<pindaVars, printVars>>

PartsNext ==
  /\ UNCHANGED part
  /\ \/ TextNext /\ UNCHANGED <<MotionVars, PowerVars, SignalVars, ViewVars>>
     \/ MotionNext /\ UNCHANGED <<TextVars, PowerVars, SignalVars, ViewVars>>
     \/ PowerNext /\ UNCHANGED <<TextVars, MotionVars, SignalVars, ViewVars>>
     \/ SignalNext /\ UNCHANGED <<TextVars, MotionVars, PowerVars, ViewVars>>
     \/ ViewNext /\ UNCHANGED <<TextVars, MotionVars, PowerVars, SignalVars>>

PartsSpec == PartsInit /\ [][PartsNext]_<<part, TextVars, MotionVars, PowerVars, SignalVars, ViewVars>>

-----------------------------------------------------------------------------
\* Every part is well formed; one that is not chosen does not move.
PartsTypeOK ==
  /\ part = "lcd" => LcdTypeOK
  /\ part = "mon" => MonTypeOK
  /\ part = "tel" => TelTypeOK
  /\ part = "snif" => SnifTypeOK
  /\ part = "tmc" => TmcTypeOK
  /\ part = "a4" => A4TypeOK
  /\ part = "i2c" => I2cTypeOK
  /\ part \in {"inp", "btn"} => InpTypeOK /\ BtnTypeOK
  /\ part = "mmu" => MmuTypeOK
  /\ part = "st" => StTypeOK
  /\ part \in {"heat", "fan", "beep"} => HeatTypeOK /\ FanTypeOK /\ BeepTypeOK
  /\ part = "pipe" => PipeTypeOK
  /\ part \in {"exp", "sh", "mux"} => SignalsTypeOK
  /\ part \in {"ana", "volt"} => AnaTypeOK /\ VoltTypeOK
  /\ part = "pinda" => PindaTypeOK
  /\ part \in {"print", "ply"} => PrintTypeOK /\ PlyTypeOK

\* The two script clients that wait answer for the line that asked (MonHonest, TelHonest).
WaitersHonest == MonHonest /\ TelHonest

\* The stepper drivers: the answers, the standstill and the stall of the Einsy's, the end
\* switches and the sleep of the RAMBo's (TmcAnswered, TmcStandstill, TmcDiagHonest, A4Ends,
\* A4SleepHonest).
DriversHonest == TmcAnswered /\ TmcStandstill /\ TmcDiagHonest /\ A4Ends /\ A4SleepHonest

\* The filament sensor on its bus answers as it is, and tells of a movement (I2cHonest,
\* PatMotionTold).
FilamentTold == I2cHonest /\ PatMotionTold

\* The knob and the buttons come to rest, or a reset has dropped their timer (InpSettles,
\* BtnSettles).
InputsSettle == InpSettles /\ BtnSettles

\* What a PWM drives: the heaters tick while they must, the fans turn as they are told, and a
\* tone ends, or a reset has dropped the timer (HeatTicks, FanHonest, BeepHonest).
PwmHonest == HeatTicks /\ FanHonest /\ BeepHonest

\* What the firmware senses is there: the analogue values, and the height of the bed
\* (AnaHonest, PindaHonest).
SensorsHonest == AnaHonest /\ PindaHonest
=============================================================================
