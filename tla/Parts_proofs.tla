---------------------------- MODULE Parts_proofs ----------------------------
(***************************************************************************)
(* Theorems about the parts together, as TLC runs them: MCParts chooses a  *)
(* part, which takes the steps.  Whatever is chosen, each part behaves as  *)
(* its own specification says; so what was proved of each alone is true of *)
(* all of them at every moment.                                            *)
(***************************************************************************)
EXTENDS MCParts, Motion_proofs, Power_proofs, TextView_proofs

partsVars == <<part, TextVars, MotionVars, PowerVars, SignalVars, ViewVars>>

LEMMA TextSteps ==
  [PartsNext]_partsVars =>
    [LcdNext]_lcdVars /\ [MonNext]_monVars /\ [TelNext]_telVars
    /\ [SnifNext]_snifVars
BY DEF PartsNext, TextNext, MotionNext, PowerNext, SignalNext, ViewNext,
       partsVars, TextVars, MotionVars, PowerVars, SignalVars, ViewVars

LEMMA MotionSteps ==
  [PartsNext]_partsVars =>
    [TmcNext]_tmcVars /\ [A4Next]_a4Vars /\ [I2cNext]_i2cVars
    /\ [InpNext]_inpVars /\ [BtnNext]_btnVars /\ [MmuNext]_mmuVars
BY DEF PartsNext, TextNext, MotionNext, PowerNext, SignalNext, ViewNext,
       partsVars, TextVars, MotionVars, PowerVars, SignalVars, ViewVars

LEMMA PowerSteps ==
  [PartsNext]_partsVars =>
    [StNext]_stVars /\ [HeatNext]_heatVars /\ [FanNext]_fanVars
    /\ [BeepNext]_beepVars /\ [PipeNext]_pipeVars
BY DEF PartsNext, TextNext, MotionNext, PowerNext, SignalNext, ViewNext,
       partsVars, TextVars, MotionVars, PowerVars, SignalVars, ViewVars

LEMMA SignalSteps ==
  [PartsNext]_partsVars =>
    [ExpNext]_expVars /\ [ShNext]_shVars /\ [MuxNext]_muxVars
    /\ [AnaNext]_anaVars /\ [VoltNext]_voltVars
BY DEF PartsNext, TextNext, MotionNext, PowerNext, SignalNext, ViewNext,
       partsVars, TextVars, MotionVars, PowerVars, SignalVars, ViewVars

LEMMA ViewSteps ==
  [PartsNext]_partsVars =>
    [PindaNext]_pindaVars /\ [PrintNext]_printVars /\ [PlyNext]_plyVars
BY DEF PartsNext, TextNext, MotionNext, PowerNext, SignalNext, ViewNext,
       partsVars, TextVars, MotionVars, PowerVars, SignalVars, ViewVars

LEMMA PartsBegin ==
  PartsInit =>
    /\ LcdInit /\ MonInit /\ TelInit /\ SnifInit
    /\ TmcInit /\ A4Init /\ I2cInit /\ InpInit /\ BtnInit /\ MmuInit
    /\ StInit /\ HeatInit /\ FanInit /\ BeepInit /\ PipeInit
    /\ ExpInit /\ ShInit /\ MuxInit /\ AnaInit /\ VoltInit
    /\ PindaInit /\ PrintInit /\ PlyInit
BY DEF PartsInit

\* Every part behaves as its own specification says: a step of another part leaves it alone
\* (the boards wire the parts, and they share no variable).
THEOREM PartsAreParts ==
  PartsSpec =>
    /\ LcdSpec /\ MonSpec /\ TelSpec /\ SnifSpec
    /\ TmcSpec /\ A4Spec /\ I2cSpec /\ InpSpec /\ BtnSpec /\ MmuSpec
    /\ StSpec /\ HeatSpec /\ FanSpec /\ BeepSpec /\ PipeSpec
    /\ ExpSpec /\ ShSpec /\ MuxSpec /\ AnaSpec /\ VoltSpec
    /\ PindaSpec /\ PrintSpec /\ PlySpec
BY PartsBegin, TextSteps, MotionSteps, PowerSteps, SignalSteps, ViewSteps, PTL
   DEF PartsSpec, partsVars,
       LcdSpec, MonSpec, TelSpec, SnifSpec,
       TmcSpec, A4Spec, I2cSpec, InpSpec, BtnSpec, MmuSpec,
       StSpec, HeatSpec, FanSpec, BeepSpec, PipeSpec,
       ExpSpec, ShSpec, MuxSpec, AnaSpec, VoltSpec,
       PindaSpec, PrintSpec, PlySpec

-----------------------------------------------------------------------------
(***************************************************************************)
(* So what holds of a part alone holds of the parts together.              *)
(***************************************************************************)
\* A script finds on the display what the window shows (HD44780.cpp).
THEOREM ScreenTogether == PartsSpec => []LcdMirror
BY PartsAreParts, ScriptReadsTheScreen, PTL

\* The power-on sequence brings the display into step with the firmware, but for one that a
\* reset of the AVR found busy, which stays so (HD44780.cpp:83-88, 335-379).
THEOREM InStepTogether == PartsSpec => []LcdInSync
BY PartsAreParts, PowerOnBringsInStep, PTL

\* No wait sleeps while its text is there to be found (HD44780.cpp, ProcessAction).
THEOREM WaitTogether == PartsSpec => []LcdWaitFinds
BY PartsAreParts, WaitFindsItsText, PTL

\* The clients that wait for the serial lines and for telemetry answer the line that asked
\* (SerialLineMonitor.cpp, TelemetryHost.cpp).
THEOREM WaitersTogether == PartsSpec => []WaitersHonest
<1>1. MonHonest /\ TelHonest => WaitersHonest
  BY DEF WaitersHonest
<1> QED BY <1>1, PartsAreParts, MonitorAnswersItsLine, TelemetryAnswersItsLine, PTL

\* A tool change is the number that stoi reads after its code (GCodeSniffer.cpp).
THEOREM SnifferTogether == PartsSpec => SnifFaithful
BY PartsAreParts, SnifferIsFaithful, PTL

\* Both kinds of stepper driver tell the firmware the truth; one whose timer a reset of the AVR
\* dropped does so again when it is next moved, disabled or sent to sleep (TMC2130.cpp, A4982.cpp).
THEOREM DriversTogether == PartsSpec => []DriversHonest
<1>1. (TmcAnswered /\ TmcStandstill /\ TmcDiagHonest) /\ (A4Ends /\ A4SleepHonest)
        => DriversHonest
  BY DEF DriversHonest
<1> QED BY <1>1, PartsAreParts, TmcHonest, A4Honest, PTL

\* The filament sensor on its bus answers for the register it was asked for, and tells of a
\* movement unless the extruder moves without filament before (PAT9125.cpp, I2CPeripheral.cpp).
THEOREM FilamentToldTogether == PartsSpec => []FilamentTold
<1>1. I2cHonest /\ PatMotionTold => FilamentTold
  BY DEF FilamentTold
<1> QED BY <1>1, PartsAreParts, FilamentIsTold, PTL

\* The knob and the buttons come to rest, or a reset of the AVR has dropped their timer
\* (RotaryEncoder.cpp, Button.cpp, ADC_Buttons.cpp).
THEOREM InputsTogether == PartsSpec => []InputsSettle
<1>1. InpSettles /\ BtnSettles => InputsSettle
  BY DEF InputsSettle
<1> QED BY <1>1, PartsAreParts, KnobSettles, ButtonsSettle, PTL

\* The filament sensors tell the printer where the filament is, unless its thread and the
\* unit's were setting one at once (MMU2.cpp, IRSensor.cpp).
THEOREM FilamentTogether == PartsSpec => []MmuHonest
BY PartsAreParts, FilamentHonest, PTL

\* What was saved is what the next run loads (Board.cpp, EEPROM.cpp).
THEOREM SavesTogether == PartsSpec => []StKept
BY PartsAreParts, SavesKept, PTL

\* Heaters, fans and the beeper do what their PWM says, or a reset of the AVR has dropped their
\* timer (Heater.cpp, Fan.cpp, Beeper.cpp).
THEOREM PwmTogether == PartsSpec => []PwmHonest
<1>1. HeatTicks /\ FanHonest /\ BeepHonest => PwmHonest
  BY DEF PwmHonest
<1> QED BY <1>1, PartsAreParts, HeatersTick, FansTold, TonesEnd, PTL

\* The bytes of the serial pipe arrive in the order they were sent (SerialPipe.cpp).
THEOREM PipeTogether == PartsSpec => []PipeHonest
BY PartsAreParts, PipeDelivers, PTL

\* The expander, the shift registers and the multiplexer drive what was written to them
\* (MCP23S17.cpp, HC595.cpp, MMU1.cpp).
THEOREM SignalsTogether == PartsSpec => []SignalsHonest
BY PartsAreParts, SignalsFollow, PTL

\* What the firmware senses is there: temperatures, voltages, of which a pin is driven high
\* between the levels too, and the bed (Thermistor.cpp, ADCPeripheral.h,
\* VoltageSrc.cpp, PINDA.cpp).
THEOREM SensorsTogether == PartsSpec => []SensorsHonest
<1>1. AnaHonest /\ PindaHonest => SensorsHonest
  BY DEF SensorsHonest
<1> QED BY <1>1, PartsAreParts, ConverterReadsNow, ProbeHonest, PTL

\* What is drawn is the print, and what a line exports is too, unless the queue of the mouse's
\* actions finished it (GLPrint.cpp, MK3SGL.cpp).
THEOREM PrintTogether == PartsSpec => []PrintHonest
<1>1. PrintWhole /\ PlyHonest => PrintHonest
  BY DEF PrintHonest
<1> QED BY <1>1, PartsAreParts, PrintIsWhole, ExportIsOfItsLine, PTL

-----------------------------------------------------------------------------
\* The invariants of the parts have the types of their variables.
LEMMA MotionTypes ==
  TmcInv /\ A4Inv /\ InpInv /\ BtnInv /\ MmuInv
    => TmcTypeOK /\ A4TypeOK /\ InpTypeOK /\ BtnTypeOK /\ MmuTypeOK
BY DEF TmcInv, A4Inv, InpInv, BtnInv, MmuInv

\* Every part keeps to the values its registers, pins, queues and files can have: the types
\* of all of them, which the other theorems rest on.
THEOREM PartsWellFormed == PartsSpec => []PartsTypeOK
<1>1. LcdTypeOK /\ MonTypeOK /\ TelTypeOK /\ SnifTypeOK /\ PrintTypeOK /\ PlyTypeOK
      /\ TmcTypeOK /\ A4TypeOK /\ InpTypeOK /\ BtnTypeOK /\ MmuTypeOK
      /\ I2cTypeOK /\ PindaTypeOK
      /\ StTypeOK /\ HeatTypeOK /\ FanTypeOK /\ BeepTypeOK /\ PipeTypeOK
      /\ SignalsTypeOK /\ AnaTypeOK /\ VoltTypeOK
      => PartsTypeOK
  BY DEF PartsTypeOK
<1>2. PartsSpec => [](LcdTypeOK /\ MonTypeOK /\ TelTypeOK /\ SnifTypeOK /\ PrintTypeOK /\ PlyTypeOK)
  BY PartsAreParts, ScriptReadsTheScreen, MonitorAnswersItsLine, TelemetryAnswersItsLine,
     SnifferIsFaithful, PrintIsWhole, ExportIsOfItsLine, PTL
<1>3. PartsSpec => [](TmcTypeOK /\ A4TypeOK /\ InpTypeOK /\ BtnTypeOK /\ MmuTypeOK
                        /\ I2cTypeOK /\ PindaTypeOK)
  BY MotionTypes, PartsAreParts, TmcInvariant, A4Invariant, InpInvariant, BtnInvariant,
     MmuInvariant, FilamentIsTold, ProbeHonest, PTL
<1>4. PartsSpec => [](StTypeOK /\ HeatTypeOK /\ FanTypeOK /\ BeepTypeOK /\ PipeTypeOK
                        /\ SignalsTypeOK /\ AnaTypeOK /\ VoltTypeOK)
  BY PartsAreParts, SavesKept, HeatersTick, FansTold, TonesEnd, PipeDelivers, SignalsFollow,
     ConverterReadsNow, PTL
<1> QED BY <1>1, <1>2, <1>3, <1>4, PTL
=============================================================================
