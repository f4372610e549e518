------------------------------- MODULE Analog -------------------------------
(***************************************************************************)
(* What the AVR's analogue-to-digital converter reads: the two thermistors *)
(* (parts/components/Thermistor.cpp) behind the multiplexer of the CW1S    *)
(* (74HCT4052.cpp, wired in boards/CW1S.cpp), and a voltage source         *)
(* (VoltageSrc.cpp).  Each of the four is an ADCPeripheral: it answers the *)
(* trigger of its own channel, and raises its answer only if it differs    *)
(* from its last one.  So two caches lie between a thermistor and the      *)
(* firmware.  The voltage source shares nothing with the others.           *)
(*                                                                         *)
(* Temperatures are whole degrees; float rounding is left out.  All of it  *)
(* runs in the AVR thread.                                                 *)
(***************************************************************************)
EXTENDS Integers, Sequences

CONSTANTS
  AnaTable,      \* the table of each thermistor: pairs of converter value and temperature
  AnaOversample, \* m_iOversampling
  AnaTemps,      \* the temperatures a script or a heater sets
  AnaVolts,      \* the voltages a script sets, in mV at the converter for a scale of 1
  AnaScales      \* the scales a script sets

Thermistors == {"amb", "uv"}
Peripherals == Thermistors \cup {"mux"}
OutOfRange == 2147483647   \* stands for UINT32_MAX: a reading above every other
Wrap == 16777216           \* 2^32, in degrees: a temperature is sent in 1/256 degree

\* The converter has 10 bits, and a table falls: a hotter sample reads lower.
ASSUME AnalogAssumption ==
  /\ AnaOversample \in Nat \ {0}
  /\ \A t \in Thermistors :
       /\ Len(AnaTable[t]) \in Nat \ {0}
       /\ \A i \in 1..Len(AnaTable[t]) :
            /\ AnaTable[t][i][1] \in 0..1023 * AnaOversample /\ AnaTable[t][i][2] \in Int
            /\ \A j \in 1..(i - 1) : /\ AnaTable[t][j][1] < AnaTable[t][i][1]
                                     /\ AnaTable[t][j][2] > AnaTable[t][i][2]
  /\ AnaTemps \subseteq -Wrap..Wrap
  /\ AnaVolts \subseteq Nat /\ AnaScales \subseteq Nat

VARIABLES
  anaTemp,     \* m_fCurrentTemp of the thermistors
  anaWire,     \* m_eState of the thermistors
  anaSelect,   \* the pins B_IN and A_IN of the multiplexer, as a number
  anaLast,     \* m_uiLast of each peripheral
  anaPin,      \* the pin that ADC_VALUE_OUT is connected to: IN_0, IN_1, or the converter's
  anaRead      \* history: the converter has just read, and nothing has changed since

anaVars == <<anaTemp, anaWire, anaSelect, anaLast, anaPin, anaRead>>

AnaInit ==
  /\ anaTemp = [t \in Thermistors |-> IF t = "uv" THEN 20 ELSE 25]
  /\ anaWire = [t \in Thermistors |-> "Connected"]
  /\ anaSelect = 0
  /\ anaLast = [p \in Peripherals |-> 0] /\ anaPin = [p \in Peripherals |-> 0]
  /\ anaRead = FALSE

\* OnADCRead of a thermistor looks for the first sample that is not hotter, and interpolates
\* between it and the one before.  The converter's value is cut to an integer, divided by the
\* oversampling, and made mV.
Colder(t, temp) == {i \in 1..Len(AnaTable[t]) : AnaTable[t][i][2] <= temp}
FirstColder(t, temp) == CHOOSE n \in Colder(t, temp) : \A m \in Colder(t, temp) : n <= m
Sample(t, temp) ==
  LET table == AnaTable[t]
      i == FirstColder(t, temp)
      dAdc == table[i][1] - table[i - 1][1]
      dTemp == table[i - 1][2] - table[i][2]
  IN IF i = 1 \/ table[i][2] = temp THEN table[i][1]
     ELSE (table[i][1] * dTemp - dAdc * (temp - table[i][2])) \div dTemp
MilliVolts(value) == ((value \div AnaOversample) * 5000) \div 1023
TableValue(t, temp) ==
  IF Colder(t, temp) = {} THEN OutOfRange ELSE MilliVolts(Sample(t, temp))

ThermistorRead(t) ==
  CASE anaWire[t] = "Shorted" -> 0
    [] anaWire[t] = "OpenCircuit" -> 5000
    [] OTHER -> TableValue(t, anaTemp[t])

\* (A definition named Mut... is the one after it with a plausible mistake in it.)
MutAnswer(value, io) ==
  IF value = io.last THEN io
  ELSE [last |-> IF value = 0 THEN io.last ELSE value, pin |-> value]
\* _OnADCRead, once the channel is the peripheral's own: an answer other than the last one is
\* remembered and raised.
Answer(value, io) == IF value = io.last THEN io ELSE [last |-> value, pin |-> value]
Own(p) == [last |-> anaLast[p], pin |-> anaPin[p]]

\* The thermistor on the selected input, if there is one.
MuxSelected == CASE anaSelect = 0 -> "amb" [] anaSelect = 1 -> "uv" [] OTHER -> "none"

\* OnADCRead of the multiplexer: the thermistor that is selected is asked first, under the
\* channel 255; the answer is what then is on the input, 0 where nothing is connected.
MuxConvert ==
  LET t == MuxSelected
      asked == Answer(ThermistorRead(t), Own(t))
      got == Answer(IF t = "none" THEN 0 ELSE asked.pin, Own("mux"))
      New(p) == IF p = "mux" THEN got ELSE IF p = t THEN asked ELSE Own(p)
  IN /\ anaLast' = [p \in Peripherals |-> New(p).last]
     /\ anaPin' = [p \in Peripherals |-> New(p).pin]
     /\ anaRead' = TRUE
     /\ UNCHANGED <<anaTemp, anaWire, anaSelect>>

\* The port expander changes the two pins one after the other.
AnaSelect ==
  /\ \E pin \in {1, 2} :
       anaSelect' = IF (anaSelect \div pin) % 2 = 1 THEN anaSelect - pin ELSE anaSelect + pin
  /\ anaRead' = FALSE
  /\ UNCHANGED <<anaTemp, anaWire, anaLast, anaPin>>

\* Set, or the heater's TEMP_OUT.  The conversion of a negative temperature to an unsigned
\* number of 1/256 degree is undefined: it gives 0, or wraps to one that is hotter than any.
AnaSetTemp ==
  /\ \E t \in Thermistors, temp \in AnaTemps :
       \E kept \in IF temp < 0 THEN {0, Wrap + temp} ELSE {temp} :
         anaTemp' = [anaTemp EXCEPT ![t] = kept]
  /\ anaRead' = FALSE
  /\ UNCHANGED <<anaWire, anaSelect, anaLast, anaPin>>
\* Disconnect, Short and Reconnect
AnaSetWire ==
  /\ \E t \in Thermistors, wire \in {"OpenCircuit", "Shorted", "Connected"} :
       anaWire' = [anaWire EXCEPT ![t] = wire]
  /\ anaRead' = FALSE
  /\ UNCHANGED <<anaTemp, anaSelect, anaLast, anaPin>>

AnaNext == MuxConvert \/ AnaSelect \/ AnaSetTemp \/ AnaSetWire

AnaSpec == AnaInit /\ [][AnaNext]_anaVars

AnaTypeOK ==
  /\ anaTemp \in [Thermistors -> 0..Wrap]
  /\ anaWire \in [Thermistors -> {"OpenCircuit", "Shorted", "Connected"}]
  /\ anaSelect \in 0..3 /\ anaRead \in BOOLEAN
  /\ anaLast \in [Peripherals -> Nat] /\ anaPin \in [Peripherals -> Nat]

-----------------------------------------------------------------------------
(* The voltage source *)

VARIABLES
  voltV, voltScale,    \* m_fCurrentV and m_fVScale
  voltLast, voltPin,   \* m_uiLast, and the pin of the converter
  voltDigital,         \* DIGITAL_OUT
  voltStale            \* history: the voltage changed, and the converter has not read since

voltVars == <<voltV, voltScale, voltLast, voltPin, voltDigital, voltStale>>

VoltInit ==
  /\ voltV \in AnaVolts /\ voltScale \in AnaScales /\ voltLast = 0 /\ voltPin = 0
  /\ voltDigital = "low" /\ voltStale = TRUE

VoltRead == voltV * voltScale
\* _SyncDigitalIRQ.  Between 0.8 and 2.2 V it means the pin to float, and drives it high:
\* RaiseIRQFloat takes the flags for the value, which then is not 0, and asks the pin, which
\* never has it, for the flag that would make it float.
SyncDigital(value) == IF value < 800 THEN "low" ELSE "high"

VoltConvert ==
  LET got == Answer(VoltRead, [last |-> voltLast, pin |-> voltPin])
  IN /\ voltLast' = got.last /\ voltPin' = got.pin
     /\ voltDigital' = IF VoltRead = voltLast THEN voltDigital ELSE SyncDigital(VoltRead)
     /\ voltStale' = FALSE
     /\ UNCHANGED <<voltV, voltScale>>
\* SetV and SetVScale
VoltSet ==
  /\ \/ voltV' \in AnaVolts /\ UNCHANGED voltScale
     \/ voltScale' \in AnaScales /\ UNCHANGED voltV
  /\ voltStale' = TRUE
  /\ UNCHANGED <<voltLast, voltPin, voltDigital>>

VoltNext == VoltConvert \/ VoltSet

VoltSpec == VoltInit /\ [][VoltNext]_voltVars

VoltTypeOK ==
  /\ voltV \in AnaVolts /\ voltScale \in AnaScales /\ voltLast \in Nat /\ voltPin \in Nat
  /\ voltDigital \in {"low", "high"} /\ voltStale \in BOOLEAN

-----------------------------------------------------------------------------
\* What the firmware reads is the sensor it selected as it is now, through both caches, and
\* never the one it selected before; and it never reads higher than a colder one would.  The
\* digital pin of a voltage source tells the voltage the converter read last, which a supply
\* that fails is not before the next conversion: it is low below 0.8 V, and driven high by
\* every other voltage.
AnaHonest ==
  /\ anaRead =>
       LET t == MuxSelected
       IN  /\ anaPin["mux"] = IF t = "none" THEN 0 ELSE ThermistorRead(t)
           /\ \A temp \in AnaTemps :
                t # "none" /\ anaWire[t] = "Connected" /\ temp <= anaTemp[t]
                  => anaPin["mux"] <= TableValue(t, temp)
  /\ ~voltStale => voltPin = VoltRead /\ (voltDigital = "low" <=> VoltRead < 800)
=============================================================================
